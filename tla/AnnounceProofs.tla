--------------------------- MODULE AnnounceProofs ---------------------------
(***************************************************************************)
(* Proofs about Announce: its type invariant, that nothing long gone is    *)
(* announced, that nobody is informed late, and that nothing is announced  *)
(* without a cause, for every set of entries and plans, every interval and *)
(* age, and every number of changes and failures.                          *)
(***************************************************************************)
EXTENDS Announce, TLAPS

\* What the assumptions say of each parameter.
LEMMA Parameters ==
  /\ Me \in Nat /\ Entry \subseteq Nat /\ Neighbour \subseteq Nat
  /\ Configured \subseteq Entry /\ Planned \subseteq Neighbour
  /\ Interval \in Nat /\ Interval > 0 /\ Wake \in Nat /\ Wake > 0
  /\ TTL \in Nat /\ TTL > 0 /\ PlanTTL \in Nat /\ PlanTTL > 0 /\ PlanTTL <= TTL
  /\ Lag \in Nat /\ MaxTime \in Nat /\ MaxTime > 0 /\ MaxEdits \in Nat /\ MaxFaults \in Nat
  BY AnnounceAssumption

\* What is shown or reached is part of what there is.
LEMMA OwnIsPart ==
  ASSUME NEW h \in SUBSET Entry, NEW t, NEW k
  PROVE  Own(k, h, t) \subseteq Entry
  BY DEF Own, FirstOf, Announceable, OfKind

LEMMA ReachableIsPart ==
  ASSUME NEW p \in SUBSET Neighbour
  PROVE  Reachable(p) \subseteq Neighbour \ {Me}
  BY DEF Reachable, FirstOf

\* The types of each group of variables.
ClockOK == now \in Instant /\ nextUpdate \in Beyond /\ wakeAt \in Beyond

IonOK ==
  /\ held \subseteq Entry /\ plans \subseteq Neighbour
  /\ moved \in [Entry -> Instant] /\ planMoved \in [Neighbour -> Instant]
  /\ edits \in 0..MaxEdits

CachesOK == cachedPlans \subseteq Neighbour \ {Me} /\ lastPlanUpdate \in Instant

SnapshotsOK ==
  /\ snapshot \in [Kind -> SUBSET Entry]
  /\ updated \in [Kind -> Instant]
  /\ changed \in [Kind -> BOOLEAN]

ExchangeOK ==
  /\ list \subseteq Neighbour \ {Me} /\ lastPlanList \subseteq Neighbour \ {Me}
  /\ lastExchange \in Instant
  /\ told \in [Entry \X Neighbour -> Instant]

StageOK ==
  /\ pc \in {"plans", "contacts", "ranges", "exchange", "asleep"}
  /\ round \in {"startup", "update", "wake"}

FaultsOK == lastFault \in Instant /\ faults \in 0..MaxFaults

Types ==
  ClockOK /\ IonOK /\ CachesOK /\ SnapshotsOK /\ ExchangeOK /\ StageOK /\ FaultsOK

LEMMA TypesByGroup == TypeOK <=> Types
  BY DEF TypeOK, Types, ClockOK, IonOK, CachesOK, SnapshotsOK, ExchangeOK, StageOK, FaultsOK

\* The initial states are well-typed.
LEMMA InitTypes == Init => Types
  <1> SUFFICES ASSUME Init PROVE Types
    OBVIOUS
  <1>0. {0, 1} \subseteq Instant /\ 0 \in Beyond
    BY Parameters DEF Instant, Beyond
  <1>1. ClockOK /\ CachesOK /\ StageOK
    BY <1>0 DEF Init, ClockOK, CachesOK, StageOK
  <1>2. IonOK /\ FaultsOK
    BY <1>0, Parameters DEF Init, IonOK, FaultsOK
  <1>3. ExchangeOK
    BY <1>0 DEF Init, ExchangeOK
  <1>4. SnapshotsOK
    BY <1>0 DEF Init, SnapshotsOK
  <1> QED
    BY <1>1, <1>2, <1>3, <1>4 DEF Types

\* One failure more, or none.
LEMMA FaultTypes ==
  ASSUME TypeOK, Fault \/ UNCHANGED failures
  PROVE  FaultsOK'
  BY Parameters DEF TypeOK, FaultsOK, Fault, failures, Instant

\* The plans are read, or not.
LEMMA CacheTypes ==
  ASSUME TypeOK, ReadPlans \/ UNCHANGED caches
  PROVE  CachesOK'
  BY ReachableIsPart DEF TypeOK, CachesOK, ReadPlans, caches

\* Each refresh.
LEMMA RefreshTypes ==
  ASSUME TypeOK, NEW k \in Kind, refresh(k)
  PROVE  SnapshotsOK' /\ FaultsOK'
  <1>1. FaultsOK'
    <2>1. Fault \/ UNCHANGED failures
      BY DEF refresh
    <2> QED
      BY <2>1, FaultTypes
  <1>2. CASE Kept(k)
    <2>1. snapshot' \in [Kind -> SUBSET Entry] /\ updated' \in [Kind -> Instant]
      BY <1>2 DEF TypeOK, Kept
    <2>2. changed' \in [Kind -> BOOLEAN]
      BY <1>2 DEF TypeOK, Kept
    <2> QED
      BY <1>1, <2>1, <2>2 DEF SnapshotsOK
  <1>3. CASE /\ snapshot' = [snapshot EXCEPT ![k] = Own(k, held, now)]
             /\ updated' = [updated EXCEPT ![k] = now]
             /\ changed' = [changed EXCEPT ![k] = Differs(Own(k, held, now), k)]
    <2>1. Own(k, held, now) \in SUBSET Entry /\ now \in Instant
      BY OwnIsPart DEF TypeOK
    <2>2. snapshot' \in [Kind -> SUBSET Entry] /\ updated' \in [Kind -> Instant]
      BY <1>3, <2>1 DEF TypeOK
    <2>3. Differs(Own(k, held, now), k) \in BOOLEAN
      BY DEF Differs
    <2>4. changed' \in [Kind -> BOOLEAN]
      BY <1>3, <2>3 DEF TypeOK
    <2> QED
      BY <1>1, <2>2, <2>4 DEF SnapshotsOK
  <1>4. \/ Kept(k)
        \/ /\ snapshot' = [snapshot EXCEPT ![k] = Own(k, held, now)]
           /\ updated' = [updated EXCEPT ![k] = now]
           /\ changed' = [changed EXCEPT ![k] = Differs(Own(k, held, now), k)]
    BY DEF refresh
  <1> QED
    BY <1>2, <1>3, <1>4

\* The sends.
LEMMA SendTypes ==
  ASSUME TypeOK, NEW failing, Send(failing)
  PROVE  /\ lastPlanList' \subseteq Neighbour \ {Me} /\ lastExchange' \in Instant
         /\ told' \in [Entry \X Neighbour -> Instant]
  BY DEF TypeOK, Send

\* The end of the exchange.
LEMMA EndTypes ==
  ASSUME TypeOK, EndOfExchange, now' = now
  PROVE  ClockOK' /\ StageOK'
  BY Parameters DEF TypeOK, EndOfExchange, ClockOK, StageOK, Instant, Beyond

\* What moves is noted at the current time or the next.
LEMMA NoteTypes ==
  ASSUME TypeOK, NEW h, NEW p, NEW t \in Instant, Note(h, p, t)
  PROVE  moved' \in [Entry -> Instant] /\ planMoved' \in [Neighbour -> Instant]
  BY DEF TypeOK, Note

\* A change of ION's configuration.
LEMMA EditTypes ==
  ASSUME TypeOK, NEW h \in SUBSET Entry, NEW p \in SUBSET Neighbour, Edit(h, p)
  PROVE  Types'
  <1>1. moved' \in [Entry -> Instant] /\ planMoved' \in [Neighbour -> Instant]
    <2>1. now \in Instant /\ Note(h, p, now)
      BY DEF TypeOK, Edit
    <2> QED
      BY <2>1, NoteTypes
  <1>2. IonOK'
    BY <1>1, Parameters DEF TypeOK, IonOK, Edit
  <1>3. ClockOK' /\ CachesOK' /\ ExchangeOK' /\ StageOK' /\ FaultsOK'
    BY DEF TypeOK, ClockOK, CachesOK, ExchangeOK, StageOK, FaultsOK, Edit, schedule, caches,
           exchange, failures
  <1>4. SnapshotsOK'
    BY DEF TypeOK, SnapshotsOK, Edit, snapshots
  <1> QED
    BY <1>2, <1>3, <1>4 DEF Types

\* Every step keeps the types.
LEMMA NextTypes == Types /\ [Next]_vars => Types'
  <1> SUFFICES ASSUME Types, [Next]_vars PROVE Types'
    OBVIOUS
  <1> TypeOK
    BY TypesByGroup
  <1>0. ClockOK /\ IonOK /\ CachesOK /\ SnapshotsOK /\ ExchangeOK /\ StageOK /\ FaultsOK
    BY DEF Types
  <1>1. CASE TakePlans
    <2>1. CachesOK' /\ FaultsOK'
      <3>1. ReadPlans \/ UNCHANGED caches
        BY <1>1 DEF TakePlans, getplanlist, caches
      <3>2. Fault \/ UNCHANGED failures
        BY <1>1 DEF TakePlans, getplanlist, ReadPlans, failures
      <3> QED
        BY <3>1, <3>2, CacheTypes, FaultTypes
    <2>2. list' \subseteq Neighbour \ {Me}
      BY <1>0, <1>1, <2>1 DEF TakePlans, getplanlist, CachesOK
    <2>3. ClockOK' /\ StageOK'
      BY <1>0, <1>1, Parameters DEF TakePlans, ClockOK, StageOK, Instant, Beyond
    <2>4. ExchangeOK' /\ IonOK' /\ SnapshotsOK'
      BY <1>0, <1>1, <2>2
      DEF TakePlans, ExchangeOK, IonOK, SnapshotsOK, exchange, ion, snapshots
    <2> QED
      BY <2>1, <2>3, <2>4 DEF Types
  <1>2. CASE refreshMyContacts \/ refreshMyRanges
    <2>1. refresh("contact") \/ refresh("range")
      BY <1>2 DEF refreshMyContacts, refreshMyRanges
    <2>2. SnapshotsOK' /\ FaultsOK'
      BY <2>1, RefreshTypes DEF Kind
    <2>3. ClockOK' /\ StageOK' /\ CachesOK' /\ ExchangeOK' /\ IonOK'
      BY <1>0, <1>2
      DEF refreshMyContacts, refreshMyRanges, ClockOK, StageOK, CachesOK, ExchangeOK, IonOK,
          schedule, caches, exchange, ion
    <2> QED
      BY <2>2, <2>3 DEF Types
  <1>3. CASE Exchange
    <2>1. PICK failing : Send(failing)
      BY <1>3 DEF Exchange
    <2>2. EndOfExchange /\ now' = now
      BY <1>3 DEF Exchange
    <2>3. FaultsOK'
      <3>1. Fault \/ UNCHANGED failures
        BY <1>3 DEF Exchange
      <3> QED
        BY <3>1, FaultTypes
    <2>4. ExchangeOK'
      BY <1>0, <1>3, <2>1, SendTypes DEF Exchange, ExchangeOK
    <2>5. CachesOK' /\ IonOK' /\ SnapshotsOK'
      BY <1>0, <1>3 DEF Exchange, CachesOK, IonOK, SnapshotsOK, caches, ion, snapshots
    <2> QED
      BY <2>2, <2>3, <2>4, <2>5, EndTypes DEF Types
  <1>4. CASE SkipExchange
    <2>1. EndOfExchange /\ now' = now
      BY <1>4 DEF SkipExchange
    <2>2. CachesOK' /\ IonOK' /\ SnapshotsOK' /\ ExchangeOK' /\ FaultsOK'
      BY <1>0, <1>4
      DEF SkipExchange, CachesOK, IonOK, SnapshotsOK, ExchangeOK, FaultsOK, caches, ion,
          snapshots, exchange, failures
    <2> QED
      BY <2>1, <2>2, EndTypes DEF Types
  <1>5. CASE WakeUp
    <2>1. /\ ClockOK' /\ CachesOK' /\ IonOK' /\ SnapshotsOK' /\ ExchangeOK' /\ StageOK'
          /\ FaultsOK'
      BY <1>0, <1>5
      DEF WakeUp, ClockOK, CachesOK, IonOK, SnapshotsOK, ExchangeOK, StageOK, FaultsOK,
          schedule, caches, ion, snapshots, exchange, failures
    <2> QED
      BY <2>1 DEF Types
  <1>6. CASE ForwardTakesPlans
    <2>1. CachesOK' /\ FaultsOK'
      <3>1. ReadPlans /\ UNCHANGED failures
        BY <1>6 DEF ForwardTakesPlans, ReadPlans
      <3> QED
        BY <3>1, CacheTypes, FaultTypes
    <2>2. ClockOK' /\ IonOK' /\ SnapshotsOK' /\ ExchangeOK' /\ StageOK'
      BY <1>0, <1>6
      DEF ForwardTakesPlans, ClockOK, IonOK, SnapshotsOK, ExchangeOK, StageOK, schedule, ion,
          snapshots, exchange
    <2> QED
      BY <2>1, <2>2 DEF Types
  <1>7. CASE Tick
    <2>1. now + 1 \in Instant /\ now' = now + 1
      BY <1>0, <1>7, Parameters DEF Tick, ClockOK, Instant
    <2>2. moved' \in [Entry -> Instant] /\ planMoved' \in [Neighbour -> Instant]
      BY <1>7, <2>1, NoteTypes DEF Tick
    <2>3. ClockOK' /\ IonOK'
      BY <1>0, <1>7, <2>1, <2>2 DEF Tick, ClockOK, IonOK, schedule
    <2>4. CachesOK' /\ SnapshotsOK' /\ ExchangeOK' /\ StageOK' /\ FaultsOK'
      BY <1>0, <1>7
      DEF Tick, CachesOK, SnapshotsOK, ExchangeOK, StageOK, FaultsOK, caches, snapshots,
          exchange, failures
    <2> QED
      BY <2>3, <2>4 DEF Types
  <1>8. CASE Configuration
    <2>1. PICK h \in SUBSET Entry, p \in SUBSET Neighbour : Edit(h, p)
      BY <1>0, <1>8 DEF Configuration, IndexChanges, PlansChange, IonOK
    <2> QED
      BY <2>1, EditTypes
  <1>9. CASE UNCHANGED vars
    <2>1. /\ ClockOK' /\ CachesOK' /\ IonOK' /\ SnapshotsOK' /\ ExchangeOK' /\ StageOK'
          /\ FaultsOK'
      BY <1>0, <1>9
      DEF vars, ClockOK, CachesOK, IonOK, SnapshotsOK, ExchangeOK, StageOK, FaultsOK,
          schedule, caches, ion, snapshots, exchange, failures
    <2> QED
      BY <2>1 DEF Types
  <1> QED
    BY <1>1, <1>2, <1>3, <1>4, <1>5, <1>6, <1>7, <1>8, <1>9 DEF Next, Main

\* Every reachable state of the clock, the caches, the snapshots and the schedule is
\* well-typed: TypeOK of Announce.
THEOREM TypeCorrect == Spec => []TypeOK
  BY InitTypes, NextTypes, TypesByGroup, PTL DEF Spec

-----------------------------------------------------------------------------
(* Nothing long gone is announced.                                         *)

\* The clocks of the snapshots are behind the node's own.
ClocksBehind == now > 0 /\ \A k \in Kind : updated[k] <= now

\* What a snapshot holds is announceable, or has ceased to be since it was taken.
Traced == \A k \in Kind : \A e \in snapshot[k] : e \in Shown(held, now) \/ moved[e] >= updated[k]

\* A snapshot has been looked after in this turn, or something has just failed.
Refreshed(k) == IsFresh(k) \/ lastFault = now

RefreshedInTurn ==
  /\ pc \in {"ranges", "exchange"} => Refreshed("contact")
  /\ pc = "exchange" => Refreshed("range")

GoneInv == ClocksBehind /\ Traced /\ RefreshedInTurn

LEMMA InitGone == Init => GoneInv
  BY DEF Init, GoneInv, ClocksBehind, Traced, RefreshedInTurn, Kind

\* A refresh looks after its snapshot and leaves the other as it was looked after.
LEMMA RefreshKeeps ==
  ASSUME Types, Types', ClocksBehind, Traced, NEW k \in Kind, refresh(k), now' = now,
         UNCHANGED ion
  PROVE  /\ ClocksBehind' /\ Traced' /\ Refreshed(k)'
         /\ \A j \in Kind : Refreshed(j) => Refreshed(j)'
  <1>0. now \in Int /\ TTL \in Int /\ TTL > 0 /\ now > 0 /\ now - now = 0
    BY Parameters DEF Types, ClockOK, Instant, ClocksBehind
  <1>1. CASE Kept(k)
    <2>1. ClocksBehind' /\ Traced'
      BY <1>1 DEF Kept, ClocksBehind, Traced, ion
    <2>2. Fault \/ (UNCHANGED failures /\ (IsFresh(k) \/ updated' = [updated EXCEPT ![k] = now]))
      BY DEF refresh
    <2>3. CASE Fault
      BY <2>1, <2>3 DEF Fault, Refreshed
    <2>4. CASE UNCHANGED failures /\ IsFresh(k)
      BY <1>1, <2>1, <2>4 DEF Kept, Refreshed, IsFresh, failures
    <2>5. CASE UNCHANGED failures /\ updated' = [updated EXCEPT ![k] = now]
      <3>1. updated'[k] = now
        BY <2>5 DEF Types, SnapshotsOK
      <3>2. IsFresh(k)'
        BY <1>0, <3>1 DEF IsFresh
      <3>3. \A j \in Kind : Refreshed(j) => Refreshed(j)'
        BY <1>1, <2>5 DEF Kept, Refreshed, IsFresh, failures
      <3> QED
        BY <2>1, <3>2, <3>3 DEF Refreshed
    <2> QED
      BY <2>2, <2>3, <2>4, <2>5
  <1>2. CASE /\ snapshot' = [snapshot EXCEPT ![k] = Own(k, held, now)]
             /\ updated' = [updated EXCEPT ![k] = now]
             /\ UNCHANGED failures
    <2>1. /\ snapshot'[k] = Own(k, held, now) /\ updated'[k] = now
          /\ \A j \in Kind \ {k} : snapshot'[j] = snapshot[j] /\ updated'[j] = updated[j]
      BY <1>2 DEF Types, SnapshotsOK
    <2>2. ClocksBehind'
      BY <1>0, <2>1 DEF ClocksBehind
    <2>3. \A e \in snapshot'[k] : e \in Shown(held, now)
      BY <2>1 DEF Shown, Kind
    <2>4. held' = held /\ moved' = moved
      BY DEF ion
    <2>5. Traced'
      BY <2>1, <2>3, <2>4 DEF Traced
    <2>6. IsFresh(k)'
      BY <1>0, <2>1 DEF IsFresh
    <2>7. \A j \in Kind : Refreshed(j) => Refreshed(j)'
      BY <1>2, <2>1, <2>6 DEF Refreshed, IsFresh, failures
    <2> QED
      BY <2>2, <2>5, <2>6, <2>7 DEF Refreshed
  <1>3. \/ Kept(k)
        \/ /\ snapshot' = [snapshot EXCEPT ![k] = Own(k, held, now)]
           /\ updated' = [updated EXCEPT ![k] = now]
           /\ UNCHANGED failures
    BY DEF refresh
  <1> QED
    BY <1>1, <1>2, <1>3

\* A change of the configuration or of the clock is noted.
LEMMA NoteKeeps ==
  ASSUME Types, Types', ClocksBehind, Traced, now' \in {now, now + 1}, UNCHANGED snapshots,
         Note(held', plans', now')
  PROVE  ClocksBehind' /\ Traced'
  <1>1. /\ now \in Int /\ now' \in Int /\ now <= now' /\ \A k \in Kind : updated[k] \in Int
    BY DEF Types, ClockOK, SnapshotsOK, Instant
  <1>2. ClocksBehind'
    BY <1>1 DEF ClocksBehind, snapshots
  <1>3. ASSUME NEW k \in Kind, NEW e \in snapshot[k], e \notin Shown(held', now')
        PROVE  moved'[e] >= updated[k]
    <2>1. e \in Entry
      BY DEF Types, SnapshotsOK
    <2>2. CASE e \in Shown(held, now)
      <3>1. moved'[e] = now'
        BY <1>3, <2>1, <2>2 DEF Note
      <3> QED
        BY <1>1, <3>1 DEF ClocksBehind
    <2>3. CASE e \notin Shown(held, now)
      <3>1. moved'[e] = moved[e]
        BY <1>3, <2>1, <2>3 DEF Note
      <3> QED
        BY <2>3, <3>1 DEF Traced
    <2> QED
      BY <2>2, <2>3
  <1>4. Traced'
    BY <1>3 DEF Traced, snapshots
  <1> QED
    BY <1>2, <1>4

\* Every step keeps the invariant.
LEMMA NextGone == Types /\ Types' /\ GoneInv /\ [Next]_vars => GoneInv'
  <1> SUFFICES ASSUME Types, Types', GoneInv, [Next]_vars PROVE GoneInv'
    OBVIOUS
  <1>0. ClocksBehind /\ Traced /\ RefreshedInTurn
    BY DEF GoneInv
  <1>1. CASE refreshMyContacts
    <2>1. refresh("contact") /\ now' = now /\ UNCHANGED ion /\ pc' = "ranges"
      BY <1>1 DEF refreshMyContacts
    <2>2. "contact" \in Kind
      BY DEF Kind
    <2>3. ClocksBehind' /\ Traced' /\ Refreshed("contact")'
      BY <1>0, <2>1, <2>2, RefreshKeeps
    <2> QED
      BY <2>1, <2>3 DEF GoneInv, RefreshedInTurn
  <1>2. CASE refreshMyRanges
    <2>1. /\ refresh("range") /\ now' = now /\ UNCHANGED ion /\ pc = "ranges"
          /\ pc' = "exchange"
      BY <1>2 DEF refreshMyRanges
    <2>2. "range" \in Kind /\ "contact" \in Kind
      BY DEF Kind
    <2>3. /\ ClocksBehind' /\ Traced' /\ Refreshed("range")'
          /\ Refreshed("contact") => Refreshed("contact")'
      BY <1>0, <2>1, <2>2, RefreshKeeps
    <2>4. Refreshed("contact")
      BY <1>0, <2>1 DEF RefreshedInTurn
    <2> QED
      BY <2>3, <2>4 DEF GoneInv, RefreshedInTurn
  <1>3. CASE Configuration
    <2>1. PICK h, p : Edit(h, p)
      BY <1>3 DEF Configuration, IndexChanges, PlansChange
    <2>2. /\ now' = now /\ UNCHANGED snapshots /\ Note(held', plans', now') /\ UNCHANGED pc
          /\ UNCHANGED failures
      BY <2>1 DEF Edit
    <2>3. ClocksBehind' /\ Traced'
      BY <1>0, <2>2, NoteKeeps
    <2>4. RefreshedInTurn'
      BY <1>0, <2>2 DEF RefreshedInTurn, Refreshed, IsFresh, snapshots, failures
    <2> QED
      BY <2>3, <2>4 DEF GoneInv
  <1>4. CASE Tick
    <2>1. /\ now' = now + 1 /\ UNCHANGED snapshots /\ Note(held', plans', now')
          /\ pc' = "asleep"
      BY <1>4 DEF Tick
    <2>2. ClocksBehind' /\ Traced'
      BY <1>0, <2>1, NoteKeeps
    <2> QED
      BY <2>1, <2>2 DEF GoneInv, RefreshedInTurn
  <1>5. CASE TakePlans \/ Exchange \/ SkipExchange \/ WakeUp
    <2>1. now' = now /\ UNCHANGED <<held, moved>> /\ UNCHANGED snapshots
      BY <1>5 DEF TakePlans, Exchange, SkipExchange, WakeUp, ion
    <2>2. pc' \notin {"ranges", "exchange"}
      BY <1>5 DEF TakePlans, Exchange, SkipExchange, WakeUp, EndOfExchange
    <2>3. ClocksBehind' /\ Traced'
      BY <1>0, <2>1 DEF ClocksBehind, Traced, snapshots
    <2> QED
      BY <2>2, <2>3 DEF GoneInv, RefreshedInTurn
  <1>6. CASE ForwardTakesPlans \/ UNCHANGED vars
    <2>1. now' = now /\ UNCHANGED <<held, moved, pc, lastFault>> /\ UNCHANGED snapshots
      BY <1>6 DEF ForwardTakesPlans, ReadPlans, vars, ion, failures
    <2>2. ClocksBehind' /\ Traced'
      BY <1>0, <2>1 DEF ClocksBehind, Traced, snapshots
    <2>3. RefreshedInTurn'
      BY <1>0, <2>1 DEF RefreshedInTurn, Refreshed, IsFresh, snapshots
    <2> QED
      BY <2>2, <2>3 DEF GoneInv
  <1> QED
    BY <1>1, <1>2, <1>3, <1>4, <1>5, <1>6 DEF Next, Main

\* With both snapshots looked after, what they hold has been gone for less than a TTL.
LEMMA GoneIsRecent ==
  ASSUME Types, GoneInv, pc = "exchange", NEW e \in Records \ Shown(held, now)
  PROVE  now - moved[e] < TTL \/ lastFault = now
  <1>1. PICK k \in Kind : e \in snapshot[k]
    BY DEF Records, Shown, Kind
  <1>2. moved[e] >= updated[k]
    BY <1>1 DEF GoneInv, Traced
  <1>3. Refreshed(k)
    BY <1>1 DEF GoneInv, RefreshedInTurn, Kind
  <1>4. e \in Entry
    BY <1>1 DEF Types, SnapshotsOK
  <1>5. moved[e] \in Int /\ updated[k] \in Int /\ now \in Int /\ TTL \in Int
    BY <1>1, <1>4, Parameters DEF Types, ClockOK, IonOK, SnapshotsOK, Instant
  <1> QED
    BY <1>2, <1>3, <1>5 DEF Refreshed, IsFresh

\* An exchange announces nothing that ION has ceased to hold, or that has ended, a TTL
\* ago or more, unless the refresh of its turn has failed: NothingLongGone of Announce,
\* whatever the intervals, the number of entries and the changes of the configuration.
THEOREM NothingLongGoneIsAnnounced == Spec => NothingLongGone
  <1>1. Init => Types /\ GoneInv
    BY InitTypes, InitGone
  <1>2. Types /\ GoneInv /\ [Next]_vars => Types' /\ GoneInv'
    BY NextTypes, NextGone
  <1>3. Types /\ GoneInv =>
          (pc = "exchange" /\ Due
           => \A e \in Records \ Shown(held, now) : now - moved[e] < TTL \/ lastFault = now)
    BY GoneIsRecent
  <1> QED
    BY <1>1, <1>2, <1>3, PTL DEF Spec, NothingLongGone
-----------------------------------------------------------------------------
(* Nothing is announced late, and nothing without a cause.                 *)

\* The node has announced before.
Started == lastExchange # 0

\* No later than the last turn of main before this one; while main sleeps, than
\* the one after which it fell asleep.
LastTurn == IF pc = "asleep" THEN wakeAt - Wake ELSE now - Wake - Lag

FailedSince(x) == lastFault > 0 /\ lastFault >= x

\* The clocks: main's turns follow each other, and so do the exchanges.
Punctual ==
  /\ lastFault <= now /\ lastExchange <= now /\ lastPlanUpdate <= now
  /\ ~Started => pc # "asleep" /\ now = 1
  /\ pc = "asleep" => round = "wake" /\ now <= wakeAt + Lag /\ wakeAt <= now + Wake
  /\ pc # "asleep" /\ round = "wake" => now < nextUpdate
  /\ Started => LastTurn - lastExchange < Interval

\* A snapshot holds what ION shows, but for what has moved since it was taken.
SnapshotTraced ==
  \A k \in Kind :
    /\ snapshot[k] \subseteq OfKind(k)
    /\ \A e \in OfKind(k) :
         (e \in snapshot[k]) # (e \in Shown(held, now)) => moved[e] >= updated[k]

\* So does the cache of plans.
CacheTraced ==
  \A n \in Neighbour :
    (n \in cachedPlans) # (n \in Reachable(plans)) => planMoved[n] >= lastPlanUpdate

\* At the last turn the snapshots were young, or something failed.
KeptSince(x) == \A k \in Kind : updated[k] + TTL > x \/ FailedSince(x)

SnapshotsKept == Started => KeptSince(LastTurn)

\* A list of plans in use at time x differs from ION's, and from the cache that
\* is now to replace it, by recent changes only.
Heard(L, x) ==
  \A n \in Neighbour :
    (n \in L) # (n \in Reachable(plans)) \/ (n \in L) # (n \in cachedPlans)
    => planMoved[n] + PlanTTL > x

InTurn == pc \in {"contacts", "ranges", "exchange"}

PlansHeard ==
  /\ Started => Heard(lastPlanList, LastTurn) \/ FailedSince(LastTurn)
  /\ InTurn => Heard(list, now) \/ FailedSince(now)

\* The refresh of this turn has found a change, and the exchange is to come.
Pending(k) == changed[k] /\ (pc = "exchange" \/ (pc = "ranges" /\ k = "contact"))

TriggersHaveCause ==
  Started =>
    /\ InTurn /\ planListChanged => HasCause
    /\ \A k \in Kind : Pending(k) => HasCause

\* What the last exchange has said, and to whom.
Said(e, n) == told[<<e, n>>] = lastExchange \/ FailedSince(lastExchange)

SnapshotsSaid ==
  Started => \A n \in lastPlanList :
    /\ \A e \in OwnMetadata(held) : Said(e, n)
    /\ \A k \in Kind : \A e \in snapshot[k] :
         Said(e, n) \/ (Pending(k) /\ (now - moved[e] <= Delay \/ FailedSince(LastTurn)))

TimeInv ==
  /\ Punctual /\ SnapshotTraced /\ CacheTraced /\ SnapshotsKept
  /\ PlansHeard /\ TriggersHaveCause /\ SnapshotsSaid

\* Arithmetic on times, stated apart for the values a step leaves.
LEMMA Within ==
  ASSUME NEW a \in Int, NEW b \in Int, NEW c \in Int, NEW d \in Int, a <= b, b - c < d
  PROVE  a - c < d
  OBVIOUS

LEMMA Later ==
  ASSUME NEW a \in Int, NEW b \in Int, NEW c \in Int, a <= b, c >= 0
  PROVE  a <= b + c
  OBVIOUS

LEMMA Ahead ==
  ASSUME NEW a \in Int, NEW b \in Int, b > 0
  PROVE  a < a + b
  OBVIOUS

\* Every time is an integer.
LEMMA TimesAreInts ==
  ASSUME Types
  PROVE  /\ {now, nextUpdate, wakeAt, lastPlanUpdate, lastExchange, lastFault} \subseteq Int
         /\ {Interval, Wake, TTL, PlanTTL, Lag} \subseteq Int
         /\ \A k \in Kind : updated[k] \in Int
         /\ \A e \in Entry : moved[e] \in Int
         /\ \A n \in Neighbour : planMoved[n] \in Int
  BY Parameters
  DEF Types, ClockOK, CachesOK, SnapshotsOK, ExchangeOK, IonOK, FaultsOK, Instant, Beyond

\* The same after a step.
LEMMA TimesStayInts ==
  ASSUME Types'
  PROVE  /\ now' \in Int /\ nextUpdate' \in Int /\ wakeAt' \in Int /\ lastPlanUpdate' \in Int
         /\ lastExchange' \in Int /\ lastFault' \in Int
         /\ \A k \in Kind : updated'[k] \in Int
         /\ \A e \in Entry : moved'[e] \in Int
         /\ \A n \in Neighbour : planMoved'[n] \in Int
  BY Parameters
  DEF Types, ClockOK, CachesOK, SnapshotsOK, ExchangeOK, IonOK, FaultsOK, Instant, Beyond

\* No failure is forgotten before a later one.
LEMMA FailuresAdvance ==
  ASSUME Types, Punctual, Fault \/ UNCHANGED failures, now' = now \/ UNCHANGED failures,
         now' \in {now, now + 1}
  PROVE  /\ lastFault' <= now'
         /\ \A x \in Int : x <= now /\ FailedSince(x) => FailedSince(x)'
  BY TimesAreInts DEF Punctual, Fault, failures, FailedSince

\* Every step but the end of an exchange moves the last turn back, if at all.
LEMMA TurnIsOver ==
  ASSUME Types, Types', Punctual, [Next]_vars
  PROVE  /\ now' \in {now, now + 1}
         /\ Fault \/ UNCHANGED failures
         /\ now' = now \/ UNCHANGED failures
         /\ LastTurn \in Int /\ LastTurn <= now
         /\ pc # "exchange" => LastTurn' <= LastTurn
  <1>0. /\ now \in Int /\ wakeAt \in Int /\ Wake \in Int /\ Lag \in Int /\ Wake > 0 /\ Lag >= 0
        /\ pc = "asleep" => now <= wakeAt + Lag /\ wakeAt <= now + Wake
    BY TimesAreInts, Parameters DEF Punctual
  <1>1. LastTurn \in Int /\ LastTurn <= now
    BY <1>0 DEF LastTurn
  <1>2. CASE TakePlans
    <2>1. now' = now /\ pc = "plans" /\ pc' \in {"plans", "contacts"}
      BY <1>2 DEF TakePlans
    <2>2. Fault \/ UNCHANGED failures
      BY <1>2 DEF TakePlans, getplanlist, ReadPlans, failures
    <2> QED
      BY <1>0, <1>1, <2>1, <2>2 DEF LastTurn
  <1>3. CASE refreshMyContacts \/ refreshMyRanges
    <2>1. now' = now /\ pc \in {"contacts", "ranges"} /\ pc' \in {"ranges", "exchange"}
      BY <1>3 DEF refreshMyContacts, refreshMyRanges
    <2>2. Fault \/ UNCHANGED failures
      BY <1>3 DEF refreshMyContacts, refreshMyRanges, refresh
    <2> QED
      BY <1>0, <1>1, <2>1, <2>2 DEF LastTurn
  <1>4. CASE Exchange \/ SkipExchange
    BY <1>1, <1>4 DEF Exchange, SkipExchange
  <1>5. CASE WakeUp
    <2>1. now' = now /\ pc = "asleep" /\ pc' = "plans" /\ UNCHANGED failures
      BY <1>5 DEF WakeUp
    <2> QED
      BY <1>0, <1>1, <2>1 DEF LastTurn
  <1>6. CASE Tick
    <2>1. /\ now' = now + 1 /\ wakeAt' = wakeAt /\ pc = "asleep" /\ pc' = "asleep"
          /\ UNCHANGED failures
      BY <1>6 DEF Tick, schedule
    <2> QED
      BY <1>0, <1>1, <2>1 DEF LastTurn
  <1>7. CASE ForwardTakesPlans \/ Configuration \/ UNCHANGED vars
    <2>1. now' = now /\ wakeAt' = wakeAt /\ pc' = pc /\ UNCHANGED failures
      BY <1>7
      DEF ForwardTakesPlans, ReadPlans, Configuration, IndexChanges, PlansChange, Edit, vars,
          schedule, failures
    <2> QED
      BY <1>0, <1>1, <2>1 DEF LastTurn
  <1> QED
    BY <1>2, <1>3, <1>4, <1>5, <1>6, <1>7 DEF Next, Main

\* main's turns and the exchanges follow each other.
LEMMA NextPunctual == Types /\ Types' /\ GoneInv /\ Punctual /\ [Next]_vars => Punctual'
  <1> SUFFICES ASSUME Types, Types', GoneInv, Punctual, [Next]_vars PROVE Punctual'
    OBVIOUS
  <1>0. /\ now \in Int /\ nextUpdate \in Int /\ wakeAt \in Int /\ lastPlanUpdate \in Int
        /\ lastExchange \in Int /\ lastFault \in Int
        /\ Interval \in Int /\ Interval > 0 /\ Wake \in Int /\ Wake > 0 /\ Lag \in Int /\ Lag >= 0
        /\ now' \in Int /\ nextUpdate' \in Int /\ wakeAt' \in Int /\ lastPlanUpdate' \in Int
        /\ lastExchange' \in Int /\ lastFault' \in Int
    BY TimesAreInts, TimesStayInts, Parameters
  <1>1. now' \in {now, now + 1} /\ LastTurn \in Int /\ lastFault' <= now'
    BY TurnIsOver, FailuresAdvance
  <1>2. /\ lastFault <= now /\ lastExchange <= now /\ lastPlanUpdate <= now /\ now > 0
        /\ ~Started => pc # "asleep" /\ now = 1
        /\ pc = "asleep" => round = "wake" /\ now <= wakeAt + Lag /\ wakeAt <= now + Wake
        /\ pc # "asleep" /\ round = "wake" => now < nextUpdate
        /\ Started => LastTurn - lastExchange < Interval
    BY DEF Punctual, GoneInv, ClocksBehind
  <1>3. CASE TakePlans
    <2>1. lastPlanUpdate' \in {lastPlanUpdate, now} /\ now' = now
      BY <1>3 DEF TakePlans, getplanlist, ReadPlans, caches
    <2>2. /\ pc = "plans" /\ pc' \in {"plans", "contacts"} /\ lastExchange' = lastExchange
          /\ \/ round' = round /\ nextUpdate' = nextUpdate
             \/ nextUpdate' = now + Interval
      BY <1>3 DEF TakePlans, exchange
    <2>3. LastTurn' = LastTurn /\ Started' = Started
      BY <2>1, <2>2 DEF LastTurn, Started
    <2>4. pc' # "asleep" /\ (round' = "wake" => now' < nextUpdate')
      <3>1. now < now + Interval
        BY <1>0, Ahead
      <3> QED
        BY <1>2, <2>1, <2>2, <3>1
    <2>5. lastExchange' <= now' /\ lastPlanUpdate' <= now'
      BY <1>0, <1>2, <2>1, <2>2
    <2> QED
      BY <1>1, <1>2, <2>1, <2>2, <2>3, <2>4, <2>5 DEF Punctual
  <1>4. CASE refreshMyContacts \/ refreshMyRanges
    <2>1. /\ now' = now /\ pc \in {"contacts", "ranges"} /\ pc' \in {"ranges", "exchange"}
          /\ UNCHANGED <<round, nextUpdate, lastExchange, lastPlanUpdate>>
      BY <1>4 DEF refreshMyContacts, refreshMyRanges, schedule, exchange, caches
    <2> QED
      BY <1>0, <1>1, <1>2, <2>1 DEF Punctual, Started, LastTurn
  <1>5. CASE Exchange \/ SkipExchange
    <2>1. /\ now' = now /\ pc = "exchange" /\ EndOfExchange /\ lastPlanUpdate' = lastPlanUpdate
      BY <1>5 DEF Exchange, SkipExchange, caches
    <2>2. /\ lastExchange' \in {now, lastExchange}
          /\ lastExchange' # 0 /\ now - lastExchange' < Interval
      <3>1. CASE Exchange
        <4>1. lastExchange' = now
          BY <3>1 DEF Exchange, Send
        <4> QED
          BY <1>0, <1>2, <4>1
      <3>2. CASE SkipExchange
        BY <1>0, <3>2 DEF SkipExchange, Due, exchange
      <3> QED
        BY <1>5, <3>1, <3>2
    <2>3. CASE round = "wake"
      <3>1. /\ pc' = "asleep" /\ round' = "wake"
            /\ wakeAt' = IF now + Wake < nextUpdate THEN now + Wake ELSE nextUpdate
        BY <2>1, <2>3 DEF EndOfExchange
      <3>2. now < nextUpdate
        BY <1>2, <2>1, <2>3
      <3>3. wakeAt' \in Int /\ now <= wakeAt' /\ wakeAt' <= now + Wake
        BY <1>0, <3>1, <3>2
      <3>4. LastTurn' <= now /\ LastTurn' \in Int
        BY <1>0, <3>1, <3>3 DEF LastTurn
      <3>5. Started' /\ LastTurn' - lastExchange' < Interval
        <4>1. /\ now \in Int /\ lastExchange' \in Int /\ Interval \in Int
              /\ now - lastExchange' < Interval
          BY <1>0, <2>2
        <4>2. LastTurn' - lastExchange' < Interval
          BY <3>4, <4>1, Within
        <4> QED
          BY <2>2, <4>2 DEF Started
      <3>6. lastExchange' <= now' /\ lastPlanUpdate' <= now'
        BY <1>0, <1>2, <2>1, <2>2
      <3>7. now' <= wakeAt' + Lag /\ wakeAt' <= now' + Wake
        <4>1. now \in Int /\ Lag \in Int /\ Wake \in Int /\ Lag >= 0
          BY <1>0
        <4>2. now <= wakeAt' + Lag
          BY <3>3, <4>1, Later
        <4> QED
          BY <2>1, <3>3, <4>2
      <3> QED
        BY <1>1, <3>1, <3>5, <3>6, <3>7 DEF Punctual
    <2>4. CASE round # "wake"
      <3>1. pc' = "plans" /\ nextUpdate' = now + Interval
        BY <2>1, <2>4 DEF EndOfExchange
      <3>2. LastTurn' <= now /\ LastTurn' \in Int
        BY <1>0, <2>1, <3>1 DEF LastTurn
      <3>3. Started' /\ LastTurn' - lastExchange' < Interval
        <4>1. /\ now \in Int /\ lastExchange' \in Int /\ Interval \in Int
              /\ now - lastExchange' < Interval
          BY <1>0, <2>2
        <4>2. LastTurn' - lastExchange' < Interval
          BY <3>2, <4>1, Within
        <4> QED
          BY <2>2, <4>2 DEF Started
      <3>4. lastExchange' <= now' /\ lastPlanUpdate' <= now' /\ now' < nextUpdate'
        BY <1>0, <1>2, <2>1, <2>2, <3>1
      <3> QED
        BY <1>1, <3>1, <3>3, <3>4 DEF Punctual
    <2> QED
      BY <2>3, <2>4
  <1>6. CASE WakeUp
    <2>1. /\ now' = now /\ pc = "asleep" /\ pc' = "plans"
          /\ round' = IF now >= nextUpdate THEN "update" ELSE "wake"
          /\ UNCHANGED <<nextUpdate, wakeAt, lastExchange, lastPlanUpdate>>
      BY <1>6 DEF WakeUp, schedule, exchange, caches
    <2> QED
      BY <1>0, <1>1, <1>2, <2>1 DEF Punctual, Started, LastTurn
  <1>7. CASE Tick
    <2>1. /\ now' = now + 1 /\ pc = "asleep" /\ pc' = "asleep" /\ now < wakeAt + Lag
          /\ UNCHANGED <<round, nextUpdate, wakeAt, lastExchange, lastPlanUpdate>>
      BY <1>7 DEF Tick, schedule, exchange, caches
    <2> QED
      BY <1>0, <1>1, <1>2, <2>1 DEF Punctual, Started, LastTurn
  <1>8. CASE ForwardTakesPlans \/ Configuration \/ UNCHANGED vars
    <2>1. /\ now' = now /\ UNCHANGED <<pc, round, nextUpdate, wakeAt, lastExchange>>
          /\ lastPlanUpdate' \in {lastPlanUpdate, now}
      BY <1>8
      DEF ForwardTakesPlans, ReadPlans, Configuration, IndexChanges, PlansChange, Edit, vars,
          schedule, exchange, caches
    <2> QED
      BY <1>0, <1>1, <1>2, <2>1 DEF Punctual, Started, LastTurn
  <1> QED
    BY <1>3, <1>4, <1>5, <1>6, <1>7, <1>8 DEF Next, Main

\* What is shown of a kind is what is listed of it.
LEMMA ShownByKind ==
  ASSUME NEW h \in SUBSET Entry, NEW t, NEW k \in Kind
  PROVE  /\ Own(k, h, t) \subseteq OfKind(k)
         /\ \A e \in OfKind(k) : e \in Shown(h, t) <=> e \in Own(k, h, t)
  <1>1. \A j \in Kind : Own(j, h, t) \subseteq OfKind(j)
    BY DEF Own, FirstOf
  <1>2. \A e \in OfKind(k) : e \notin OwnMetadata(h)
    BY DEF OfKind, OwnMetadata, Kind
  <1>3. \A j \in Kind : j # k => \A e \in OfKind(k) : e \notin Own(j, h, t)
    BY <1>1 DEF OfKind
  <1> QED
    BY <1>1, <1>2, <1>3 DEF Shown, Kind

\* A refresh leaves no difference.
LEMMA RefreshTraces ==
  ASSUME Types, Types', SnapshotTraced, NEW k \in Kind, refresh(k), now' = now, UNCHANGED ion
  PROVE  SnapshotTraced'
  <1>0. held' = held /\ moved' = moved /\ held \in SUBSET Entry
    BY DEF ion, Types, IonOK
  <1>1. CASE Kept(k)
    BY <1>0, <1>1 DEF Kept, SnapshotTraced
  <1>2. CASE /\ snapshot' = [snapshot EXCEPT ![k] = Own(k, held, now)]
             /\ updated' = [updated EXCEPT ![k] = now]
    <2>1. /\ snapshot'[k] = Own(k, held, now)
          /\ \A j \in Kind \ {k} : snapshot'[j] = snapshot[j] /\ updated'[j] = updated[j]
      BY <1>2 DEF Types, SnapshotsOK
    <2>2. /\ snapshot'[k] \subseteq OfKind(k)
          /\ \A e \in OfKind(k) : (e \in snapshot'[k]) = (e \in Shown(held, now))
      BY <1>0, <2>1, ShownByKind
    <2> QED
      BY <1>0, <2>1, <2>2 DEF SnapshotTraced
  <1> QED
    BY <1>1, <1>2 DEF refresh

\* A change of what is shown, or of the plans, is noted with its time.
LEMMA NoteTraces ==
  ASSUME Types, Types', ClocksBehind, Punctual, SnapshotTraced, CacheTraced,
         now' \in {now, now + 1}, UNCHANGED snapshots, UNCHANGED caches,
         Note(held', plans', now')
  PROVE  SnapshotTraced' /\ CacheTraced'
  <1>1. /\ now \in Int /\ now' \in Int /\ now <= now' /\ lastPlanUpdate \in Int
        /\ \A k \in Kind : updated[k] \in Int
    BY TimesAreInts
  <1>2. /\ snapshot' = snapshot /\ updated' = updated /\ cachedPlans' = cachedPlans
        /\ lastPlanUpdate' = lastPlanUpdate
    BY DEF snapshots, caches
  <1>3. ASSUME NEW k \in Kind, NEW e \in OfKind(k),
               (e \in snapshot[k]) # (e \in Shown(held', now'))
        PROVE  moved'[e] >= updated[k]
    <2>1. e \in Entry
      BY DEF OfKind
    <2>2. CASE (e \in Shown(held, now)) # (e \in Shown(held', now'))
      <3>1. moved'[e] = now'
        BY <2>1, <2>2 DEF Note
      <3> QED
        BY <1>1, <3>1 DEF ClocksBehind
    <2>3. CASE (e \in Shown(held, now)) = (e \in Shown(held', now'))
      <3>1. moved'[e] = moved[e]
        BY <2>1, <2>3 DEF Note
      <3> QED
        BY <1>3, <2>3, <3>1 DEF SnapshotTraced
    <2> QED
      BY <2>2, <2>3
  <1>4. ASSUME NEW n \in Neighbour, (n \in cachedPlans) # (n \in Reachable(plans'))
        PROVE  planMoved'[n] >= lastPlanUpdate
    <2>1. CASE (n \in Reachable(plans)) # (n \in Reachable(plans'))
      <3>1. planMoved'[n] = now'
        BY <2>1 DEF Note
      <3> QED
        BY <1>1, <3>1 DEF Punctual
    <2>2. CASE (n \in Reachable(plans)) = (n \in Reachable(plans'))
      <3>1. planMoved'[n] = planMoved[n]
        BY <2>2 DEF Note
      <3> QED
        BY <1>4, <2>2, <3>1 DEF CacheTraced
    <2> QED
      BY <2>1, <2>2
  <1>5. SnapshotTraced'
    BY <1>2, <1>3 DEF SnapshotTraced
  <1>6. CacheTraced'
    BY <1>2, <1>4 DEF CacheTraced
  <1> QED
    BY <1>5, <1>6

\* The cache is left alone, or holds what ION's plans are.
LEMMA ReadTraces ==
  ASSUME Types, CacheTraced, ReadPlans \/ UNCHANGED caches, UNCHANGED ion
  PROVE  CacheTraced'
  BY DEF CacheTraced, ReadPlans, caches, ion

\* The steps that note a change.
LEMMA ChangesAreNoted ==
  ASSUME Tick \/ Configuration
  PROVE  /\ Note(held', plans', now')
         /\ UNCHANGED snapshots /\ UNCHANGED caches /\ UNCHANGED exchange /\ UNCHANGED failures
         /\ UNCHANGED <<list, pc, round, schedule>>
         /\ Tick => pc = "asleep" /\ now' = now + 1 /\ held' = held
         /\ Configuration => now' = now
  <1>1. CASE Tick
    BY <1>1 DEF Tick, Configuration, IndexChanges, PlansChange, Edit
  <1>2. CASE Configuration
    <2>1. PICK h, p : Edit(h, p)
      BY <1>2 DEF Configuration, IndexChanges, PlansChange
    <2>2. ~Tick \/ (now' = now + 1 /\ pc = "asleep" /\ held' = held)
      BY DEF Tick
    <2> QED
      BY <2>1, <2>2 DEF Edit
  <1> QED
    BY <1>1, <1>2

\* Every step keeps the two.
LEMMA NextTraced ==
  ASSUME Types, Types', GoneInv, Punctual, SnapshotTraced, CacheTraced, [Next]_vars
  PROVE  SnapshotTraced' /\ CacheTraced'
  <1>1. CASE refreshMyContacts
    <2>1. refresh("contact") /\ now' = now /\ UNCHANGED ion /\ UNCHANGED caches /\ "contact" \in Kind
      BY <1>1 DEF refreshMyContacts, Kind
    <2> QED
      BY <2>1, RefreshTraces, ReadTraces
  <1>2. CASE refreshMyRanges
    <2>1. refresh("range") /\ now' = now /\ UNCHANGED ion /\ UNCHANGED caches /\ "range" \in Kind
      BY <1>2 DEF refreshMyRanges, Kind
    <2> QED
      BY <2>1, RefreshTraces, ReadTraces
  <1>3. CASE Tick \/ Configuration
    <2>1. now' \in {now, now + 1} /\ ClocksBehind
      BY <1>3, ChangesAreNoted DEF GoneInv
    <2> QED
      BY <1>3, <2>1, ChangesAreNoted, NoteTraces
  <1>4. CASE TakePlans \/ ForwardTakesPlans \/ Exchange \/ SkipExchange \/ WakeUp \/ UNCHANGED vars
    <2>1. now' = now /\ UNCHANGED snapshots /\ UNCHANGED ion /\ (ReadPlans \/ UNCHANGED caches)
      BY <1>4 DEF TakePlans, getplanlist, ForwardTakesPlans, Exchange, SkipExchange, WakeUp, vars
    <2>2. SnapshotTraced'
      BY <2>1 DEF SnapshotTraced, snapshots, ion
    <2> QED
      BY <2>1, <2>2, ReadTraces
  <1> QED
    BY <1>1, <1>2, <1>3, <1>4 DEF Next, Main

\* The last turn is over, after a step, too.
LEMMA TurnStaysOver == ASSUME Types', Punctual' PROVE LastTurn' \in Int /\ LastTurn' <= now'
  <1>0. /\ Wake \in Int /\ Lag \in Int /\ Wake > 0 /\ Lag >= 0
        /\ now' \in Int /\ wakeAt' \in Int
    BY Parameters, TimesStayInts
  <1>1. \A a, b \in Int : /\ a - Wake \in Int /\ a - Wake - Lag \in Int /\ a - Wake - Lag <= a
                          /\ a <= b + Wake => a - Wake <= b
    BY <1>0
  <1>2. CASE pc' = "asleep"
    <2>1. wakeAt' <= now' + Wake /\ LastTurn' = wakeAt' - Wake
      BY <1>2 DEF Punctual, LastTurn
    <2> QED
      BY <1>0, <1>1, <2>1
  <1>3. CASE pc' # "asleep"
    <2>1. LastTurn' = now' - Wake - Lag
      BY <1>3 DEF LastTurn
    <2> QED
      BY <1>0, <1>1, <2>1
  <1> QED
    BY <1>2, <1>3

\* Only an exchange starts the node.
LEMMA StartedByExchange ==
  ASSUME [Next]_vars
  PROVE  \/ Exchange
         \/ UNCHANGED lastExchange /\ UNCHANGED lastPlanList /\ UNCHANGED told /\ Started' = Started
  BY DEF Next, Main, TakePlans, refreshMyContacts, refreshMyRanges, SkipExchange, WakeUp,
         ForwardTakesPlans, Tick, Configuration, IndexChanges, PlansChange, Edit, vars, exchange,
         Started

\* A snapshot is replaced by a younger one only.
LEMMA SnapshotsGrowYounger ==
  ASSUME Types, Types', ClocksBehind, [Next]_vars
  PROVE  \A k \in Kind : updated[k] <= updated'[k]
  <1>0. now \in Int /\ \A k \in Kind : updated[k] \in Int /\ updated[k] <= now
    BY TimesAreInts DEF ClocksBehind
  <1>1. ASSUME NEW k \in Kind, refresh(k) PROVE \A j \in Kind : updated'[j] \in {updated[j], now}
    BY <1>1 DEF refresh, Kept, Types, SnapshotsOK
  <1>2. CASE refreshMyContacts \/ refreshMyRanges
    <2>1. \E k \in Kind : refresh(k)
      BY <1>2 DEF refreshMyContacts, refreshMyRanges, Kind
    <2> QED
      BY <1>0, <1>1, <2>1
  <1>3. CASE UNCHANGED snapshots
    BY <1>0, <1>3 DEF snapshots
  <1>4. refreshMyContacts \/ refreshMyRanges \/ UNCHANGED snapshots
    BY DEF Next, Main, TakePlans, Exchange, SkipExchange, WakeUp, ForwardTakesPlans, Tick,
           Configuration, IndexChanges, PlansChange, Edit, vars
  <1> QED
    BY <1>2, <1>3, <1>4

\* So what has been kept since a time stays kept since it.
LEMMA KeptStaysKept ==
  ASSUME Types, Types', GoneInv, Punctual, [Next]_vars, NEW x \in Int, x <= now, KeptSince(x)
  PROVE  KeptSince(x)'
  <1> SUFFICES ASSUME NEW k \in Kind PROVE updated'[k] + TTL > x \/ FailedSince(x)'
    BY DEF KeptSince
  <1>1. CASE FailedSince(x)
    BY <1>1, TurnIsOver, FailuresAdvance
  <1>2. CASE updated[k] + TTL > x
    <2>1. updated[k] <= updated'[k]
      BY SnapshotsGrowYounger DEF GoneInv
    <2>2. /\ updated[k] \in Int /\ updated'[k] \in Int /\ TTL \in Int
          /\ \A a, b \in Int : a <= b /\ a + TTL > x => b + TTL > x
      BY TimesAreInts, TimesStayInts
    <2> QED
      BY <1>2, <2>1, <2>2
  <1> QED
    BY <1>1, <1>2 DEF KeptSince

\* At the end of a turn the snapshots have just been looked after.
LEMMA TurnKeepsSnapshots ==
  ASSUME Types, GoneInv, pc = "exchange"
  PROVE  KeptSince(now)
  <1>0. /\ now \in Int /\ now > 0 /\ TTL \in Int /\ \A k \in Kind : updated[k] \in Int
    BY TimesAreInts DEF GoneInv, ClocksBehind
  <1>1. \A k \in Kind : Refreshed(k)
    BY DEF GoneInv, RefreshedInTurn, Kind
  <1> QED
    BY <1>0, <1>1 DEF Refreshed, IsFresh, KeptSince, FailedSince

\* What holds since a time holds since an earlier one.
LEMMA KeptSinceEarlier ==
  ASSUME Types, NEW x \in Int, NEW y \in Int, y <= x, KeptSince(x)
  PROVE  KeptSince(y)
  BY TimesAreInts DEF KeptSince, FailedSince

\* Every step keeps SnapshotsKept.
LEMMA NextKept ==
  ASSUME Types, Types', GoneInv, Punctual, Punctual', SnapshotsKept, [Next]_vars
  PROVE  SnapshotsKept'
  <1> SUFFICES ASSUME Started' PROVE KeptSince(LastTurn)'
    BY DEF SnapshotsKept
  <1>0. PICK y \in Int : y = LastTurn'
    BY TurnStaysOver
  <1>1. CASE pc = "exchange"
    <2>1. now \in Int /\ now' = now
      BY <1>1, TimesAreInts
      DEF Next, Main, TakePlans, refreshMyContacts, refreshMyRanges, Exchange, SkipExchange,
          WakeUp, ForwardTakesPlans, Tick, Configuration, IndexChanges, PlansChange, Edit, vars
    <2>2. y <= now
      BY <1>0, <2>1, TurnStaysOver
    <2>3. KeptSince(y)
      BY <1>1, <2>1, <2>2, TurnKeepsSnapshots, KeptSinceEarlier
    <2>4. KeptSince(y)'
      BY <2>2, <2>3, KeptStaysKept
    <2> QED
      BY <1>0, <2>4 DEF KeptSince, FailedSince
  <1>2. CASE pc # "exchange"
    <2>1. /\ LastTurn \in Int /\ LastTurn <= now /\ now \in Int
          /\ y <= LastTurn /\ y <= now
      BY <1>0, <1>2, TurnIsOver, TimesAreInts
    <2>2. Started
      BY <1>2, StartedByExchange DEF Exchange
    <2>3. KeptSince(y)
      <3>1. PICK x \in Int : x = LastTurn
        BY <2>1
      <3>2. KeptSince(x)
        BY <2>2, <3>1 DEF SnapshotsKept, KeptSince, FailedSince
      <3> QED
        BY <2>1, <3>1, <3>2, KeptSinceEarlier
    <2>4. KeptSince(y)'
      BY <2>1, <2>3, KeptStaysKept
    <2> QED
      BY <1>0, <2>4 DEF KeptSince, FailedSince
  <1> QED
    BY <1>1, <1>2


\* What is known of a list of plans stays known, when the cache or ION's plans change.
LEMMA HeardStays ==
  ASSUME Types, Types', Punctual, [Next]_vars, NEW L, NEW x \in Int, x <= now, Heard(L, x)
  PROVE  Heard(L, x)'
  <1> SUFFICES ASSUME NEW n \in Neighbour,
                      (n \in L) # (n \in Reachable(plans')) \/ (n \in L) # (n \in cachedPlans')
               PROVE  planMoved'[n] + PlanTTL > x
    BY DEF Heard
  <1>1. CASE Tick \/ Configuration
    <2>1. Note(held', plans', now') /\ cachedPlans' = cachedPlans
      BY <1>1, ChangesAreNoted DEF caches
    <2>2. CASE (n \in Reachable(plans)) # (n \in Reachable(plans'))
      <3>1. planMoved'[n] = now'
        BY <2>1, <2>2 DEF Note
      <3>2. PICK t \in Int : t = now' /\ t >= now
        BY TimesAreInts, TurnIsOver
      <3>3. now \in Int /\ PlanTTL \in Int /\ PlanTTL > 0
        BY TimesAreInts, Parameters
      <3>4. \A a, b, c, d \in Int : a >= b /\ b >= c /\ d > 0 => a + d > c
        OBVIOUS
      <3> QED
        BY <3>1, <3>2, <3>3, <3>4
    <2>3. CASE (n \in Reachable(plans)) = (n \in Reachable(plans'))
      <3>1. planMoved'[n] = planMoved[n]
        BY <2>1, <2>3 DEF Note
      <3>2. (n \in L) # (n \in Reachable(plans)) \/ (n \in L) # (n \in cachedPlans)
        BY <2>1, <2>3
      <3> QED
        BY <3>1, <3>2 DEF Heard
    <2> QED
      BY <2>2, <2>3
  <1>2. CASE UNCHANGED ion
    <2>1. plans' = plans /\ planMoved' = planMoved
      BY <1>2 DEF ion
    <2>2. cachedPlans' = cachedPlans \/ cachedPlans' = Reachable(plans)
      BY DEF Next, Main, TakePlans, getplanlist, ReadPlans, refreshMyContacts, refreshMyRanges,
             Exchange, SkipExchange, WakeUp, ForwardTakesPlans, Tick, Configuration, IndexChanges,
             PlansChange, Edit, vars, caches
    <2> QED
      BY <2>1, <2>2 DEF Heard
  <1>3. Tick \/ Configuration \/ UNCHANGED ion
    BY DEF Next, Main, TakePlans, refreshMyContacts, refreshMyRanges, Exchange, SkipExchange,
           WakeUp, ForwardTakesPlans, vars
  <1> QED
    BY <1>1, <1>2, <1>3

\* Since a time, hence since an earlier one.
LEMMA HeardEarlier ==
  ASSUME Types, NEW L, NEW x \in Int, NEW y \in Int, y <= x, Heard(L, x) \/ FailedSince(x)
  PROVE  Heard(L, y) \/ FailedSince(y)
  <1>1. CASE FailedSince(x)
    BY <1>1, TimesAreInts DEF FailedSince
  <1>2. CASE Heard(L, x)
    <2>1. ASSUME NEW n \in Neighbour, planMoved[n] + PlanTTL > x
          PROVE  planMoved[n] + PlanTTL > y
      BY <2>1, TimesAreInts
    <2> QED
      BY <1>2, <2>1 DEF Heard
  <1> QED
    BY <1>1, <1>2

\* Either way it stays so.
LEMMA HeardOrFailedStays ==
  ASSUME Types, Types', Punctual, [Next]_vars, NEW L, NEW x \in Int, x <= now,
         Heard(L, x) \/ FailedSince(x)
  PROVE  (Heard(L, x) \/ FailedSince(x))'
  BY HeardStays, TurnIsOver, FailuresAdvance

\* The plans main takes are ION's, but for recent changes.
LEMMA PlansTakenAreHeard ==
  ASSUME Types, Types', ClocksBehind, Punctual, CacheTraced, TakePlans
  PROVE  Heard(list, now)' \/ FailedSince(now)'
  <1>0. now' = now /\ plans' = plans /\ planMoved' = planMoved /\ now > 0
    BY DEF TakePlans, ion, ClocksBehind
  <1>1. CASE PlansAreFresh /\ list' = cachedPlans /\ UNCHANGED caches
    <2>1. ASSUME NEW n \in Neighbour, (n \in cachedPlans) # (n \in Reachable(plans))
          PROVE  planMoved[n] + PlanTTL > now
      <3>1. planMoved[n] >= lastPlanUpdate /\ now - lastPlanUpdate < PlanTTL
        BY <1>1, <2>1 DEF CacheTraced, PlansAreFresh
      <3> QED
        BY <3>1, TimesAreInts
    <2> QED
      BY <1>0, <1>1, <2>1 DEF Heard, caches
  <1>2. CASE cachedPlans' = Reachable(plans) /\ list' = cachedPlans'
    BY <1>0, <1>2 DEF Heard
  <1>3. CASE Fault
    BY <1>0, <1>3, TimesAreInts DEF Fault, FailedSince
  <1> QED
    BY <1>1, <1>2, <1>3 DEF TakePlans, getplanlist, ReadPlans

\* Every step keeps PlansHeard.
LEMMA NextHeard ==
  ASSUME Types, Types', GoneInv, Punctual, Punctual', CacheTraced, PlansHeard, [Next]_vars
  PROVE  PlansHeard'
  <1>0. /\ now \in Int /\ LastTurn \in Int /\ LastTurn <= now /\ now' \in {now, now + 1}
    BY TimesAreInts, TurnIsOver
  <1>1. ASSUME Started' PROVE Heard(lastPlanList, LastTurn)' \/ FailedSince(LastTurn)'
    <2>0. PICK y \in Int : y = LastTurn'
      BY TurnStaysOver
    <2>1. PICK L : L = lastPlanList'
      OBVIOUS
    <2>2. y <= now /\ (Heard(L, y) \/ FailedSince(y))
      <3>1. CASE pc = "exchange" /\ lastPlanList' = list
        <4>1. now' = now
          BY <3>1, ChangesAreNoted
          DEF Next, Main, TakePlans, refreshMyContacts, refreshMyRanges, Exchange, SkipExchange,
              WakeUp, ForwardTakesPlans, vars
        <4>2. y <= now
          BY <2>0, <4>1, TurnStaysOver
        <4>3. Heard(L, now) \/ FailedSince(now)
          BY <2>1, <3>1 DEF PlansHeard, InTurn
        <4> QED
          BY <1>0, <4>2, <4>3, HeardEarlier
      <3>2. CASE pc # "exchange"
        <4>1. Started /\ L = lastPlanList
          BY <1>1, <2>1, <3>2, StartedByExchange DEF Exchange
        <4>2. y <= LastTurn /\ y <= now
          BY <1>0, <2>0, <3>2, TurnIsOver
        <4>3. PICK x \in Int : x = LastTurn
          BY <1>0
        <4>4. Heard(L, x) \/ FailedSince(x)
          BY <4>1, <4>3 DEF PlansHeard, Heard, FailedSince
        <4> QED
          BY <4>2, <4>3, <4>4, HeardEarlier
      <3>3. CASE pc = "exchange" /\ lastPlanList' # list
        <4>1. Started /\ L = lastPlanList /\ ~Exchange /\ ~SkipExchange
          <5>1. ~Exchange
            BY <3>3 DEF Exchange, Send
          <5>2. ~SkipExchange
            BY <3>3 DEF SkipExchange, Due, planListChanged, exchange
          <5>3. Started /\ lastPlanList' = lastPlanList
            BY <1>1, <5>1, StartedByExchange DEF Started
          <5> QED
            BY <2>1, <5>1, <5>2, <5>3
        <4>2. now' = now /\ pc' = "exchange"
          BY <3>3, <4>1, ChangesAreNoted
          DEF Next, Main, TakePlans, refreshMyContacts, refreshMyRanges, WakeUp,
              ForwardTakesPlans, vars
        <4>3. LastTurn' = LastTurn
          BY <3>3, <4>2 DEF LastTurn
        <4> QED
          BY <1>0, <2>0, <4>1, <4>3 DEF PlansHeard, Heard, FailedSince
      <3> QED
        BY <3>1, <3>2, <3>3
    <2>3. (Heard(L, y) \/ FailedSince(y))'
      BY <2>2, HeardOrFailedStays
    <2> QED
      BY <2>0, <2>1, <2>3 DEF Heard, FailedSince
  <1>2. ASSUME InTurn' PROVE Heard(list, now)' \/ FailedSince(now)'
    <2>1. CASE TakePlans
      BY <2>1, PlansTakenAreHeard DEF GoneInv
    <2>2. CASE ~TakePlans
      <3>1. InTurn /\ UNCHANGED <<list, now>>
        BY <1>2, <2>2, ChangesAreNoted
        DEF InTurn, Next, Main, refreshMyContacts, refreshMyRanges, Exchange, SkipExchange,
            EndOfExchange, WakeUp, ForwardTakesPlans, vars
      <3>2. PICK x \in Int : x = now
        BY <1>0
      <3>3. PICK L : L = list
        OBVIOUS
      <3>4. Heard(L, x) \/ FailedSince(x)
        BY <3>1, <3>2, <3>3 DEF PlansHeard, Heard, FailedSince
      <3>5. (Heard(L, x) \/ FailedSince(x))'
        BY <1>0, <3>2, <3>4, HeardOrFailedStays
      <3> QED
        BY <3>1, <3>2, <3>3, <3>5 DEF Heard, FailedSince
    <2> QED
      BY <2>1, <2>2
  <1> QED
    BY <1>1, <1>2 DEF PlansHeard

\* Arithmetic on what is recent.
LEMMA DelayIsInt == Delay \in Int /\ Delay >= 0 /\ Delay = TTL + Wake + Lag - 1
  BY Parameters DEF Delay

LEMMA RecentSince ==
  ASSUME NEW t \in Int, NEW m \in Int, NEW a \in Int, a <= TTL, m + a > t - Wake - Lag
  PROVE  t - m <= Delay
  <1>0. TTL \in Int /\ Wake \in Int /\ Lag \in Int
    BY Parameters
  <1> QED
    BY <1>0 DEF Delay

LEMMA FailureIsRecent ==
  ASSUME NEW t \in Int, NEW m \in Int, m >= t - Wake - Lag
  PROVE  t - m <= Delay
  <1>0. TTL \in Int /\ TTL > 0 /\ Wake \in Int /\ Lag \in Int
    BY Parameters
  <1> QED
    BY <1>0 DEF Delay

\* A step that takes no time leaves the times of the causes, or makes them the present.
LEMMA CausesAdvance ==
  ASSUME Types, [Next]_vars, now' = now
  PROVE  /\ \A e \in Entry : moved'[e] \in {moved[e], now}
         /\ \A n \in Neighbour : planMoved'[n] \in {planMoved[n], now}
         /\ lastFault' \in {lastFault, now}
  <1>1. CASE Tick \/ Configuration
    <2>1. Note(held', plans', now') /\ lastFault' = lastFault
      BY <1>1, ChangesAreNoted DEF failures
    <2> QED
      BY <2>1 DEF Note
  <1>2. CASE UNCHANGED ion /\ (Fault \/ UNCHANGED failures)
    BY <1>2 DEF ion, failures, Fault
  <1>3. Tick \/ Configuration \/ UNCHANGED ion
    BY DEF Next, Main, TakePlans, refreshMyContacts, refreshMyRanges, Exchange, SkipExchange,
           WakeUp, ForwardTakesPlans, vars
  <1>4. Tick \/ Configuration \/ Fault \/ UNCHANGED failures
    BY DEF Next, Main, TakePlans, getplanlist, ReadPlans, refreshMyContacts, refreshMyRanges,
           refresh, Exchange, SkipExchange, WakeUp, ForwardTakesPlans, vars, failures
  <1> QED
    BY <1>1, <1>2, <1>3, <1>4

\* So a cause that is recent stays so.
LEMMA CauseStays ==
  ASSUME Types, ClocksBehind, [Next]_vars, now' = now, HasCause
  PROVE  HasCause'
  <1>0. now \in Int /\ now > 0 /\ now - now <= Delay
    BY TimesAreInts, DelayIsInt DEF ClocksBehind
  <1>1. ASSUME NEW e \in Entry, now - moved[e] <= Delay PROVE HasCause'
    <2>1. now' - moved'[e] <= Delay
      BY <1>0, <1>1, CausesAdvance
    <2> QED
      BY <2>1 DEF HasCause, Delay
  <1>2. ASSUME NEW n \in Neighbour, now - planMoved[n] <= Delay PROVE HasCause'
    <2>1. now' - planMoved'[n] <= Delay
      BY <1>0, <1>2, CausesAdvance
    <2> QED
      BY <2>1 DEF HasCause, Delay
  <1>3. ASSUME lastFault # 0, now - lastFault <= Delay PROVE HasCause'
    <2>1. lastFault' # 0 /\ now' - lastFault' <= Delay
      BY <1>0, <1>3, CausesAdvance
    <2> QED
      BY <2>1 DEF HasCause, Delay
  <1> QED
    BY <1>1, <1>2, <1>3 DEF HasCause

\* A list of plans taken from the cache differs from the last exchange's for a cause.
LEMMA ListChangeHasCause ==
  ASSUME Types', PlansHeard', Started', pc' # "asleep", list' = cachedPlans',
         list' # lastPlanList'
  PROVE  HasCause'
  <1>0. PICK t \in Int, f \in Int : t = now' /\ f = lastFault'
    BY TimesStayInts
  <1>1. LastTurn' = t - Wake - Lag
    BY <1>0 DEF LastTurn
  <1>2. PICK n \in Neighbour : (n \in list') # (n \in lastPlanList')
    BY DEF Types, ExchangeOK
  <1>3. CASE Heard(lastPlanList, LastTurn)'
    <2>1. PICK m \in Int : m = planMoved'[n]
      BY TimesStayInts
    <2>2. m + PlanTTL > t - Wake - Lag
      BY <1>1, <1>2, <1>3, <2>1 DEF Heard
    <2>3. t - m <= Delay
      <3>1. PlanTTL \in Int /\ PlanTTL <= TTL /\ Wake \in Int /\ Lag \in Int /\ TTL \in Int
        BY Parameters
      <3> QED
        BY <2>1, <2>2, <3>1, RecentSince
    <2> QED
      BY <1>0, <2>1, <2>3 DEF HasCause, Delay
  <1>4. CASE FailedSince(LastTurn)'
    <2>1. f > 0 /\ f >= t - Wake - Lag
      BY <1>0, <1>1, <1>4 DEF FailedSince
    <2>2. t - f <= Delay
      BY <2>1, FailureIsRecent
    <2> QED
      BY <1>0, <2>1, <2>2 DEF HasCause, Delay
  <1> QED
    BY <1>3, <1>4 DEF PlansHeard

\* What a refresh finds has moved recently, unless something has failed, and it says so.
LEMMA RefreshFinds ==
  ASSUME Types, Started, SnapshotTraced, SnapshotsKept, pc # "asleep", NEW k \in Kind, refresh(k)
  PROVE  /\ changed'[k] => \E e \in OfKind(k) : (e \in snapshot[k]) # (e \in snapshot'[k])
         /\ \A e \in OfKind(k) :
              (e \in snapshot[k]) # (e \in snapshot'[k])
              => changed'[k] /\ (now - moved[e] <= Delay \/ FailedSince(LastTurn))
  <1>1. CASE Kept(k)
    BY <1>1 DEF Kept, Types, SnapshotsOK
  <1>2. CASE /\ snapshot' = [snapshot EXCEPT ![k] = Own(k, held, now)]
             /\ changed' = [changed EXCEPT ![k] = Differs(Own(k, held, now), k)]
    <2>0. held \in SUBSET Entry
      BY DEF Types, IonOK
    <2>1. /\ snapshot'[k] = Own(k, held, now)
          /\ changed'[k] = (snapshot'[k] # snapshot[k])
      BY <1>2 DEF Types, SnapshotsOK, Differs
    <2>2. snapshot[k] \subseteq OfKind(k) /\ snapshot'[k] \subseteq OfKind(k)
      BY <2>0, <2>1, ShownByKind DEF SnapshotTraced
    <2>3. ASSUME NEW e \in OfKind(k), (e \in snapshot[k]) # (e \in snapshot'[k])
          PROVE  now - moved[e] <= Delay \/ FailedSince(LastTurn)
      <3>1. moved[e] >= updated[k]
        <4>1. (e \in snapshot[k]) # (e \in Shown(held, now))
          BY <2>0, <2>1, <2>3, ShownByKind
        <4> QED
          BY <4>1 DEF SnapshotTraced
      <3>2. CASE FailedSince(LastTurn)
        BY <3>2
      <3>3. CASE updated[k] + TTL > LastTurn
        <4>1. LastTurn = now - Wake - Lag
          BY DEF LastTurn
        <4>2. /\ now \in Int /\ updated[k] \in Int /\ moved[e] \in Int /\ TTL \in Int
              /\ Wake \in Int /\ Lag \in Int
          BY TimesAreInts DEF OfKind
        <4>3. moved[e] + TTL > now - Wake - Lag
          BY <3>1, <3>3, <4>1, <4>2
        <4> QED
          <5>1. TTL <= TTL
            BY <4>2
          <5> QED
            BY <4>2, <4>3, <5>1, RecentSince
      <3> QED
        BY <3>2, <3>3 DEF SnapshotsKept, KeptSince
    <2> QED
      BY <2>1, <2>2, <2>3
  <1> QED
    BY <1>1, <1>2 DEF refresh

\* Hence the change it announces has a cause.
LEMMA RefreshHasCause ==
  ASSUME Types, Started, SnapshotTraced, SnapshotsKept, pc # "asleep", NEW k \in Kind, refresh(k),
         changed'[k]
  PROVE  HasCause
  <1>1. PICK e \in OfKind(k) : now - moved[e] <= Delay \/ FailedSince(LastTurn)
    BY RefreshFinds
  <1>2. CASE now - moved[e] <= Delay
    BY <1>1, <1>2 DEF HasCause, OfKind
  <1>3. CASE FailedSince(LastTurn)
    <2>1. lastFault > 0 /\ lastFault >= now - Wake - Lag
      BY <1>3 DEF FailedSince, LastTurn
    <2>2. now - lastFault <= Delay
      BY <2>1, FailureIsRecent, TimesAreInts
    <2> QED
      BY <2>1, <2>2, TimesAreInts DEF HasCause
  <1> QED
    BY <1>1, <1>2, <1>3

\* Every step keeps TriggersHaveCause.
LEMMA NextTriggers ==
  ASSUME Types, Types', GoneInv, Punctual, SnapshotTraced, SnapshotsKept, PlansHeard',
         TriggersHaveCause, [Next]_vars
  PROVE  TriggersHaveCause'
  <1>0. ClocksBehind
    BY DEF GoneInv
  <1>1. CASE TakePlans
    <2>1. now' = now /\ pc = "plans" /\ pc' \in {"plans", "contacts"} /\ UNCHANGED changed
      BY <1>1 DEF TakePlans, snapshots
    <2>2. ASSUME NEW k \in Kind PROVE ~Pending(k)'
      BY <2>1 DEF Pending
    <2>3. ASSUME Started', planListChanged' PROVE HasCause'
      <3>1. CASE list' = cachedPlans'
        BY <2>1, <2>3, <3>1, ListChangeHasCause DEF planListChanged
      <3>2. CASE Fault
        <4>1. lastFault' # 0 /\ now' - lastFault' <= Delay
          BY <1>0, <2>1, <3>2, TimesAreInts, DelayIsInt DEF Fault, ClocksBehind
        <4> QED
          BY <4>1 DEF HasCause, Delay
      <3> QED
        BY <1>1, <3>1, <3>2 DEF TakePlans, getplanlist, ReadPlans, caches
    <2> QED
      BY <2>2, <2>3 DEF TriggersHaveCause
  <1>2. CASE refreshMyContacts \/ refreshMyRanges
    <2>1. /\ now' = now /\ pc \in {"contacts", "ranges"} /\ pc' \in {"ranges", "exchange"}
          /\ UNCHANGED <<list, lastPlanList, lastExchange>>
      BY <1>2 DEF refreshMyContacts, refreshMyRanges, exchange
    <2>2. Started' = Started
      BY <2>1 DEF Started
    <2>3. ASSUME Started, planListChanged' PROVE HasCause'
      <3>1. HasCause
        BY <2>1, <2>3 DEF TriggersHaveCause, InTurn, planListChanged
      <3> QED
        BY <1>0, <2>1, <3>1, CauseStays
    <2>4. ASSUME Started, NEW k \in Kind, Pending(k)' PROVE HasCause'
      <3>1. CASE refresh(k)
        <4>1. HasCause
          BY <2>1, <2>4, <3>1, RefreshHasCause DEF Pending
        <4> QED
          BY <1>0, <2>1, <4>1, CauseStays
      <3>2. CASE ~refresh(k)
        <4>1. Pending(k)
          BY <1>2, <2>4, <3>2
          DEF Pending, refreshMyContacts, refreshMyRanges, refresh, Kept, Kind, Types, SnapshotsOK
        <4>2. HasCause
          BY <2>4, <4>1 DEF TriggersHaveCause
        <4> QED
          BY <1>0, <2>1, <4>2, CauseStays
      <3> QED
        BY <3>1, <3>2
    <2> QED
      BY <2>2, <2>3, <2>4 DEF TriggersHaveCause
  <1>3. CASE Exchange \/ SkipExchange \/ WakeUp \/ Tick
    <2>1. pc' \in {"plans", "asleep"}
      BY <1>3, ChangesAreNoted DEF Exchange, SkipExchange, EndOfExchange, WakeUp
    <2> QED
      BY <2>1 DEF TriggersHaveCause, InTurn, Pending
  <1>4. CASE ForwardTakesPlans \/ Configuration \/ UNCHANGED vars
    <2>1. now' = now /\ UNCHANGED <<list, lastPlanList, lastExchange, pc, changed>>
      BY <1>4, ChangesAreNoted DEF ForwardTakesPlans, vars, exchange, snapshots
    <2>2. HasCause => HasCause'
      BY <1>0, <2>1, CauseStays
    <2> QED
      BY <2>1, <2>2 DEF TriggersHaveCause, Started, InTurn, planListChanged, Pending
  <1> QED
    BY <1>1, <1>2, <1>3, <1>4 DEF Next, Main

\* What has been said stays so until the next exchange.
LEMMA SaidStays ==
  ASSUME Types, Punctual, [Next]_vars, UNCHANGED <<told, lastExchange>>,
         Types', NEW e, NEW n, Said(e, n)
  PROVE  Said(e, n)'
  <1>1. PICK x \in Int : x = lastExchange /\ x <= now
    BY TimesAreInts DEF Punctual
  <1>2. FailedSince(x) => FailedSince(x)'
    BY <1>1, TurnIsOver, FailuresAdvance
  <1> QED
    BY <1>1, <1>2 DEF Said, FailedSince

\* Nobody changes the node's metadata.
LEMMA MetadataStays == ASSUME [Next]_vars PROVE OwnMetadata(held') = OwnMetadata(held)
  <1>1. CASE UNCHANGED held
    BY <1>1 DEF OwnMetadata
  <1>2. ASSUME NEW e \in Entry, IndexChanges(e) PROVE OwnMetadata(held') = OwnMetadata(held)
    BY <1>2 DEF IndexChanges, Edit, OwnMetadata
  <1>3. UNCHANGED held \/ \E e \in Entry : IndexChanges(e)
    BY DEF Next, Main, TakePlans, refreshMyContacts, refreshMyRanges, Exchange, SkipExchange,
           WakeUp, ForwardTakesPlans, Tick, Configuration, PlansChange, Edit, vars, ion
  <1> QED
    BY <1>1, <1>2, <1>3

\* An exchange tells all there is to tell, or something fails.
LEMMA ExchangeSays ==
  ASSUME Types, ClocksBehind, Exchange
  PROVE  /\ \A n \in lastPlanList', e \in Records : Said(e, n)'
         /\ UNCHANGED <<snapshot, held>>
  <1>1. CASE Fault
    <2>1. lastExchange' = now /\ lastFault' = now /\ now > 0 /\ now \in Int
      BY <1>1, TimesAreInts DEF Exchange, Send, Fault, ClocksBehind
    <2> QED
      BY <2>1 DEF Exchange, Said, FailedSince, snapshots, ion
  <1>2. CASE Send({})
    <2>1. Records \subseteq Entry /\ list \subseteq Neighbour
      BY DEF Types, SnapshotsOK, IonOK, ExchangeOK, Records, OwnMetadata, Kind
    <2>2. ASSUME NEW n \in list, NEW e \in Records PROVE told'[<<e, n>>] = now
      <3>1. <<e, n>> \in Entry \X Neighbour /\ <<e, n>> \in (Records \X list) \ {}
        BY <2>1
      <3> QED
        BY <1>2, <3>1 DEF Send
    <2> QED
      BY <1>2, <2>2 DEF Exchange, Send, Said, snapshots, ion
  <1> QED
    BY <1>1, <1>2 DEF Exchange

\* Between two exchanges, what a snapshot holds has been said or is about to be.
LEMMA NextSaid ==
  ASSUME Types, Types', GoneInv, Punctual, SnapshotTraced, CacheTraced, SnapshotsKept,
         SnapshotsSaid, [Next]_vars
  PROVE  SnapshotsSaid'
  <1>0. /\ ClocksBehind /\ now \in Int /\ LastTurn \in Int /\ LastTurn <= now
        /\ 0 <= Delay /\ now - now = 0
    BY TimesAreInts, TurnIsOver, DelayIsInt DEF GoneInv
  <1>1. CASE Exchange
    <2>1. \A e \in OwnMetadata(held) : e \in Records
      BY DEF Records
    <2>2. \A k \in Kind : \A e \in snapshot[k] : e \in Records
      BY DEF Records, Kind
    <2> QED
      BY <1>0, <1>1, <2>1, <2>2, ExchangeSays DEF SnapshotsSaid
  <1>2. CASE ~Exchange
    <2>0. UNCHANGED <<lastExchange, lastPlanList, told>> /\ Started' = Started
      BY <1>2, StartedByExchange
    <2> SUFFICES ASSUME Started, NEW n \in lastPlanList
                 PROVE  /\ \A e \in OwnMetadata(held') : Said(e, n)'
                        /\ \A k \in Kind : \A e \in snapshot'[k] :
                             \/ Said(e, n)'
                             \/ /\ Pending(k)'
                                /\ now' - moved'[e] <= Delay \/ FailedSince(LastTurn)'
      BY <2>0 DEF SnapshotsSaid, Delay
    <2>1. \A e : Said(e, n) => Said(e, n)'
      BY <2>0, SaidStays
    <2>2. \A e \in OwnMetadata(held') : Said(e, n)'
      BY <2>1, MetadataStays DEF SnapshotsSaid
    <2>3. ASSUME now' = now, pc # "asleep", pc' # "asleep", FailedSince(LastTurn)
          PROVE  FailedSince(LastTurn)'
      <3>1. PICK x \in Int : x = LastTurn /\ x <= now
        BY <1>0
      <3>2. LastTurn' = x
        BY <2>3, <3>1 DEF LastTurn
      <3>3. FailedSince(x)'
        BY <2>3, <3>1, TurnIsOver, FailuresAdvance DEF FailedSince
      <3> QED
        BY <3>2, <3>3 DEF FailedSince
    <2>4. ASSUME NEW k \in Kind, NEW e \in snapshot'[k]
          PROVE  \/ Said(e, n)'
                 \/ /\ Pending(k)'
                    /\ now' - moved'[e] <= Delay \/ FailedSince(LastTurn)'
      <3>0. e \in Entry
        BY <2>4 DEF Types, SnapshotsOK
      <3>1. CASE refreshMyContacts \/ refreshMyRanges
        <4>1. /\ now' = now /\ pc \in {"contacts", "ranges"} /\ pc' \in {"ranges", "exchange"}
              /\ moved' = moved
          BY <3>1 DEF refreshMyContacts, refreshMyRanges, ion
        <4>2. CASE refresh(k) /\ e \in snapshot[k] /\ ~Pending(k)
          BY <2>1, <4>2 DEF SnapshotsSaid
        <4>3. CASE /\ refresh(k) /\ e \notin snapshot[k]
                   /\ pc' = (IF k = "contact" THEN "ranges" ELSE "exchange")
          <5>1. e \in OfKind(k)
            <6>1. SnapshotTraced'
              BY NextTraced
            <6> QED
              BY <2>4, <6>1 DEF SnapshotTraced
          <5>2. changed'[k] /\ (now - moved[e] <= Delay \/ FailedSince(LastTurn))
            BY <2>4, <4>1, <4>3, <5>1, RefreshFinds
          <5> QED
            BY <2>3, <4>1, <4>3, <5>2 DEF Pending, Kind
        <4>4. CASE /\ snapshot'[k] = snapshot[k] /\ changed'[k] = changed[k]
                   /\ Pending(k) => Pending(k)'
          BY <2>1, <2>3, <2>4, <4>1, <4>4 DEF SnapshotsSaid
        <4> QED
          BY <3>1, <4>2, <4>3, <4>4
          DEF refreshMyContacts, refreshMyRanges, refresh, Kept, Pending, Kind, Types, SnapshotsOK
      <3>2. CASE SkipExchange
        <4>1. ~Pending(k) /\ snapshot' = snapshot
          BY <3>2 DEF SkipExchange, Due, Pending, Kind, snapshots
        <4> QED
          BY <2>1, <2>4, <4>1 DEF SnapshotsSaid
      <3>3. CASE TakePlans \/ WakeUp \/ Tick
        <4>1. ~Pending(k) /\ snapshot' = snapshot
          BY <3>3, ChangesAreNoted DEF TakePlans, WakeUp, Pending, snapshots
        <4> QED
          BY <2>1, <2>4, <4>1 DEF SnapshotsSaid
      <3>4. CASE ForwardTakesPlans \/ Configuration \/ UNCHANGED vars
        <4>1. now' = now /\ UNCHANGED <<pc, snapshot, changed>>
          BY <3>4, ChangesAreNoted DEF ForwardTakesPlans, vars, snapshots
        <4>2. moved'[e] \in {moved[e], now}
          BY <3>0, <4>1, CausesAdvance
        <4>3. now - moved[e] <= Delay => now' - moved'[e] <= Delay
          BY <1>0, <4>1, <4>2
        <4>4. Pending(k) => Pending(k)' /\ pc # "asleep" /\ pc' # "asleep"
          BY <4>1 DEF Pending
        <4> QED
          BY <2>1, <2>3, <2>4, <4>1, <4>3, <4>4 DEF SnapshotsSaid
      <3> QED
        BY <1>2, <3>1, <3>2, <3>3, <3>4 DEF Next, Main
    <2> QED
      BY <2>2, <2>4
  <1> QED
    BY <1>1, <1>2

\* The initial states keep the invariant.
LEMMA InitTimely == Init => TimeInv
  <1> SUFFICES ASSUME Init PROVE TimeInv
    OBVIOUS
  <1>1. ~Started /\ pc = "plans" /\ round = "startup"
    BY DEF Init, Started
  <1>2. Punctual
    BY <1>1 DEF Init, Punctual
  <1>3. SnapshotTraced /\ CacheTraced
    <2>1. \A e \in Entry : moved[e] = 1
      BY DEF Init
    <2>2. \A n \in Neighbour : planMoved[n] = 1
      BY DEF Init
    <2>3. \A k \in Kind : snapshot[k] = {} /\ updated[k] = 0
      BY DEF Init
    <2>4. lastPlanUpdate = 0
      BY DEF Init
    <2> QED
      BY <2>1, <2>2, <2>3, <2>4 DEF SnapshotTraced, CacheTraced, OfKind
  <1> QED
    BY <1>1, <1>2, <1>3
    DEF TimeInv, SnapshotsKept, PlansHeard, InTurn, TriggersHaveCause, SnapshotsSaid

\* Every step keeps it.
LEMMA NextTimely == Types /\ Types' /\ GoneInv /\ TimeInv /\ [Next]_vars => TimeInv'
  <1> SUFFICES ASSUME Types, Types', GoneInv, TimeInv, [Next]_vars PROVE TimeInv'
    OBVIOUS
  <1>0. /\ Punctual /\ SnapshotTraced /\ CacheTraced /\ SnapshotsKept
        /\ PlansHeard /\ TriggersHaveCause /\ SnapshotsSaid
    BY DEF TimeInv
  <1>1. Punctual'
    BY <1>0, NextPunctual
  <1>2. SnapshotTraced' /\ CacheTraced'
    BY <1>0, NextTraced
  <1>3. SnapshotsKept'
    BY <1>0, <1>1, NextKept
  <1>4. PlansHeard'
    BY <1>0, <1>1, NextHeard
  <1>5. TriggersHaveCause'
    BY <1>0, <1>4, NextTriggers
  <1>6. SnapshotsSaid'
    BY <1>0, NextSaid
  <1> QED
    BY <1>1, <1>2, <1>3, <1>4, <1>5, <1>6 DEF TimeInv

\* So it always holds.
LEMMA Timely == Spec => [](Types /\ GoneInv /\ TimeInv)
  <1>1. Init => Types /\ GoneInv /\ TimeInv
    BY InitTypes, InitGone, InitTimely
  <1>2. Types /\ GoneInv /\ TimeInv /\ [Next]_vars => Types' /\ GoneInv' /\ TimeInv'
    BY NextTypes, NextGone, NextTimely
  <1> QED
    BY <1>1, <1>2, PTL DEF Spec

\* What the invariant says of what has stood for a Delay and of who has.
LEMMA StandingIsTold ==
  ASSUME Types, GoneInv, TimeInv, NEW e \in Shown(held, now), NEW n \in Reachable(plans),
         now - moved[e] > Delay, now - planMoved[n] > Delay,
         lastFault = 0 \/ now - lastFault > Silence
  PROVE  told[<<e, n>>] # 0 /\ now - told[<<e, n>>] <= Silence
  <1>0. /\ now \in Int /\ wakeAt \in Int /\ lastExchange \in Int /\ lastFault \in Int
        /\ Interval \in Int /\ Interval > 0 /\ Wake \in Int /\ Wake > 0 /\ Lag \in Int /\ Lag >= 0
        /\ TTL \in Int /\ TTL > 0 /\ PlanTTL \in Int /\ PlanTTL <= TTL
        /\ Silence = Interval + Wake + Lag - 1 /\ Delay = TTL + Wake + Lag - 1
    BY TimesAreInts, Parameters DEF Silence, Delay
  <1>1. e \in Entry /\ n \in Neighbour /\ held \in SUBSET Entry
    <2>1. held \in SUBSET Entry /\ plans \in SUBSET Neighbour
      BY DEF Types, IonOK
    <2>2. Own("contact", held, now) \subseteq Entry /\ Own("range", held, now) \subseteq Entry
      BY <2>1, OwnIsPart
    <2> QED
      BY <2>1, <2>2, ReachableIsPart DEF Shown, OwnMetadata
  <1>2. moved[e] \in Nat /\ planMoved[n] \in Nat
    BY <1>1, Parameters DEF Types, IonOK, Instant
  <1>3. Started
    BY <1>0, <1>2 DEF TimeInv, Punctual
  <1>4. /\ LastTurn \in Int /\ LastTurn >= now - Wake - Lag
        /\ LastTurn - lastExchange < Interval
    <2>1. LastTurn - lastExchange < Interval
      BY <1>3 DEF TimeInv, Punctual
    <2>2. CASE pc = "asleep"
      <3>1. now <= wakeAt + Lag /\ LastTurn = wakeAt - Wake
        BY <2>2 DEF TimeInv, Punctual, LastTurn
      <3> QED
        BY <1>0, <2>1, <3>1
    <2>3. CASE pc # "asleep"
      <3>1. LastTurn = now - Wake - Lag
        BY <2>3 DEF LastTurn
      <3> QED
        BY <1>0, <2>1, <3>1
    <2> QED
      BY <2>2, <2>3
  <1>5. now - lastExchange <= Silence
    BY <1>0, <1>4
  <1>6. ~FailedSince(lastExchange) /\ ~FailedSince(LastTurn)
    BY <1>0, <1>4, <1>5 DEF FailedSince
  <1>7. n \in lastPlanList
    <2>1. Heard(lastPlanList, LastTurn)
      BY <1>3, <1>6 DEF TimeInv, PlansHeard
    <2> SUFFICES ASSUME n \notin lastPlanList PROVE FALSE
      OBVIOUS
    <2>2. planMoved[n] + PlanTTL > LastTurn
      BY <1>1, <2>1 DEF Heard
    <2>3. planMoved[n] \in Int /\ planMoved[n] + PlanTTL > now - Wake - Lag
      BY <1>0, <1>2, <1>4, <2>2
    <2>4. now - planMoved[n] <= Delay
      BY <1>0, <2>3, RecentSince
    <2> QED
      BY <1>0, <1>2, <2>4
  <1>8. told[<<e, n>>] = lastExchange
    <2>1. CASE e \in OwnMetadata(held)
      BY <1>3, <1>6, <1>7, <2>1 DEF TimeInv, SnapshotsSaid, Said
    <2>2. CASE e \notin OwnMetadata(held)
      <3>1. PICK k \in Kind : e \in OfKind(k)
        <4>1. PICK k \in Kind : e \in Own(k, held, now)
          BY <2>2 DEF Shown, Kind
        <4> QED
          BY <1>1, <4>1, ShownByKind
      <3>2. e \in snapshot[k]
        <4> SUFFICES ASSUME e \notin snapshot[k] PROVE FALSE
          OBVIOUS
        <4>1. moved[e] >= updated[k]
          BY <3>1 DEF TimeInv, SnapshotTraced
        <4>2. updated[k] + TTL > LastTurn
          BY <1>3, <1>6 DEF TimeInv, SnapshotsKept, KeptSince
        <4>3. updated[k] \in Int /\ moved[e] \in Int
          BY <1>2, TimesAreInts
        <4>4. moved[e] + TTL > now - Wake - Lag /\ TTL <= TTL
          BY <1>0, <1>4, <4>1, <4>2, <4>3
        <4>5. now - moved[e] <= Delay
          BY <1>0, <4>3, <4>4, RecentSince
        <4> QED
          BY <1>0, <4>3, <4>5
      <3>3. ~(now - moved[e] <= Delay)
        BY <1>0, <1>2
      <3> QED
        BY <1>3, <1>6, <1>7, <3>2, <3>3 DEF TimeInv, SnapshotsSaid, Said
    <2> QED
      BY <2>1, <2>2
  <1> QED
    BY <1>3, <1>5, <1>8 DEF Started

\* Whatever the intervals and ages, the order of changes, sleeps and refreshes and the
\* threads that read the plans, who has been a neighbour for a Delay has within a Silence
\* been sent whatever has been announceable for a Delay, unless something has failed
\* since: InformedInTime of Announce.
THEOREM EveryoneIsInformedInTime == Spec => []InformedInTime
  <1>1. Types /\ GoneInv /\ TimeInv => InformedInTime
    BY StandingIsTold DEF InformedInTime
  <1> QED
    BY <1>1, Timely, PTL

\* An exchange that comes before its interval is over follows a change of what there is
\* to say or of whom there is to tell, or a failure, by at most a Delay: ExchangeHasCause
\* of Announce.
THEOREM ExchangesHaveCauses == Spec => ExchangeHasCause
  <1>1. Types /\ GoneInv /\ TimeInv /\ [Next]_vars =>
          (lastExchange # 0 /\ lastExchange' # lastExchange /\ now - lastExchange < Interval
           => HasCause')
    <2> SUFFICES ASSUME Types, GoneInv, TimeInv, [Next]_vars, lastExchange # 0,
                        lastExchange' # lastExchange, now - lastExchange < Interval
                 PROVE  HasCause'
      OBVIOUS
    <2>1. Exchange
      BY StartedByExchange
    <2>2. now' = now /\ pc = "exchange"
      BY <2>1 DEF Exchange
    <2>3. planListChanged \/ changed["contact"] \/ changed["range"]
      BY <2>1, TimesAreInts DEF Exchange, Due
    <2>4. HasCause
      BY <2>2, <2>3 DEF TimeInv, TriggersHaveCause, Started, InTurn, Pending, Kind
    <2> QED
      BY <2>2, <2>4, CauseStays DEF GoneInv
  <1> QED
    BY <1>1, Timely, PTL DEF Spec, ExchangeHasCause
=============================================================================
