------------------------------ MODULE Announce ------------------------------
(***************************************************************************)
(* When a dtnex node announces what it knows, to whom, and what it says:   *)
(* eventDrivenLoop and exchangeWithNeighbors of dtnex.c, with the cache of *)
(* plans, the two snapshots of ION's indexes and the four triggers.        *)
(*                                                                         *)
(* ION's indexes and plans change between any two steps of main; the       *)
(* reception thread refreshes the cache of plans when it forwards.  The    *)
(* time a turn of main takes, its sends included, is counted with the      *)
(* sleep that follows it, which may last Lag longer than planned.  The     *)
(* connection is up; what happens when it is lost belongs to Lifecycle.    *)
(***************************************************************************)
EXTENDS Integers, FiniteSets

CONSTANTS Me,
          Entry,       \* what ION may hold, numbered in the order of its indexes
          Of,          \* the fields of each entry
          Configured,  \* the entries ION holds at the start
          Neighbour,   \* the node numbers plans may name
          Planned,     \* the plans at the start
          Interval,    \* config->updateInterval
          Wake,        \* the longest sleep of main, 60 s
          TTL,         \* MY_CONTACTS_CACHE_TTL, 60 s
          PlanTTL,     \* the age at which the plans are read again, 20 s
          Lag,         \* the longest time a turn takes besides its sleep
          MaxRecords,  \* IONC_MAX_CONTACTS, IONC_MAX_RANGES
          MaxPlans,    \* MAX_PLANS
          MaxTime,     \* bound: the clock
          MaxEdits,    \* bound: changes of ION's configuration
          MaxFaults    \* bound: failing reads and sends

Kind == {"contact", "range"}

Nature == {"Scheduled", "Predicted", "Discovered", "Asserted", "Imputed", "Own"}

ASSUME AnnounceAssumption ==
  /\ Me \in Nat
  /\ Entry \subseteq Nat
  /\ IsFiniteSet(Entry)
  /\ Of \in [Entry -> [kind: Kind \cup {"metadata"}, from: Nat, to: Nat, nature: Nature,
                       until: Nat]]
  /\ Configured \subseteq Entry
  /\ Neighbour \subseteq Nat
  /\ IsFiniteSet(Neighbour)
  /\ Planned \subseteq Neighbour
  /\ {Interval, Wake, TTL, PlanTTL, MaxRecords, MaxPlans, MaxTime} \subseteq Nat \ {0}
  /\ {Lag, MaxEdits, MaxFaults} \subseteq Nat
  /\ PlanTTL <= TTL

VARIABLES
  now,           \* time(NULL)
  held,          \* the entries of ION's indexes, and the node's metadata
  plans,         \* the neighbours of ION's plans
  cachedPlans,   \* getplanlist's cache
  lastPlanUpdate,
  snapshot,      \* myContacts, myRanges
  updated,       \* myContactsUpdated, myRangesUpdated
  changed,       \* contactsChanged, rangesChanged
  list,          \* main's plans
  lastPlanList,
  lastExchange,
  nextUpdate,
  wakeAt,        \* when main's sleep ends
  pc,            \* where main stands
  round,         \* which call of exchangeWithNeighbors this is
  told,          \* history: when each neighbour was last sent each entry, 0 for never
  moved,         \* history: when each entry last became or ceased to be announceable
  planMoved,     \* history: the same of the plans
  lastFault,     \* history: when something last failed
  edits, faults

caches == <<cachedPlans, lastPlanUpdate>>
snapshots == <<snapshot, updated, changed>>
exchange == <<lastPlanList, lastExchange, told>>
schedule == <<nextUpdate, wakeAt>>
ion == <<held, plans, moved, planMoved, edits>>
failures == <<lastFault, faults>>
vars == <<now, caches, snapshots, exchange, schedule, ion, failures, list, pc, round>>

Instant == 0..MaxTime

Beyond == 0..(MaxTime + Interval)

TypeOK ==
  /\ now \in Instant
  /\ held \subseteq Entry
  /\ plans \subseteq Neighbour
  /\ cachedPlans \subseteq Neighbour \ {Me}
  /\ lastPlanUpdate \in Instant
  /\ snapshot \in [Kind -> SUBSET Entry]
  /\ updated \in [Kind -> Instant]
  /\ changed \in [Kind -> BOOLEAN]
  /\ list \subseteq Neighbour \ {Me}
  /\ lastPlanList \subseteq Neighbour \ {Me}
  /\ lastExchange \in Instant
  /\ nextUpdate \in Beyond
  /\ wakeAt \in Beyond
  /\ pc \in {"plans", "contacts", "ranges", "exchange", "asleep"}
  /\ round \in {"startup", "update", "wake"}
  /\ told \in [Entry \X Neighbour -> Instant]
  /\ moved \in [Entry -> Instant]
  /\ planMoved \in [Neighbour -> Instant]
  /\ lastFault \in Instant
  /\ edits \in 0..MaxEdits
  /\ faults \in 0..MaxFaults

-----------------------------------------------------------------------------
(* What may be announced.                                                  *)

\* The first max elements of a list in ascending order.
FirstOf(S, max) == {e \in S : Cardinality({f \in S : f < e}) < max}

\* Scheduled and predicted contacts and asserted ranges of the node's own
\* direction, until they end.
Announceable(h, t) ==
  {e \in h : /\ Of[e].from = Me
             /\ Of[e].to # Me
             /\ Of[e].nature \in {"Scheduled", "Predicted", "Asserted"}
             /\ Of[e].until > t}

OfKind(k) == {e \in Entry : Of[e].kind = k}

Own(k, h, t) == FirstOf(Announceable(h, t) \cap OfKind(k), MaxRecords)

\* The metadata of the configuration, when exchanging it is enabled.
OwnMetadata(h) == {e \in h : Of[e].kind = "metadata"}

Shown(h, t) == Own("contact", h, t) \cup Own("range", h, t) \cup OwnMetadata(h)

Reachable(p) == FirstOf(p \ {0, Me}, MaxPlans)

Init ==
  /\ now = 1
  /\ held = Configured
  /\ plans = Planned
  /\ cachedPlans = {}
  /\ lastPlanUpdate = 0
  /\ snapshot = [k \in Kind |-> {}]
  /\ updated = [k \in Kind |-> 0]
  /\ changed = [k \in Kind |-> FALSE]
  /\ list = {}
  /\ lastPlanList = {}
  /\ lastExchange = 0
  /\ nextUpdate = 0
  /\ wakeAt = 0
  /\ pc = "plans"
  /\ round = "startup"
  /\ told = [x \in Entry \X Neighbour |-> 0]
  /\ moved = [e \in Entry |-> 1]
  /\ planMoved = [n \in Neighbour |-> 1]
  /\ lastFault = 0
  /\ edits = 0
  /\ faults = 0

Fault ==
  /\ faults < MaxFaults
  /\ faults' = faults + 1
  /\ lastFault' = now

-----------------------------------------------------------------------------
(* getplanlist.                                                            *)

\* Mutant of PlansAreFresh: the cache is never read again.
PlansAreFresh_Forever == lastPlanUpdate > 0

PlansAreFresh == lastPlanUpdate > 0 /\ now - lastPlanUpdate < PlanTTL

ReadPlans ==
  /\ ~PlansAreFresh
  /\ cachedPlans' = Reachable(plans)
  /\ lastPlanUpdate' = now
  /\ UNCHANGED failures

\* What the caller gets, and what becomes of the cache.  With no SDR the cache
\* serves whatever its age; without the constants of BP no plan is listed.
getplanlist ==
  \/ /\ PlansAreFresh
     /\ list' = cachedPlans
     /\ UNCHANGED <<caches, failures>>
  \/ ReadPlans /\ list' = cachedPlans'
  \/ /\ ~PlansAreFresh
     /\ Fault
     /\ list' \in {cachedPlans, {}}
     /\ UNCHANGED caches

\* The rest of the turn begins with the contacts; the startup broadcast does
\* without neighbours.
TakePlans ==
  /\ pc = "plans"
  /\ getplanlist
  /\ IF round = "startup" /\ list' = {}
     THEN /\ round' = "wake"
          /\ nextUpdate' = now + Interval
          /\ UNCHANGED pc
     ELSE /\ pc' = "contacts"
          /\ UNCHANGED <<round, nextUpdate>>
  /\ UNCHANGED <<now, wakeAt, snapshots, exchange, ion>>

\* The reception thread asks for the plans when it forwards a message.
ForwardTakesPlans ==
  /\ ReadPlans
  /\ UNCHANGED <<now, list, pc, round, schedule, snapshots, exchange, ion>>

-----------------------------------------------------------------------------
(* refreshMyContacts and refreshMyRanges.                                  *)

\* Mutant of IsFresh: the age of the other snapshot is looked at.
IsFresh_Swapped(k) ==
  \A j \in Kind \ {k} : updated[j] > 0 /\ now - updated[j] < TTL

IsFresh(k) == updated[k] > 0 /\ now - updated[k] < TTL

\* Mutant of Differs: only the number of records is compared.
Differs_CountOnly(fresh, k) == Cardinality(fresh) # Cardinality(snapshot[k])

Differs(fresh, k) == fresh # snapshot[k]

Kept(k) ==
  /\ changed' = [changed EXCEPT ![k] = FALSE]
  /\ UNCHANGED <<snapshot, updated>>

refresh(k) ==
  \/ IsFresh(k) /\ Kept(k) /\ UNCHANGED failures
  \/ /\ ~IsFresh(k)
     /\ LET fresh == Own(k, held, now)
        IN  /\ snapshot' = [snapshot EXCEPT ![k] = fresh]
            /\ updated' = [updated EXCEPT ![k] = now]
            /\ changed' = [changed EXCEPT ![k] = Differs(fresh, k)]
     /\ UNCHANGED failures
  \/ ~IsFresh(k) /\ Fault /\ Kept(k)

refreshMyContacts ==
  /\ pc = "contacts"
  /\ refresh("contact")
  /\ pc' = "ranges"
  /\ UNCHANGED <<now, list, round, schedule, caches, exchange, ion>>

refreshMyRanges ==
  /\ pc = "ranges"
  /\ refresh("range")
  /\ pc' = "exchange"
  /\ UNCHANGED <<now, list, round, schedule, caches, exchange, ion>>

-----------------------------------------------------------------------------
(* exchangeWithNeighbors, after the refreshes.                             *)

planListChanged == list # lastPlanList

Due ==
  \/ lastExchange = 0
  \/ now - lastExchange >= Interval
  \/ planListChanged
  \/ changed["contact"]
  \/ changed["range"]

Records == snapshot["contact"] \cup snapshot["range"] \cup OwnMetadata(held)

\* What comes after the exchange, sent or skipped.
EndOfExchange ==
  IF round = "wake"
  THEN /\ pc' = "asleep"
       /\ wakeAt' = IF now + Wake < nextUpdate THEN now + Wake ELSE nextUpdate
       /\ UNCHANGED <<round, nextUpdate>>
  ELSE /\ pc' = "plans"
       /\ round' = "wake"
       /\ nextUpdate' = now + Interval
       /\ UNCHANGED wakeAt

\* Mutant of Send: the neighbours of the exchange are not remembered.
Send_NoList(failing) ==
  /\ lastExchange' = now
  /\ told' = [x \in Entry \X Neighbour |->
                IF x \in (Records \X list) \ failing THEN now ELSE told[x]]
  /\ UNCHANGED lastPlanList

\* Every record to every neighbour; the exchange counts as done whatever the
\* sends return.
Send(failing) ==
  /\ lastExchange' = now
  /\ lastPlanList' = list
  /\ told' = [x \in Entry \X Neighbour |->
                IF x \in (Records \X list) \ failing THEN now ELSE told[x]]

Exchange ==
  /\ pc = "exchange"
  /\ Due
  /\ \/ Send({}) /\ UNCHANGED failures
     \/ Fault /\ \E lost \in {{x} : x \in Records \X list} \cup {Records \X list} : Send(lost)
  /\ EndOfExchange
  /\ UNCHANGED <<now, list, caches, snapshots, ion>>

SkipExchange ==
  /\ pc = "exchange"
  /\ ~Due
  /\ EndOfExchange
  /\ UNCHANGED <<now, list, caches, snapshots, exchange, ion, failures>>

-----------------------------------------------------------------------------
(* The clock, and those who configure ION.                                 *)

WakeUp ==
  /\ pc = "asleep"
  /\ now >= wakeAt
  /\ pc' = "plans"
  /\ round' = IF now >= nextUpdate THEN "update" ELSE "wake"
  /\ UNCHANGED <<now, list, schedule, caches, snapshots, exchange, ion, failures>>

\* The entries and plans whose standing changes are noted.
Note(h, p, t) ==
  LET shown == Shown(held, now)
      shownNow == Shown(h, t)
      reached == Reachable(plans)
      reachedNow == Reachable(p)
  IN  /\ moved' = [e \in Entry |->
                     IF (e \in shown) # (e \in shownNow) THEN t ELSE moved[e]]
      /\ planMoved' = [n \in Neighbour |->
                         IF (n \in reached) # (n \in reachedNow) THEN t ELSE planMoved[n]]

Tick ==
  /\ pc = "asleep"
  /\ now < wakeAt + Lag
  /\ now < MaxTime
  /\ now' = now + 1
  /\ Note(held, plans, now + 1)
  /\ UNCHANGED <<held, plans, edits, list, pc, round, schedule, caches, snapshots, exchange,
                 failures>>

Edit(h, p) ==
  /\ edits < MaxEdits
  /\ edits' = edits + 1
  /\ held' = h
  /\ plans' = p
  /\ Note(h, p, now)
  /\ UNCHANGED <<now, list, pc, round, schedule, caches, snapshots, exchange, failures>>

\* ionadmin, ipnd, ION's clock, or dtnex itself applying what others announce.
IndexChanges(e) ==
  /\ Of[e].kind # "metadata"
  /\ Edit(IF e \in held THEN held \ {e} ELSE held \cup {e}, plans)

\* ipnadmin.
PlansChange(n) == Edit(held, IF n \in plans THEN plans \ {n} ELSE plans \cup {n})

-----------------------------------------------------------------------------
Main == TakePlans \/ refreshMyContacts \/ refreshMyRanges \/ Exchange \/ SkipExchange \/ WakeUp

Configuration ==
  \/ \E e \in Entry : IndexChanges(e)
  \/ \E n \in Neighbour : PlansChange(n)

Next == Main \/ ForwardTakesPlans \/ Tick \/ Configuration

Spec == Init /\ [][Next]_vars

-----------------------------------------------------------------------------
(* Properties.                                                             *)

\* The latest a change is noticed: a snapshot one second short of its TTL at one
\* turn is read again a whole sleep later.
Delay == TTL + Wake + Lag - 1

\* The longest time between two exchanges.
Silence == Interval + Wake + Lag - 1

\* Of the causes of the announcements, the changes of what there is to say and of
\* whom there is to tell and the failures, one is recent.
HasCause ==
  \/ \E e \in Entry : now - moved[e] <= Delay
  \/ \E n \in Neighbour : now - planMoved[n] <= Delay
  \/ lastFault # 0 /\ now - lastFault <= Delay

\* Every neighbour that has been one for a while has recently been sent every
\* record that has been announceable for a while, unless something has failed
\* since the exchange before: no combination of the caches, the two schedules
\* and the triggers loses a change or lets a record fall silent.
InformedInTime ==
  \A e \in Shown(held, now), n \in Reachable(plans) :
    /\ now - moved[e] > Delay
    /\ now - planMoved[n] > Delay
    /\ lastFault = 0 \/ now - lastFault > Silence
    => told[<<e, n>>] # 0 /\ now - told[<<e, n>>] <= Silence

\* Between two periodic exchanges the node sends only when something has changed
\* or failed: the triggers settle, and no change is announced for ever.
ExchangeHasCause ==
  [][lastExchange # 0 /\ lastExchange' # lastExchange /\ now - lastExchange < Interval
     => HasCause']_vars

\* What ION no longer holds, or what has ended, is announced for less than one TTL,
\* except in a turn whose refresh has failed.
NothingLongGone ==
  [][pc = "exchange" /\ Due
     => \A e \in Records \ Shown(held, now) : now - moved[e] < TTL \/ lastFault = now]_vars
=============================================================================
