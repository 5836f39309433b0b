# dtnex in TLA+

dtnex is a daemon that runs beside an ION node of a delay-tolerant network. It
announces the contacts and light-time ranges its own node is the source of, and
its metadata, learns those of the others, writes them into ION, and passes every
announcement on. This directory models it: TLA+ modules, TLC configurations that
check them on small instances, and proofs checked by TLAPS. `PROJECT.json` ties
each definition to the lines it stands for, each property to the runs that check
it and to a mutation of the code that breaks it.

    tlc -workers 2 -config range_endpoint.cfg MCRangeApply.tla   # likewise the other runs
    for m in Range ContactApply Flood Lifecycle Announce Common Wire LocalNode
    do tlapm ${m}Proofs.tla; done

## The system

| Component | State | Operations | Interacts with |
|---|---|---|---|
| Range application (`ion_contacts.c` 640-951) | ION's range index: asserted and imputed entries | `ionc_apply_range`: look up, `insertRange` or remove and reinsert, `pruneRedundantImputed` twice | ION, which the operator and ION's own clock write too |
| Contact application (470-625) | ION's contact index | `ionc_apply_contact`: look up, insert, revise, remove and reinsert | the same, and neighbour discovery |
| Flooding (`dtnex.c` 1945-2110, 2638-2664, 2863-3846) | nonce cache | decode, duplicate test, `processCbor*Message`, `forwardCbor*Message` | the same code on every other node; application |
| Announcement scheduling (520-1015, 2376-2630) | snapshots of own contacts and ranges, plan cache, last list and time | `getplanlist`, `refreshMy*`, `exchangeWithNeighbors`, `scheduleNextUpdate` | ION's indexes; flooding |
| CBOR codec (2117-2238, 2672-3363) | two cursors into a received bundle | encoders, decoder written by hand, `decodeCborMessage` | flooding |
| Authentication (1945-2075) | none | `generateNonce`, `calculateHmac`, `appendCborHmac`, `verifyHmac` | the codec |
| Metadata table (1030-1079, 3612-3650) | list of nodes and texts, and its count | `updateNodeMetadata` | written by the reception thread and by main, read by main, without a lock |
| Configuration (208-330) | `DtnexConfig` | `loadConfig`, flags | read by everything |
| Graph and lists (1284-1488) | one file being written | `createGraph`, `getContacts` | the metadata table |
| Lifecycle (19-110, 345-503, 1110-1163, 1668-1937, 2376-2633) | `running`, `ionConnected`, the two service states, thread handles | connect, start services, loop, check, re-exec, signal, teardown | four threads that share all of this; ION's endpoints |
| Bpecho service (1490-1665) | its endpoint, flag and attendant | echo a bundle | Lifecycle |
| Logging, build scripts, ION headers | | | see "Not modelled" |

What is hard here, and what makes each component correct:

- **Range and contact application** are sequences of transactions, not one.
  Between two of them the operator (`ionadmin`), ION's purge or discovery may
  change what the lookup saw, ION may refuse, the process may die. They are
  correct when a call amounts to one change of its own key that its outcome
  tells truly; when dtnex never disturbs a range the operator declared, never
  turns a range it learned into one it announces, and leaves no redundant
  imputed entry; when what goes on being announced ends up in ION; and when the
  order in which announcements arrive does not matter.
- **Flooding** has bundles lost, duplicated and reordered, a bounded cache, and
  relays that refuse or die. It is correct when everybody on a path of willing
  relays learns, nobody accepts a message twice, nothing comes back to its
  origin, nothing is invented on the way, and it stops by itself.
- **Announcement scheduling** combines two schedules, three caches with ages of
  their own and four triggers. It is correct when a change is announced within
  the time these allow, nothing falls silent, nothing is announced without a
  cause, and nothing long gone is announced.
- **Codec and authentication** read lengths and values of any width out of bytes
  that anybody may have sent, with two pairs of variables moved by hand. They
  are correct when no cursor leaves its buffer, what is applied is what was
  meant and signed, and every relay passes on what it received.
- **The metadata table** is correct when a reader never sees half an entry and no
  row is lost; **configuration** when the settings are what the file says; the
  **graph** when it names every known node once.
- **Lifecycle** has four threads that talk through three kinds of flags without
  a lock, two of which are parked in a blocking call of a library that can go
  away. It is correct when a termination signal ends the process, the teardown
  happens after every thread has left, and a restart of ION is survived.

`PROJECT.json` lists each hazard at its line, with the properties that would
catch it, or why none does.

## The modules

| Module | Models |
|---|---|
| `RangeIndex`, `ContactIndex` | ION's two indexes and the calls dtnex makes on them, from how `ion_contacts.c` relies on them (external) |
| `RangePromise`, `ContactPromise` | abstract specifications: a call as one atomic change with its outcome |
| `RangeApply`, `ContactApply` | the real calls, one action per SDR transaction, with the other writers, refusals, failures and death |
| `RangeOrder` | two receivers of the same announcements in two orders, over `RangePromise` |
| `Flood` | announcing, duplicate detection, application and relaying over a network of plans |
| `Announce` | main's turn on one node, with its caches and clock, while ION changes |
| `Cbor` | numbers, strings and cursors: what ION's encoder writes, what the hand-written decoder takes back |
| `MetadataTable` | `updateNodeMetadata` called by two threads |
| `Wire` | a message from a record through encoder, HMAC, decoder, handler and relay, along a chain; composes `Cbor` and `MetadataTable` |
| `Config` | `loadConfig`, line by line, as an operator on a sequence of symbols |
| `LocalNode` | one node's settings, endpoint, address book and graph; composes `Config` and `MetadataTable` |
| `Lifecycle` | the four threads of one process, with ION stopping and restarting |
| `*Proofs` | theorems about the module they are named after: `RangeProofs` about `RangeApply` and `RangeOrder`, `CommonProofs` about what `Wire` and `LocalNode` share, the items of `Cbor` and `MetadataTable` |
| `MC*` | the instances |

**State and code.** `RangeApply`: `ranges` is ION's `rangeIndex`; `pc`, `rec`,
`seen`, `outcome`, `pass`, `doomed` are the locals of `ionc_apply_range` and
`pruneRedundantImputed`; `oper`, `touched`, `failed` are history.
`ContactApply`: `contacts` is ION's `contactIndex`, `existing` the copy of phase
1; `touched` is history. `Flood`: `cache[n]` is `nonceCache`, `net` what ION
carries, `applied[n]` what was handed to ION, `expired` the clock; `accepted` is
history. `Announce`: `snapshot`, `updated`, `changed` are `myContacts`,
`myRanges` and their flags, `cachedPlans` the statics of `getplanlist`, `list`,
`lastPlanList`, `lastExchange` main's, `nextUpdate`, `wakeAt` its schedule;
`held` and `plans` are ION's; `told`, `moved`, `planMoved`, `lastFault` are
history. `Wire`: `cursor` and `extraction` are the two pairs (cursor,
bytesBuffered) of `decodeCborMessage`, `buffer` the bundle, `seen` the nonces;
`sent`, `applied`, `authentic` are history. `LocalNode`: `config` is
`DtnexConfig`, `endpoint` what `sap` is open on, `graph` the file being written.
`Lifecycle`: `mem` is the globals of `dtnex.c`, `main` and `signaller` say which
call of the loop or of `signalWaitThread` is next, `thread` and `parkedOn` are
the service threads; `queue`, `wake`, `ion` and `era` are ION; `requested`,
`raced`, `replaced` are history.

**Grain.** A step of `RangeApply` and `ContactApply` is one transaction; a step
of `Flood` is one bundle, because the reception thread handles it alone and the
cache belongs to it; a step of `Announce` one read or one exchange of main; a
step of `Wire` is one item of a message, or one of the four of
`updateNodeMetadata`; a step of `LocalNode` one line of the file, one row of the
table; a step of `Lifecycle` ends at a write of a shared flag, a call that
blocks, or a call of ION.

**Composition.** `RangeOrder` puts two receivers over `RangePromise`, `Wire` and
`LocalNode` extend `MetadataTable` with those who call it. The others meet in
what one takes from another: `Flood` applies an announcement in one step, which
is what `RangeApply` and `ContactApply` show of a call; it takes messages as
authentic and identical at every hop, which is what `Wire` shows; `Announce`
takes it that dtnex's own writes leave its own snapshot alone, which is
`OwnRangesUntouchedUnlessRaced`; the table's callers exist in the order that
`Lifecycle` starts threads in.

**What is assumed of ION** (external definitions; the header of each module says
it again): asserting a canonical range imputes its reverse without the overlap
scan; an imputed entry under the inserted key is deleted before the scan may
still refuse; removing a canonical range takes its imputed reverse along; a
contact with an overlapping window, of a foreign region, or under a key already
held is refused; an interrupt of an endpoint nobody reads is kept; calls on a
handle opened before ION stopped fail. Whether the overlap scan counts imputed
entries is not said in this repository, hence the constant `ScanSeesImputed`.

## The runs

| Run | Question | Bounds |
|---|---|---|
| `range_endpoint` | may an endpoint of a link, applying what it learns while its operator types, come to announce or to lose an own range? | 2 nodes, 3 instants, 2 light times, 2 records, 2 edits |
| `range_relay` | are outcome, index and pruning of a third party what the header promises, failures and a death included? | as above, 3 records, 1 edit |
| `order_three` | do receivers hold the same canonical ranges in any order, and the same altogether where they asserted the same? | 3 records, 4 instants, 2 receivers, a scan that counts imputed entries |
| `order_touch` (violation) | "checking both makes the result independent of the order in which messages arrive" | the same, with a scan that does not |
| `contact_apply` | is a call one atomic change of its key, does the refresh leave ION alone, does what is repeated end up in ION? | 2 nodes, 2 regions, 3 instants, 3 confidences, 2 edits, 1 old announcement, 1 fault |
| `flood_reach` | does everybody learn, does it die out, is each message accepted once? | diamond of 4, 1 record, 1 fault |
| `flood_window` | what does a full cache forget, who applies what? | triangle and a source, 2 records, cache of 1, 1 refusal, 1 fault |
| `announce` | is every change announced in time, and nothing else? | 4 entries, 1 place per snapshot, 2 edits, 1 fault, 8 ticks |
| `wire` | is what is applied what was meant and signed, at every hop, and does no walk leave its buffer? | chain of 4, the code's own sizes, 2 bundles, 2 faults, 2 rows, 2 connections |
| `local_node` | are the settings those of the file, does the node receive where it sends, does the graph name every node once? | files of up to 3 lines, clear and unclear, a buffer of 12 symbols, 2 connections, 3 messages, 2 graphs |
| `life_stop` | does a signal end the process, is the teardown outside the threads, is ION found again? | 2 signals, 1 stop of ION, 1 bundle, 1 failing call |
| `life_hang` (violation) | "without these ... the join would never return" | 1 signal |

Why these are enough.

- *Ranges.* Two nodes make one link, and range application looks at one pair
  and its reverse only. Three instants give windows that are disjoint, touching,
  nested and equal; the order runs take four so that two disjoint windows may
  have a gap. Two edits in one call are one before and one after any transaction
  of it, and one is what each race needs. Three records chain an assertion, an
  imputation and a later assertion over it.
- *Contacts.* The confidences 500, 504, 510 against 50 and 51 hundredths stand on
  both sides of the tolerance; the second region is one ION refuses; the old
  announcement has another window and so forces removal and reinsertion. Two
  edits may delete and re-add a key behind the lookup, or change its type.
- *Flooding.* In the diamond two paths meet at a node and two relays are linked,
  so that duplicates cross and a loop exists; two announcements and a cache of
  one are the smallest case in which the cache is exceeded.
- *Announcements.* One place for two contacts makes them compete, so that a
  snapshot changes while its count does not; the range ends during the run. The
  tick is half a sleep. `Silence` = Interval + Wake + Lag - 1 = 5 and `Delay` =
  TTL + Wake + Lag - 1 = 4 are both smaller than the 8 ticks, so that
  each bound can be exceeded.
- *Wire.* Node numbers of one to eight bytes, numbers at each change of width,
  texts at each limit and at the length where the encoding of a length changes;
  every prefix of two bundles and every byte of them replaced by heads of other
  types and widths; data arrays of every size the decoder knows and of those it
  does not. Two bundles let a nonce come twice, two rows let the table fill up.
- *Settings.* Each setting with each value, in several spellings, and pairs in
  either order for those whose lines interact; values that hold a `#`, are left
  out or are longer than their array; remarks longer than the buffer, of which one
  is cut just before what looks like a setting and one behind its name.
- *Lifecycle.* The second signal is the forced exit, one stop of ION at any
  moment includes all of its positions relative to the signal, one bundle covers
  a thread at work and the status check taking it, one failing call the error
  paths of each start. Two slots per service are a thread and its successor; a
  third would need a second outage.

`CHECK_DEADLOCK FALSE` everywhere: a process may end, every run's traffic and
edits are bounded, and nothing then remains to do.

**Fairness.** `Flood`: each node's send loop runs to its end, and its reception
thread takes bundles from ION in order, hence weak fairness per node and per
record; no fairness of faults or of expiry. `ContactApply`: a call that has
begun goes on, and the sources announce their records in every interval, whatever
comes between: strong fairness of the lookup of each record that stays current;
none of the other writers. `Lifecycle`: weak fairness of each thread; no
fairness of ION, of the operator or of arrivals. Nothing in dtnex holds the
processor and nothing waits for another thread but the two joins, which are
guards. `Announce` measures time instead: its bounds are safety properties of a
clock, in which a turn of main takes up to `Lag`.

## What the code does against its own words

Each is a violation run and a finding.

1. `order_touch`: two consecutive ranges of one direction and one of the other,
   none in conflict, leave receivers that learned them in two orders with
   different windows. An identical imputed entry is left imputed, and windows that
   touch are pruned as overlapping. It needs no assumption on ION's scan.
2. `life_hang`: a signal collected while the bpecho service is being started is
   lowered and raised again, nobody wakes the thread, and main joins it for
   ever. `SignalEndsTheProcessUnlessRaced` names all the exceptions the checked
   instance has.

Other limits of what the documents and comments say are written into the
properties, and listed as hazards:

- The pruning removes by key what a closed transaction saw as imputed, so an own
  range asserted in between is removed: `OwnRangesUntouchedUnlessRaced`. In the
  same way NOOP may hide a deletion by ION if the key became imputed since the
  lookup: `NoopRemovesNothingUnlessRaced`. Both are proved.
- More live announcements than cache entries circulate until they expire.
  `NoLoopWithinCache` proves that detection prevents loops below that limit,
  `CacheForgetsLate` what holds above it.
- The worst delay of a change is not one TTL, as the comment at `dtnex.c` 702
  has it, but a TTL and a sleep: `Delay`.
- A service started while its predecessor is still busy (`replaced`: its handle
  is overwritten, and the old bpecho thread may close the endpoint of the new
  one), and a re-exec after a collected signal (`raced`).
- A position with one coordinate zero is not passed on, a text of the greatest
  length the sender allows is not accepted, and the encoders ignore the size of
  their buffer: texts of more than 50 bytes together may overrun it
  (`FitsUnlessTextsAreLong` gives the exact border).
- The service numbers of the configuration count for the first endpoint only
  (`ListensWhereItSendsUnlessRenamed`), createGraph and noMetadataExchange cannot
  be turned off by a later line, a line too long for the buffer is read as several,
  of which the later ones may be settings though it was a remark, and a `#` within
  quotes ends a value (`SettingsAsWritten`, which says for each file which settings
  such a line reaches and that the others are safe from it), and the total of the node list counts the node itself
  twice when it shares metadata (`GraphNamesEachNodeOnce`).
- On two settings that a file leaves out the documents are at odds with the code or
  with each other: `src/README.md` 188 says that `graphFile` is `contactGraph.png`,
  where `dtnex.c` 224 sets `contactGraph.gv`, and `docs/spec_dtnex_v3.md` 422 that
  the interval is thirty minutes, where `dtnex.c` 215 and `src/README.md` 179 have
  600 s. `SettingsAsWritten` compares the other settings left out with what
  `src/README.md` says (`Documented`, written down apart from `Defaults`) and says
  nothing of these two; of the coordinates and of the echo's service the documents
  name no value.

## What is proved

All for every value of the constants, from the named assumptions
(`IndexAssumption`, `ApplyAssumption`, `ContactAssumption`, `FloodAssumption`,
`LifecycleAssumption`, `AnnounceAssumption`, `TableAssumption`, `WireAssumption`,
`ConfigAssumption`, `FilesAssumption`, `LocalNodeAssumption`), which say that the
parameters are of their kinds and the bounds natural numbers; that of the files that
a line is described by where its blanks and quotes stand, blanks and quotes at both
ends of a value being the value's only within quotes, and that a name is one symbol;
that of `LocalNode` that nobody else's
metadata name this node, since a node announces its own number and skips what comes
back (`dtnex.c` 3615); that of `Announce` also that the
plans are read again no later than the snapshots (20 s against 60 s in the code).

**Ranges** (`RangeProofs`). `TypeCorrect`, then `Inductive`: the invariant
`IInv`. The properties are not inductive alone: that an announcement is
configured needs that what the pruning removes and the insertion writes is not
an own asserted key; that a loss is reported needs to know, at the moment of
the write, that the lookup still tells the truth unless somebody touched the
key (`LookupStillTrue`), that no outcome is set before the answer
(`OutcomeOfStage`), and that the record is held throughout the pruning
(`InsertedIsHeld`), for which what was condemned must still be imputed or
touched (`DoomedIsImputed`). From `IInv` follow `AnnouncementsAreConfigured`,
`RemovalsAreTargeted`, `SuccessIsHeld`, `LossesAreReported`, and the action
properties `SnapshotNeedsNoInvalidation` and `NoopWritesNothing`. The lemmas
before it say what `InsertRange` and `RemoveRange` may change.

**Ranges, the promise** (`RangeProofs`), as long as no pair can have more
entries than `IONC_MAX_PRUNE_SCAN`, which is so if there are no more instants.
`CallsAreAtomic`: from the insertion to the return, what the index holds without
`Left`, what the pruning is still to take away, is the index promised; each scan
and each removal leaves that `Target` as it is. A removal takes nothing else
along because no canonical key ever holds an imputed entry (`ReversesOnly`), and
a scan finds what the promise calls redundant because the entries of a pair
have different start times (`ScanFinds`). `NothingRedundantIsLeft` holds with
others writing, too: what they leave alone and is redundant in a direction
already scanned is on the list to be removed (`CondemnedIfRedundant`).

**Ranges, in any order** (`RangeProofs`), for any receivers and number of
announcements and whatever the overlap scan counts. What is in flight at the
beginning is no variable, so that `Explained` speaks of some set of compatible
records: an index is what the records learned of it make of it in any order. Each
asserted entry is one of them and every canonical one is there, each imputed entry
is the reverse of a canonical one, nothing redundant has survived, and a
reverse is missing only where a record of its pair meets it. Two receivers that have
learned all of the same set therefore agree on the canonical keys
(`CanonicalAgreement`) and differ elsewhere only near what one of them did not
assert (`OrderHardlyMatters`).

**Contacts** (`ContactApplyProofs`). `Refinement`: `ContactApply` implements
`ContactPromise`. The mapping shows, while a call runs, the entry that the lookup
found in the place of whatever its transactions have made of the key; the steps
between are then stutters and the return is the promised change. It rests on
`Inductive`: as long as nobody else writes the key, the call's copy and the
index agree before the first write (`WriteStage`), and the key is empty between
removal and reinsertion (`ReinsertStage`). A key written by others is shown as
it is, and the promise says nothing of it. `RefreshWritesNothing` (`NoChurn`): what a
receiver makes of a contact ION already has, confidences rounded, differs from it in
nothing that is written.

**Flooding** (`FloodProofs`), over any graph of plans, policy, cache size and
number of faults. Provenance: every bundle carries what its origin announced
and is not on its way back to it (`ProvenanceOfBundles`, `OriginIsNeverToldBack`,
`ProvenanceOfRecords`). Cache: it is the end of the process's history and is cut
only when full, so that `MaxCache` other acceptances lie between two of one key
(`CacheForgetsLate`); if no more keys are announced than the cache holds, a
window of `MaxCache + 1` acceptances would need as many different keys, and by
the pigeonhole principle no key is accepted twice (`NoLoopWithinCache`).

**Announcements** (`AnnounceProofs`). `TypeCorrect`, and
`NothingLongGoneIsAnnounced` from `GoneInv`: no clock is ahead of `now`; what a
snapshot holds and ION does not show has moved since that snapshot was taken
(`Traced`), which takes the competition for places into account; and a snapshot
is younger than its TTL, or its refresh has failed this very turn, once main
has passed its refresh (`RefreshedInTurn`).

`EveryoneIsInformedInTime` and `ExchangesHaveCauses` need the converse as well
(`TimeInv`). Main's turns follow each other within a sleep and a lag, and the last
turn came less than an interval after the last exchange, although the two
clocks of the schedule are set at different places (`Punctual`). Whatever differs
between a snapshot or the cache of plans and ION has moved since it was read
(`SnapshotTraced`, `CacheTraced`); at the last turn neither was old
(`SnapshotsKept`, `PlansHeard`: the cache may meanwhile have been refreshed by
the reception thread, so that both are compared with the list in use); what a snapshot
holds has been said, or is new and marks the exchange to come
(`SnapshotsSaid`); and such a mark has a recent cause (`TriggersHaveCause`). Each
allows for a failure since.

**Codec** (`CommonProofs`). `HeadRoundTrip` and `TextRoundTrip`: what
is encoded is what is decoded, for every number below 2^64 and every text up to
65535 bytes that its array can hold, wherever they stand. On them rests that a
message is a row of items: `Spelt` says of bytes that they are the first so many
items of a list, one behind the other, `AtItem` of a cursor that it stands at one
of them, and the lemmas that each reader steps from item to item. Each of the three
records, with each of the layouts of metadata, is spelt by its `Items`
(`MessageSpelt`). The texts are those of the configuration as `parseNodeMetadata`
cuts them, which the numbers of bytes allow to be any.

**Messages** (`WireProofs`). The invariant is in three parts.
`DecoderInv`: what is at and what is left of each cursor add up to the buffer, and the
two walks agree while extracting; with it `DecoderStaysInside` and
`WalksStayTogether` hold of a bundle of any length and content.
`TypeInv`: `TypeOK` is not inductive, because what the handler is handed depends on
how far the envelope and the fields have been read: the values read so far are the
first of their layout, each of its type (`HeadHas`, `ValuesOK`), so that whatever
passes the decoder is a record (`WireTypes`).
`ToldInv`: what a message says. `Told` is the message under way as the last node had
it; the buffer is its encoding (`BufferTold`), the cursor stands at the item the
decoder thinks it reads (`CursorTold`), what was read so far is what the message
says (`HeadTold`, `FieldsTold`), and each relay passes on what it applied
(`AppliedTold`), but for a position with one coordinate, `Passed`. From the three
together (`ChainInv`) follow `FirstGetsWhatWasMeant`, `AllNodesAgree`,
`RefusesForCauseOnly`, `AcceptsWhatIsSigned` and `MessagesFit`. Their premises are
about constants. `HmacShape`, of all of them: an HMAC has `DTNEX_HMAC_SIZE` bytes.
`Unforgeable`, of the fourth: no HMAC is all zeros, and no stray bundle holds the
right HMAC over bytes of its own; both are what HMAC-SHA256 is relied on for, and are
true of the instance that is checked. `CodeSizes`, of the fifth: version, nonce, HMAC and
buffer have the sizes of `dtnex.h`, from which 128 = 36 + 83 + 9 leaves fifty bytes
to the texts.

`SignatureVouchesForOne` says of the bytes an HMAC is computed over that they belong
to one sender and one announcement: two that differ, be it in a text that ends
earlier and a next one that begins earlier, never sign the same bytes. Item by item, what
is at a cursor is determined by the bytes (`ItemIsRead`), so that two rows of items which
spell the same bytes are the same row (`SameItems`); the eight items of the envelope
give back the envelope, the head of the array gives the number of fields, and among the
layouts of a kind that number is enough to tell which fields they are (`LayoutOnce`).
What is left open is a position with a coordinate zero, of which no bytes are sent.

**Address book** (`CommonProofs`, then `WireProofs` and `LocalNodeProofs`).
`AddressBookIsSound` and `BookIsSound`. Nothing in
`updateNodeMetadata` makes two parallel calls harmless; what does is
`OwnBeforeOthers`: the own row is in the list, or being entered with the
reception thread not yet started, whenever the node shares metadata. With
`CallsOK` (a slot being overwritten is that node's row) and `InTurn` (who may be
appending) this is inductive, for any number of rows and connections. `restartDtnex`
begins with an empty book, and until main has connected it stays `Fresh`, so that the
flags of the command line may still decide whether the node shares.

**Settings and graph** (`LocalNodeProofs`), for any files, messages and sizes.
`ListensWhereItSends`: from the end of init the numbers are those of the release, and
an endpoint that is open was opened by init, or with those numbers (`ServiceInv`; a line
of the file gives settings values and adds none, `LoadKeeps`). `GraphNamesNodes`:
while main writes the graph it has no call of its own, so that the book only grows, by
rows of others (`BookGrows`), and the rows passed keep their numbers. What is drawn is
therefore the first rows of the book as it is now (`DrawnSoFar`, `DrawnRows`), the lines
are those of the rows before the one the list is at, once each (`LinesOf`), and the total
lies between the rows listed and the rows there are. `SettingsAreAsWritten`, for every
file of any number of lines: first what each step of `loadConfig` makes of a text
(`BlanksSkipped`, `TokenTaken`, `RemarkCut`, `EndTrimmed`, `ValueBack`), from which a
clear setting says its name and its value however it is spelled (`SettingSays`) and a
remark says nothing; and of any text at all, that the name it sets is made of
characters of that text (`KeyWithin`), so that a line that is not clear, or a piece of
one, touches no setting but those it spoils (`Touches`, `UnclearWrites`). Then that
`fgets` returns a line that fits whole (`NextLine`) and otherwise a piece that ends
within the line (`LineCut`). The invariant `LoadInv` is `Progress`: the file is some of
its lines, the rest of a line that did not fit, if any, and lines not begun; and every
setting that no line spoils is what the lines begun say of it (`AsWritten`). A clear
line keeps this by writing its own setting (`ClearWrites`), any other piece by leaving
those settings alone (`PieceWrites`). The text of a file is defined by recursion over
its lines; that such a function exists is shown by a least counterexample (`UpToIs`),
in place of the induction theorems.

**Lifecycle** (`LifecycleProofs`). `TypeCorrect`, for which the delivery queues
have to be bounded by what has come; and `TeardownIsSafe`, from: unless a handle
was overwritten, the only live thread of a service is the one its handle names
(`OnlyTheHandle`), and main has seen it end before each later call of the
teardown (`EndedSoFar`). `NoThreadIsStranded` (`NobodyIsStranded`) needs to know
why the two wake-ups that depend on the connection are not skipped: whoever
holds a handle of the present run of ION is connected, but for the step between
`bp_open` and the flag (`ConnectedWhileHolding`), so that a status check or an
exchange that disconnects finds nobody waiting; and the handle bpecho waits on
is the one the interrupt names (`EchoCanBeWoken`). In that one step the signal
thread does skip the reception thread's wake-up, and main's own, at the join,
makes up for it (`ReceptionIsTold`).

**Only model-checked.** Liveness (`EveryoneLearns`, `Quiesces`, `Heals`,
`SignalEndsTheProcess...`, `Reattaches`): TLAPS handles neither ENABLED nor
fairness.

## Not modelled

- *Time.* Only `Announce` measures it. Elsewhere retry delays (10, 60, 300 s),
  the interval and the sleep are choices of the model.
- *HMAC-SHA256* is a function of key and bytes; nothing is said about forging it.
- *Flood* takes nonces as distinct; that three random bytes may collide is in
  `Wire`, where the second message is refused, and is a loss until the next
  interval.
- *Wire* has one bundle under way; that the walk which extracts and the one that
  skips to the HMAC are made one after the other is not seen, both being
  pure. The address book is that of the first receiver. How far a `strncpy` has
  come when another thread reads the row is left out.
- The runs of *RangeApply*, and the theorems about its pruning, keep `MaxScan` at
  or above the size of a pair: what is left behind by a scan of more than sixteen
  entries is not described.
- *The number of the node* is the constant `Own`. In the code each connection reads
  it from ION again (`dtnex.c` 386), and it is 0 until the first has (494): a graph
  written before says `ipn:0` where the model has `Own`. That ION comes back under
  another number without `getContacts` noticing it first, and so without a new
  process, is outside the model; main would then append a row for the new number
  beside a reception thread that is running, which is what `OwnBeforeOthers` excludes.
- *The loss of a bundle taken by the status check*, and of what a full
  array drops, is a fault of `Flood`; that several endpoints may stop one after
  another under one process (`dtnex.c` 1724) is ION's behaviour.
- *Texts.* Escaping for the graph, which may make five characters of one in an array of
  twice the length, layout, the columns of the contact table, the edges taken from
  `ionadmin`, a file that cannot be opened, the truncation of a coordinate, a
  lone quote as the value of a setting, and `nodesmetadata.txt`, which both
  threads write.
- *Logging* writes only. The echo of bpecho keeps no state; its thread is in
  `Lifecycle`. Build scripts and those of ION's headers that dtnex does not use
  are not code of the program.

## Plan

Done: ranges and their order; flooding; lifecycle; contacts; announcements;
codec, authentication and address book; settings and graph; the proofs above.
Left, in this order:

1. A network of nodes that refines "everybody holds what the sources announce":
   `Flood` with `RangePromise` and `ContactPromise` at every node.
2. Two bundles under way in `Wire`, and a restart of a relay between them.
