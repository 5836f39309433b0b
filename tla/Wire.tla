-------------------------------- MODULE Wire --------------------------------
(***************************************************************************)
(* A message from the record its origin announces to the records applied   *)
(* along a chain of nodes: the encoders of dtnex.c, decodeCborMessage read *)
(* item by item, the check of the HMAC, the hand-over to the handler of    *)
(* its kind, and the encoding again under another "from".  The address     *)
(* book of the first receiver is MetadataTable.                            *)
(*                                                                         *)
(* One bundle is under way at a time: what many do to each other is Flood, *)
(* what the handlers do to ION is ContactApply and RangeApply.  The HMAC   *)
(* is a function of the key and the bytes.  The walk that extracts the     *)
(* values and the one that finds the HMAC are both pure and are taken      *)
(* together, an item at a time; the code makes the first before the other. *)
(***************************************************************************)
EXTENDS Cbor, MetadataTable

CONSTANTS
  Chain,        \* the node numbers a message visits, its origin first
  Key,          \* config->presSharedNetworkKey
  Hmac(_, _),   \* HMAC-SHA256 of a key and bytes, cut to DTNEX_HMAC_SIZE
  Announced,    \* what the origin may announce: records of ION's, and its own metadata
  Later,        \* what it may announce next
  Stray,        \* other bundles: their bytes, and whether Key signed them
  Nonce,        \* what generateNonce may draw
  Now,          \* time(NULL)
  DTNEX_PROTOCOL_VERSION, DTNEX_NONCE_SIZE, DTNEX_HMAC_SIZE, MAX_CBOR_BUFFER,
  MAX_NODE_NAME_LENGTH, MAX_CONTACT_INFO_LENGTH, MAX_LOCATION_LENGTH, MAX_LINE_LENGTH,
  MaxBundles,   \* bound: bundles
  MaxFaults     \* bound: failures of the HMAC and of sends

\* The type field is one character: c, r or m.
ContactType == 99
RangeType == 114
MetadataType == 109

Bytes == Seq(Byte)

ContactFields == [regionNbr: Vast, fromNode: Vast, toNode: Vast, fromTime: Vast, toTime: Vast,
                  xmitRate: Vast, confidence: Vast]
RangeFields == [fromNode: Vast, toNode: Vast, fromTime: Vast, toTime: Vast, owlt: Vast]
MetadataFields == [nodeId: Vast, name: Bytes, contact: Bytes, location: Bytes,
                   latitude: Vast, longitude: Vast]

Fields(kind) == CASE kind = ContactType -> ContactFields [] kind = RangeType -> RangeFields
                  [] OTHER -> MetadataFields

Limit(field) == CASE field = "name" -> MAX_NODE_NAME_LENGTH
                  [] field = "contact" -> MAX_CONTACT_INFO_LENGTH
                  [] OTHER -> MAX_LOCATION_LENGTH

Texts == {"name", "contact", "location"}

Sizes == {DTNEX_PROTOCOL_VERSION, DTNEX_NONCE_SIZE, DTNEX_HMAC_SIZE, MAX_CBOR_BUFFER,
          MAX_NODE_NAME_LENGTH, MAX_CONTACT_INFO_LENGTH, MAX_LOCATION_LENGTH, MAX_LINE_LENGTH}

\* The types of the members: regions, confidences and light times are unsigned
\* ints, a position is two ints, and a text has no zero byte.
ContactRecord ==
  {f \in ContactFields : UInt32(f.regionNbr) = f.regionNbr /\ UInt32(f.confidence) = f.confidence}
RangeRecord == {f \in RangeFields : UInt32(f.owlt) = f.owlt}
Degrees == {v \in Vast : Int32(v) = v}
Text == Seq(1..255)

Announceable(a) ==
  \/ a.kind = ContactType /\ a.fields \in ContactRecord
  \/ a.kind = RangeType /\ a.fields \in RangeRecord
  \/ /\ a.kind = MetadataType
     /\ a.nodemetadata \in Seq(Text)   \* the pieces between its commas
     /\ a.expire \in Vast /\ a.latitude \in Degrees /\ a.longitude \in Degrees

ASSUME WireAssumption ==
  /\ Chain \in Seq(Vast) /\ Len(Chain) >= 2
  /\ Own = Chain[2]
  /\ Later \subseteq Announced
  /\ \A a \in Announced : Announceable(a)
  /\ \A s \in Stray : s.bytes \in Bytes /\ s.signed \in BOOLEAN
  /\ Nonce \subseteq [1..DTNEX_NONCE_SIZE -> Byte]
  /\ Now \in Vast
  /\ \A n \in Sizes : n \in Nat /\ 2 <= n /\ n < 65536
  /\ DTNEX_HMAC_SIZE < 24
  /\ {MaxBundles, MaxFaults} \subseteq Nat

VARIABLES
  buffer,      \* the bytes of the bundle
  hop,         \* the place in the chain of the node that has it
  stage,       \* what that node does with it
  cursor,      \* cursor and bytesBuffered
  extraction,  \* extractCursor and extractBytesBuffered
  index,       \* the item under the cursors, from 1
  head,        \* the envelope as far as it is decoded
  layout,      \* the fields the data array is taken to hold, in order
  extracting,  \* no field has been missed so far; after the last: hasExtractedData
  values,      \* the extracted values
  seen,        \* nonceCache of each node
  sent,        \* history: what the origin announced, with its nonce
  authentic,   \* history: the HMAC under way was computed with Key
  applied,     \* history: what each node in turn handed to its handler
  bundles, faults

walk == <<cursor, extraction, index, head, layout, extracting, values>>
histories == <<sent, authentic, applied>>
vars == <<buffer, hop, stage, walk, seen, histories, bundles, faults, tableVars>>

Nothing == [kind |-> "none"]

-----------------------------------------------------------------------------
\* What tryConnectToIon and exchangeWithNeighbors make of the line nodemetadata
\* of the configuration: strtok takes runs of commas for one.
Blank == 32

Trimmed(s) ==
  LET start == CHOOSE i \in 1..(Len(s) + 1) :
                 /\ \A j \in 1..(i - 1) : s[j] = Blank
                 /\ i <= Len(s) => s[i] # Blank
  IN SubSeq(s, start, Len(s))

Cut(s, max) == IF Len(s) > max - 1 THEN SubSeq(s, 1, max - 1) ELSE s

\* The place of the next piece that is not empty, or the place past the last.
strtok(raw, last) ==
  LET ahead == {j \in 1..Len(raw) : j > last /\ raw[j] # <<>>}
  IN IF ahead = {} THEN Len(raw) + 1 ELSE CHOOSE j \in ahead : \A i \in ahead : j <= i

parseNodeMetadata(raw) ==
  LET first == strtok(raw, 0)
      second == strtok(raw, first)
      third == strtok(raw, second)
      field(i, max) == IF i <= Len(raw) THEN Cut(Trimmed(raw[i]), max) ELSE <<>>
  IN [name |-> field(first, MAX_NODE_NAME_LENGTH),
      contact |-> field(second, MAX_CONTACT_INFO_LENGTH),
      location |-> field(third, MAX_LOCATION_LENGTH)]

-----------------------------------------------------------------------------
\* The encoders.
writeCborEnvelope(e, from) ==
  EncodeArrayOpen(9) \o EncodeInteger(Small(DTNEX_PROTOCOL_VERSION)) \o EncodeText(<<e.kind>>)
    \o EncodeInteger(e.timestamp) \o EncodeInteger(e.expire) \o EncodeInteger(e.origin)
    \o EncodeInteger(from) \o EncodeBytes(e.nonce)

ContactPayload(f) ==
  EncodeArrayOpen(7) \o EncodeInteger(f.regionNbr) \o EncodeInteger(f.fromNode)
    \o EncodeInteger(f.toNode) \o EncodeInteger(f.fromTime) \o EncodeInteger(f.toTime)
    \o EncodeInteger(f.xmitRate) \o EncodeInteger(f.confidence)

RangePayload(f) ==
  EncodeArrayOpen(5) \o EncodeInteger(f.fromNode) \o EncodeInteger(f.toNode)
    \o EncodeInteger(f.fromTime) \o EncodeInteger(f.toTime) \o EncodeInteger(f.owlt)

HasLocation(f) == f.location # <<>>
HasGPS(f) == f.latitude # Zero /\ f.longitude # Zero

MetadataElements(f) == 3 + (IF HasLocation(f) THEN 1 ELSE 0) + (IF HasGPS(f) THEN 2 ELSE 0)

MetadataPayload(f) ==
  EncodeArrayOpen(MetadataElements(f)) \o EncodeInteger(f.nodeId)
    \o EncodeText(f.name) \o EncodeText(f.contact)
    \o (IF HasLocation(f) THEN EncodeText(f.location) ELSE <<>>)
    \o (IF HasGPS(f) THEN EncodeInteger(f.latitude) \o EncodeInteger(f.longitude) ELSE <<>>)

Payload(kind, f) ==
  CASE kind = ContactType -> ContactPayload(f)
    [] kind = RangeType -> RangePayload(f)
    [] OTHER -> MetadataPayload(f)

NullHmac == [i \in 1..DTNEX_HMAC_SIZE |-> 0]

\* appendCborHmac: when the computation fails a null HMAC is appended.
appendCborHmac(bytes, computed) ==
  bytes \o EncodeBytes(IF computed THEN Hmac(Key, bytes) ELSE NullHmac)

Encode(e, f, from, computed) ==
  appendCborHmac(writeCborEnvelope(e, from) \o Payload(e.kind, f), computed)

-----------------------------------------------------------------------------
Init ==
  /\ buffer = <<>> /\ hop = 1 /\ stage = "idle"
  /\ cursor = Start(<<>>) /\ extraction = Start(<<>>) /\ index = 1
  /\ head = Nothing /\ layout = <<>> /\ extracting = FALSE /\ values = Nothing
  /\ seen = [i \in 1..Len(Chain) |-> {}]
  /\ sent = Nothing /\ authentic = FALSE /\ applied = <<>>
  /\ bundles = 0 /\ faults = 0
  /\ TableInit

Faulty(ok) ==
  /\ ~ok => faults < MaxFaults
  /\ faults' = IF ok THEN faults ELSE faults + 1

\* A message longer than its buffer overruns it: the process dies or goes on.
Encoded(bytes, computed) ==
  /\ buffer' = bytes
  /\ authentic' = computed
  /\ stage' \in {"encoded"} \cup (IF Len(bytes) > MAX_CBOR_BUFFER THEN {"dead"} ELSE {})
  /\ UNCHANGED <<walk, tableVars>>

\* A contact or a range of ION's, or the metadata of the configuration.
FieldsOf(a) ==
  IF a.kind # MetadataType THEN a.fields
  ELSE LET parsed == parseNodeMetadata(a.nodemetadata)
       IN [nodeId |-> Chain[1], name |-> parsed.name, contact |-> parsed.contact,
           location |-> parsed.location, latitude |-> a.latitude, longitude |-> a.longitude]

\* A contact and a range are of use until they end, metadata for its lifetime.
ExpireOf(a) == IF a.kind = MetadataType THEN a.expire ELSE a.fields.toTime

\* encodeCbor*Message at the origin, for one neighbour of exchangeWithNeighbors.
Announce ==
  /\ stage = "idle" /\ bundles < MaxBundles
  /\ \E a \in (IF bundles = 0 THEN Announced ELSE Later), n \in Nonce, computed \in BOOLEAN :
       LET e == [kind |-> a.kind, timestamp |-> Now, expire |-> ExpireOf(a),
                 origin |-> Chain[1], nonce |-> n]
       IN /\ Encoded(Encode(e, FieldsOf(a), Chain[1], computed), computed)
          /\ Faulty(computed)
          /\ sent' = [envelope |-> e, announced |-> a]
  /\ hop' = 1
  /\ applied' = <<>>
  /\ bundles' = bundles + 1
  /\ UNCHANGED seen

\* sendCborBundle: nobody keeps a message that ION does not take.
sendCborBundle ==
  /\ stage = "encoded"
  /\ \E ok \in BOOLEAN : stage' = (IF ok THEN "flying" ELSE "idle") /\ Faulty(ok)
  /\ UNCHANGED <<buffer, hop, walk, seen, histories, bundles, tableVars>>

\* A bundle for the same endpoint from elsewhere.
StrayArrives ==
  /\ stage = "idle" /\ bundles = 0 /\ MaxBundles > 0
  /\ \E s \in Stray : buffer' = s.bytes /\ authentic' = s.signed
  /\ stage' = "flying" /\ hop' = 1 /\ bundles' = 1
  /\ sent' = Nothing /\ applied' = <<>>
  /\ UNCHANGED <<walk, seen, faults, tableVars>>

\* runBundleReception and processCborMessage; the first receiver may not be up yet.
Receive ==
  /\ stage = "flying"
  /\ hop = 1 => receiving
  /\ hop' = hop + 1
  /\ stage' = IF Len(buffer) \in 1..(MAX_LINE_LENGTH - 1) THEN "envelope" ELSE "idle"
  /\ cursor' = Start(buffer) /\ index' = 1 /\ head' = Nothing
  /\ UNCHANGED <<buffer, extraction, layout, extracting, values, seen, histories, bundles,
                 faults, tableVars>>

-----------------------------------------------------------------------------
\* decodeCborMessage: the eight items before the data, with ION's decoders.
EnvelopeName ==
  <<"array", "version", "kind", "timestamp", "expire", "origin", "from", "nonce">>

StringValue == [i \in 1..SkipLength(buffer, cursor) |->
                  buffer[AfterHead(buffer, cursor).at + i - 1]]

EnvelopeItem ==
  LET name == EnvelopeName[index]
  IN CASE name = "array" -> HeadAt(buffer, cursor, ArrayOpen, 0..27)
                              /\ Argument(buffer, cursor) = Small(9)
       [] name = "version" -> IntegerAt(buffer, cursor)
                              /\ IntegerValue(buffer, cursor) = Small(DTNEX_PROTOCOL_VERSION)
       [] name = "kind" -> /\ HeadAt(buffer, cursor, TextString, 0..27)
                           /\ Skippable(buffer, cursor)
                           /\ SkipLength(buffer, cursor) <= 1
       [] name = "nonce" -> /\ HeadAt(buffer, cursor, ByteString, 0..27)
                            /\ Skippable(buffer, cursor)
                            /\ SkipLength(buffer, cursor) = DTNEX_NONCE_SIZE
       [] name = "expire" -> IntegerAt(buffer, cursor)
                              /\ ~Precedes(IntegerValue(buffer, cursor), Now)
       [] OTHER -> IntegerAt(buffer, cursor)

EnvelopeValue ==
  IF EnvelopeName[index] \in {"kind", "nonce"} THEN StringValue
  ELSE IntegerValue(buffer, cursor)

ReadEnvelope ==
  /\ stage = "envelope"
  /\ EnvelopeItem
  /\ head' = [name \in {EnvelopeName[i] : i \in 1..index} |->
                IF name = EnvelopeName[index] THEN EnvelopeValue ELSE head[name]]
  /\ cursor' = AfterSkip(buffer, cursor)
  /\ index' = index + 1
  /\ stage' = IF index = Len(EnvelopeName) THEN "data" ELSE stage
  /\ UNCHANGED <<buffer, hop, extraction, layout, extracting, values, seen, histories, bundles,
                 faults, tableVars>>

Kind == IF head["kind"] = <<>> THEN 0 ELSE head["kind"][1]

NonceOf == <<head["origin"], head["nonce"]>>

\* The order of the fields in a data array of this size; none is extracted from
\* metadata of another size.  Arrays of two or four without a node number are
\* those of older releases.
Layout(size) ==
  IF Kind = ContactType
    THEN <<"regionNbr", "fromNode", "toNode", "fromTime", "toTime", "xmitRate", "confidence">>
  ELSE IF Kind = RangeType THEN <<"fromNode", "toNode", "fromTime", "toTime", "owlt">>
  ELSE CASE size = 2 -> <<"name", "contact">>
         [] size = 3 -> <<"nodeId", "name", "contact">>
         [] size = 4 -> IF IntegerAt(buffer, AfterHead(buffer, cursor))
                          THEN <<"nodeId", "name", "contact", "location">>
                          ELSE <<"name", "contact", "latitude", "longitude">>
         [] size = 5 -> <<"nodeId", "name", "contact", "latitude", "longitude">>
         [] size = 6 -> <<"nodeId", "name", "contact", "location", "latitude", "longitude">>
         [] OTHER -> <<>>

DataHeader ==
  /\ NonceOf \notin seen[hop]
  /\ HeadAt(buffer, cursor, ArrayOpen, 0..23)
  /\ CASE Kind = ContactType -> InfoAt(buffer, cursor) = 7
       [] Kind = RangeType -> InfoAt(buffer, cursor) = 5
       [] OTHER -> Kind = MetadataType

OpenData ==
  /\ stage = "data"
  /\ DataHeader
  /\ LET size == InfoAt(buffer, cursor)
     IN /\ layout' = Layout(size)
        /\ extracting' = (Layout(size) # <<>>)
        /\ head' = [name \in DOMAIN head \cup {"size"} |-> IF name = "size" THEN size ELSE head[name]]
        /\ stage' = IF size = 0 THEN "hmac" ELSE "fields"
  /\ cursor' = AfterHead(buffer, cursor)
  /\ extraction' = AfterHead(buffer, cursor)
  /\ index' = 1
  /\ values' = [name \in {} |-> Zero]
  /\ UNCHANGED <<buffer, hop, seen, histories, bundles, faults, tableVars>>

\* The && chain of manualDecodeCbor* calls stops at the first that fails.
FieldAt(field) ==
  IF field \in Texts THEN TextAt(buffer, extraction, Limit(field) - 1)
  ELSE IntegerAt(buffer, extraction)

FieldValue(field) ==
  IF field \in Texts THEN TextValue(buffer, extraction) ELSE IntegerValue(buffer, extraction)

AfterField(field) ==
  IF field \in Texts THEN AfterText(buffer, extraction) ELSE AfterInteger(buffer, extraction)

Extract ==
  IF extracting /\ FieldAt(layout[index])
    THEN /\ values' = [name \in DOMAIN values \cup {layout[index]} |->
                         IF name = layout[index] THEN FieldValue(name) ELSE values[name]]
         /\ extraction' = AfterField(layout[index])
         /\ extracting' = TRUE
    ELSE extracting' = FALSE /\ UNCHANGED <<values, extraction>>

ReadField ==
  /\ stage = "fields"
  /\ Skippable(buffer, cursor)
  /\ Extract
  /\ cursor' = AfterSkip(buffer, cursor)
  /\ index' = index + 1
  /\ stage' = IF index = head["size"] THEN "hmac" ELSE stage
  /\ UNCHANGED <<buffer, hop, head, layout, seen, histories, bundles, faults, tableVars>>

\* What follows the HMAC is not looked at.
HmacItem ==
  /\ HeadAt(buffer, cursor, ByteString, {DTNEX_HMAC_SIZE})
  /\ AfterHead(buffer, cursor).left >= DTNEX_HMAC_SIZE

\* verifyHmac: what could not be computed matches nothing.
\* Mutant of verifyHmac: the cleared buffer of a failed computation is compared.
verifyHmac_Unchecked(computed) ==
  SubSeq(buffer, cursor.at + 1, cursor.at + DTNEX_HMAC_SIZE)
    = IF computed THEN Hmac(Key, SubSeq(buffer, 1, cursor.at - 1)) ELSE NullHmac

verifyHmac(computed) ==
  computed /\ SubSeq(buffer, cursor.at + 1, cursor.at + DTNEX_HMAC_SIZE)
                = Hmac(Key, SubSeq(buffer, 1, cursor.at - 1))

\* The nonce counts as seen although nothing may have been extracted.
CheckHmac ==
  /\ stage = "hmac"
  /\ HmacItem
  /\ \E computed \in BOOLEAN :
       /\ Faulty(computed)
       /\ IF verifyHmac(computed)
            THEN /\ seen' = [seen EXCEPT ![hop] = @ \cup {NonceOf}]
                 /\ stage' = IF extracting THEN "handler" ELSE "idle"
            ELSE stage' = "idle" /\ UNCHANGED seen
  /\ UNCHANGED <<buffer, hop, walk, histories, bundles, tableVars>>

Refuse ==
  /\ \/ stage = "envelope" /\ ~EnvelopeItem
     \/ stage = "data" /\ ~DataHeader
     \/ stage = "fields" /\ ~Skippable(buffer, cursor)
     \/ stage = "hmac" /\ ~HmacItem
  /\ stage' = "idle"
  /\ UNCHANGED <<buffer, hop, walk, seen, histories, bundles, faults, tableVars>>

-----------------------------------------------------------------------------
Value(name, default) == IF name \in DOMAIN values THEN values[name] ELSE default

\* A C string ends at its first zero.
CString(s) == LET ends == {i \in 1..Len(s) : s[i] = 0}
              IN IF ends = {} THEN s ELSE SubSeq(s, 1, (CHOOSE i \in ends : \A j \in ends : i <= j) - 1)

\* Mutant of Coordinate: the cast is to unsigned int.
Coordinate_Unsigned(name) == UInt32(Value(name, Zero))

Coordinate(name) == Int32(Value(name, Zero))

\* The record handed to the handler, with the casts to its members.
Decoded ==
  CASE Kind = ContactType ->
         [values EXCEPT !["regionNbr"] = UInt32(@), !["confidence"] = UInt32(@)]
    [] Kind = RangeType -> [values EXCEPT !["owlt"] = UInt32(@)]
    [] OTHER ->
         [nodeId |-> Value("nodeId", head["origin"]), name |-> CString(values["name"]),
          contact |-> CString(values["contact"]), location |-> CString(Value("location", <<>>)),
          latitude |-> Coordinate("latitude"), longitude |-> Coordinate("longitude")]

\* Mutant of EnvelopeOf: the message is passed on as the sender's.
EnvelopeOf_Sender == [kind |-> Kind, timestamp |-> head["timestamp"],
                      expire |-> head["expire"], origin |-> head["from"],
                      nonce |-> head["nonce"]]

EnvelopeOf == [kind |-> Kind, timestamp |-> head["timestamp"], expire |-> head["expire"],
               origin |-> head["origin"], nonce |-> head["nonce"]]

\* processCborMetadataMessage: the text of the row shows the position, or else
\* the location.
RowText(f) ==
  IF f.latitude # Zero \/ f.longitude # Zero
    THEN <<f.name, f.contact, f.latitude, f.longitude>>
  ELSE IF f.location # <<>> THEN <<f.name, f.contact, f.location>>
  ELSE <<f.name, f.contact>>

\* processCborContactMessage, processCborRangeMessage, processCborMetadataMessage.
Handle ==
  /\ stage = "handler"
  /\ IF head["origin"] = Chain[hop]
       THEN stage' = "idle" /\ UNCHANGED <<applied, call>>
       ELSE /\ applied' = Append(applied, [envelope |-> EnvelopeOf, fields |-> Decoded])
            /\ stage' = "forward"
            /\ call' = IF Kind = MetadataType /\ hop = 2
                         THEN [call EXCEPT !["reception"] =
                                 Calling(Decoded.nodeId, RowText(Decoded))]
                         ELSE call
  /\ UNCHANGED <<buffer, hop, walk, seen, sent, authentic, bundles, faults, nodeMetadataList,
                 nodeMetadataCount, main, receiving, sharing, handed, connects>>

\* forwardCbor*Message: the same message, from this node.
Forward ==
  /\ stage = "forward" /\ call["reception"] = Idle
  /\ IF hop < Len(Chain)
       THEN \E computed \in BOOLEAN :
              /\ Encoded(Encode(EnvelopeOf, applied[Len(applied)].fields, Chain[hop], computed),
                         computed)
              /\ Faulty(computed)
       ELSE stage' = "idle" /\ UNCHANGED <<buffer, walk, authentic, faults, tableVars>>
  /\ UNCHANGED <<hop, seen, sent, applied, bundles>>

Table ==
  /\ stage # "dead"
  /\ Main \/ Update("reception")
  /\ UNCHANGED <<buffer, hop, stage, walk, seen, histories, bundles, faults>>

Next ==
  \/ Announce \/ sendCborBundle \/ StrayArrives \/ Receive
  \/ ReadEnvelope \/ OpenData \/ ReadField \/ CheckHmac \/ Refuse
  \/ Handle \/ Forward \/ Table

Spec == Init /\ [][Next]_vars

-----------------------------------------------------------------------------
Reading == stage \in {"envelope", "data", "fields", "hmac"}

TypeOK ==
  /\ buffer \in Bytes
  /\ hop \in 1..Len(Chain)
  /\ stage \in {"idle", "encoded", "dead", "flying", "envelope", "data", "fields", "hmac",
                "handler", "forward"}
  /\ cursor \in [at: Nat, left: Int] /\ extraction \in [at: Nat, left: Int]
  /\ index \in 1..24 /\ extracting \in BOOLEAN
  /\ seen \in [1..Len(Chain) -> SUBSET (Vast \X Bytes)]
  /\ \A i \in 1..Len(applied) :
       /\ applied[i].fields \in Fields(applied[i].envelope.kind)
       /\ \A t \in DOMAIN applied[i].fields \cap Texts : Len(applied[i].fields[t]) < Limit(t)
  /\ authentic \in BOOLEAN /\ bundles \in 0..MaxBundles /\ faults \in 0..MaxFaults

(* cursor and bytesBuffered are two variables moved by hand, at some thirty    *)
(* places, by lengths read from the bundle: they never part, and neither walk  *)
(* leaves the buffer, whatever the bundle holds.                               *)
CursorsInBuffer ==
  Reading =>
    /\ cursor.left \in 0..Len(buffer) /\ cursor.at + cursor.left = Len(buffer) + 1
    /\ extracting => extraction.left >= 0

(* The values handed to a handler are those the HMAC vouches for: as long as   *)
(* the extraction goes well it stands where the other walk stands, which is    *)
(* the one that says what is signed.                                           *)
WalksAgree == extracting /\ stage \in {"fields", "hmac", "handler"} => extraction = cursor

(* No message overruns its buffer of MAX_CBOR_BUFFER bytes, at the origin or   *)
(* at a relay whose number may be longer, whatever the record, except metadata *)
(* whose texts are longer than TextBudget: the encoders never look at the size *)
(* they are given, and the texts may have 253 bytes in all.                    *)
TextBudget == MAX_CBOR_BUFFER - 78

TextsOf(f) == Len(f.name) + Len(f.contact) + Len(f.location)

MayOverrun(e, f) ==
  e.kind = MetadataType /\ (\/ TextsOf(f) > TextBudget
                        \/ UInt32(e.timestamp) # e.timestamp \/ UInt32(e.expire) # e.expire)

FitsUnlessTextsAreLong ==
  stage = "encoded" /\ Len(buffer) > MAX_CBOR_BUFFER =>
    IF applied = <<>> THEN MayOverrun(sent.envelope, FieldsOf(sent.announced))
    ELSE MayOverrun(applied[Len(applied)].envelope, applied[Len(applied)].fields)

(* The first receiver applies what the origin meant: every member of a contact *)
(* or a range; of a configuration line of three texts, each of them, and both  *)
(* coordinates or, if one of them is zero, none.                               *)
Plain(raw) == Len(raw) = 3 /\ \A i \in 1..3 : raw[i] # <<>> /\ raw[i][1] # Blank

Meant(a) ==
  IF a.kind # MetadataType THEN a.fields
  ELSE LET f == FieldsOf(a)
           raw == a.nodemetadata
           named == IF Plain(raw)
                      THEN [f EXCEPT !.name = raw[1], !.contact = raw[2], !.location = raw[3]]
                      ELSE f
       IN IF Zero \in {a.latitude, a.longitude}
            THEN [named EXCEPT !.latitude = Zero, !.longitude = Zero]
            ELSE named

FirstReceiverGetsWhatWasMeant ==
  applied # <<>> /\ sent # Nothing =>
    applied[1] = [envelope |-> sent.envelope, fields |-> Meant(sent.announced)]

(* What one hop leaves of a message every further hop leaves: all the nodes it *)
(* reaches apply the same record under the same envelope.  The exception is a  *)
(* message of an older release with one coordinate zero, which the first       *)
(* receiver shows and does not pass on.                                        *)
HalfPosition(f) == (f.latitude = Zero) # (f.longitude = Zero)

RelaysAgreeUnlessHalfPosition ==
  \A i \in 2..Len(applied) :
    \/ applied[i] = applied[1]
    \/ applied[1].envelope.kind = MetadataType /\ HalfPosition(applied[1].fields)

(* Nothing is applied whose HMAC was not computed over it with the shared key: *)
(* a computation that fails at the sender, at the receiver or at both makes a  *)
(* message refused, never accepted.                                            *)
AcceptedIsSigned == stage = "handler" => authentic

(* A receiver refuses an announcement for a cause only: its HMAC could not be  *)
(* computed or checked, it expired, its nonce is one the receiver has seen of  *)
(* this origin (24 random bits may be drawn twice), or one of its texts has    *)
(* the greatest length the sender allows, which the receiver does not.         *)
HasCause(e, f) ==
  \/ ~authentic \/ faults' > faults
  \/ Precedes(e.expire, Now)
  \/ <<e.origin, e.nonce>> \in seen[hop]
  \/ e.kind = MetadataType /\ \E t \in Texts : Len(f[t]) = Limit(t) - 1

RefusedOnlyForCause ==
  [][Reading /\ stage' = "idle" /\ sent # Nothing
       => HasCause(sent.envelope, FieldsOf(sent.announced))]_vars

=============================================================================
