----------------------------- MODULE WireProofs -----------------------------
(***************************************************************************)
(* Proofs about Wire, with any chain, records, bundles, sizes and number   *)
(* of rows.  A message is a row of items, each found again where it was    *)
(* put, and no longer than its buffer; the address book of a node stays    *)
(* sound, however often main connects again; the decoder stays inside its  *)
(* buffer, its two walks together, whatever bytes arrive; and what the     *)
(* nodes apply is what the origin announced, of which they refuse nothing  *)
(* without a cause; and no two announcements have an HMAC of the same      *)
(* bytes.                                                                  *)
(***************************************************************************)
EXTENDS Wire, CommonProofs

-----------------------------------------------------------------------------
(* A message: an envelope, a record and the HMAC.                          *)

Kinds == {ContactType, RangeType, MetadataType}

Envelope == [kind: Kinds, timestamp: Vast, expire: Vast, origin: Vast,
             nonce: [1..DTNEX_NONCE_SIZE -> Byte]]

\* The texts as parseNodeMetadata cuts them.
MetadataRecord ==
  {f \in MetadataFields :
     /\ \A t \in Texts : f[t] \in Text /\ Len(f[t]) <= Limit(t) - 1
     /\ f.latitude \in Degrees /\ f.longitude \in Degrees}

Record(kind) == CASE kind = ContactType -> ContactRecord [] kind = RangeType -> RangeRecord
                  [] OTHER -> MetadataRecord

IsMessage(m) == m.envelope \in Envelope /\ m.fields \in Record(m.envelope.kind)

\* A text that the receivers' members have no room for.
TooLong(m) == /\ m.envelope.kind = MetadataType
              /\ \E t \in Texts : Len(m.fields[t]) = Limit(t) - 1

\* The items of a message, one after the other.
EnvelopeItems(e, from) ==
  <<EncodeArrayOpen(9), EncodeInteger(Small(DTNEX_PROTOCOL_VERSION)), EncodeText(<<e.kind>>),
    EncodeInteger(e.timestamp), EncodeInteger(e.expire), EncodeInteger(e.origin),
    EncodeInteger(from), EncodeBytes(e.nonce)>>

LayoutOf(m) ==
  IF m.envelope.kind = ContactType
    THEN <<"regionNbr", "fromNode", "toNode", "fromTime", "toTime", "xmitRate", "confidence">>
  ELSE IF m.envelope.kind = RangeType THEN <<"fromNode", "toNode", "fromTime", "toTime", "owlt">>
  ELSE IF HasLocation(m.fields)
    THEN IF HasGPS(m.fields)
           THEN <<"nodeId", "name", "contact", "location", "latitude", "longitude">>
           ELSE <<"nodeId", "name", "contact", "location">>
  ELSE IF HasGPS(m.fields) THEN <<"nodeId", "name", "contact", "latitude", "longitude">>
  ELSE <<"nodeId", "name", "contact">>

FieldItem(m, field) == IF field \in Texts THEN EncodeText(m.fields[field])
                       ELSE EncodeInteger(m.fields[field])

DataItems(m) ==
  [k \in 1..(1 + Len(LayoutOf(m))) |->
     IF k = 1 THEN EncodeArrayOpen(Len(LayoutOf(m))) ELSE FieldItem(m, LayoutOf(m)[k - 1])]

Tag(m, from, computed) ==
  EncodeBytes(IF computed THEN Hmac(Key, writeCborEnvelope(m.envelope, from)
                                          \o Payload(m.envelope.kind, m.fields))
              ELSE NullHmac)

\* The number of items, and the items: the envelope's, the data's and the HMAC.
Size(m) == 10 + Len(LayoutOf(m))

Items(m, from, computed) ==
  [k \in 1..Size(m) |->
     IF k <= 8 THEN EnvelopeItems(m.envelope, from)[k]
     ELSE IF k < Size(m) THEN DataItems(m)[k - 8] ELSE Tag(m, from, computed)]

\* The computation of an HMAC fills DTNEX_HMAC_SIZE bytes.
HmacShape == \A b \in Bytes : Hmac(Key, b) \in [1..DTNEX_HMAC_SIZE -> Byte]

LEMMA KindsDiffer ==
  ContactType # RangeType /\ ContactType # MetadataType /\ RangeType # MetadataType
  BY DEF ContactType, RangeType, MetadataType

-----------------------------------------------------------------------------
(* The items of a message and its bytes.                                   *)

\* A size of the code: two at least, and of two bytes at most.
IsSize(n) == n \in Nat /\ 2 <= n /\ n < 65536

LEMMA Parameters ==
  /\ IsSize(DTNEX_PROTOCOL_VERSION) /\ IsSize(DTNEX_NONCE_SIZE) /\ IsSize(DTNEX_HMAC_SIZE)
  /\ IsSize(MAX_CBOR_BUFFER) /\ IsSize(MAX_NODE_NAME_LENGTH)
  /\ IsSize(MAX_CONTACT_INFO_LENGTH) /\ IsSize(MAX_LOCATION_LENGTH)
  /\ IsSize(MAX_LINE_LENGTH) /\ DTNEX_HMAC_SIZE < 24
  /\ \A t : IsSize(Limit(t))
  <1>1. (\A n \in Sizes : IsSize(n)) /\ DTNEX_HMAC_SIZE < 24
    BY WireAssumption DEF IsSize
  <1>2. \A t : Limit(t) \in Sizes
    BY DEF Limit, Sizes
  <1> QED
    BY <1>1, <1>2 DEF Sizes

LEMMA BytesAssociate ==
  \A s, t, u \in Seq(Byte) : s \o t \in Seq(Byte) /\ (s \o t) \o u = s \o (t \o u)
  BY ConcatAssociative, ConcatProperties

LEMMA IntegerBytes ==
  ASSUME NEW v \in Vast
  PROVE  /\ EncodeInteger(v) \in Seq(Byte) /\ Len(EncodeInteger(v)) = 1 + Width(v)
         /\ Width(v) \in {0, 1, 2, 4, 8}
  BY HeadBytes DEF EncodeInteger, UnsignedInteger

LEMMA ArrayBytes ==
  ASSUME NEW n \in 0..23
  PROVE  EncodeArrayOpen(n) \in Seq(Byte) /\ Small(n) \in Vast
         /\ Info(Small(n)) = n /\ Len(EncodeArrayOpen(n)) = 1 /\ Width(Small(n)) = 0
  <1>1. n \div 256 = 0 /\ n % 256 = n
    BY SMT
  <1>2. Small(n) = [i \in 1..8 |-> IF i = 7 THEN 0 ELSE IF i = 8 THEN n ELSE 0]
    BY <1>1 DEF Small
  <1>3. Small(n)[8] = n /\ \A i \in 1..7 : Small(n)[i] = 0
    BY <1>2
  <1>4. Small(n) \in Vast
    BY SmallNumbers
  <1>5. Width(Small(n)) = 0 /\ Info(Small(n)) = n
    <2>1. ~(\E i \in 1..4 : Small(n)[i] # 0) /\ ~(Small(n)[5] # 0 \/ Small(n)[6] # 0)
          /\ Small(n)[7] = 0 /\ ~(n >= 24)
      BY <1>3
    <2>2. Width(Small(n)) = 0
      BY <1>3, <2>1 DEF Width
    <2> QED
      BY <1>3, <2>2 DEF Info
  <1>6. EncodeArrayOpen(n) \in Seq(Byte) /\ Len(EncodeArrayOpen(n)) = 1 + Width(Small(n))
    BY <1>4, HeadBytes DEF EncodeArrayOpen, ArrayOpen
  <1> QED
    BY <1>4, <1>5, <1>6

LEMMA TextBytes ==
  ASSUME NEW s \in Seq(Byte), Len(s) < 65536
  PROVE  /\ EncodeText(s) \in Seq(Byte) /\ EncodeBytes(s) \in Seq(Byte)
         /\ EncodeText(s) = EncodeString(TextString, s)
         /\ EncodeBytes(s) = EncodeString(ByteString, s)
         /\ Len(EncodeText(s)) = 1 + Width(Small(Len(s))) + Len(s)
         /\ Len(EncodeBytes(s)) = 1 + Width(Small(Len(s))) + Len(s)
         /\ Width(Small(Len(s))) \in {0, 1, 2}
  BY StringBytes DEF EncodeText, EncodeBytes, EncodeString, TextString, ByteString

\* Tuples of the lengths the protocol fixes are sequences of bytes.
LEMMA FixedBytes ==
  ASSUME NEW n \in Nat, NEW s \in [1..n -> Byte]
  PROVE  s \in Seq(Byte) /\ Len(s) = n
  OBVIOUS

LEMMA KindBytes ==
  ASSUME NEW k \in Kinds
  PROVE  <<k>> \in Seq(Byte) /\ Len(<<k>>) = 1 /\ k \in Byte /\ k # 0
  BY DEF Kinds, ContactType, RangeType, MetadataType, Byte

LEMMA EnvelopeTypes ==
  ASSUME NEW e \in Envelope
  PROVE  /\ e.kind \in Kinds /\ e.timestamp \in Vast /\ e.expire \in Vast /\ e.origin \in Vast
         /\ e.nonce \in [1..DTNEX_NONCE_SIZE -> Byte]
         /\ e.nonce \in Seq(Byte) /\ Len(e.nonce) = DTNEX_NONCE_SIZE /\ Len(e.nonce) < 65536
  <1>1. /\ e.kind \in Kinds /\ e.timestamp \in Vast /\ e.expire \in Vast /\ e.origin \in Vast
        /\ e.nonce \in [1..DTNEX_NONCE_SIZE -> Byte]
    BY DEF Envelope
  <1>2. DTNEX_NONCE_SIZE \in Nat /\ DTNEX_NONCE_SIZE < 65536
    BY Parameters DEF IsSize
  <1>3. e.nonce \in Seq(Byte) /\ Len(e.nonce) = DTNEX_NONCE_SIZE
    BY <1>1, <1>2, FixedBytes
  <1> QED
    BY <1>1, <1>2, <1>3

\* Items one after the other.
LEMMA SpeltRow ==
  ASSUME NEW z, NEW size \in Nat, size >= 4, \A i \in 1..size : z[i] \in Seq(Byte)
  PROVE  /\ Spelt(z[1] \o z[2] \o z[3] \o z[4], z, 4)
         /\ z[1] \o z[2] \o z[3] \o z[4] \in Seq(Byte)
         /\ size >= 5 => /\ Spelt(z[1] \o z[2] \o z[3] \o z[4] \o z[5], z, 5)
                         /\ z[1] \o z[2] \o z[3] \o z[4] \o z[5] \in Seq(Byte)
         /\ size >= 6 => /\ Spelt(z[1] \o z[2] \o z[3] \o z[4] \o z[5] \o z[6], z, 6)
                         /\ z[1] \o z[2] \o z[3] \o z[4] \o z[5] \o z[6] \in Seq(Byte)
         /\ size >= 7 => /\ Spelt(z[1] \o z[2] \o z[3] \o z[4] \o z[5] \o z[6] \o z[7], z, 7)
                         /\ z[1] \o z[2] \o z[3] \o z[4] \o z[5] \o z[6] \o z[7] \in Seq(Byte)
         /\ size >= 8 => /\ Spelt(z[1] \o z[2] \o z[3] \o z[4] \o z[5] \o z[6] \o z[7] \o z[8], z, 8)
                         /\ z[1] \o z[2] \o z[3] \o z[4] \o z[5] \o z[6] \o z[7] \o z[8] \in Seq(Byte)
  <1> DEFINE a1 == z[1]
             a2 == a1 \o z[2]
             a3 == a2 \o z[3]
             a4 == a3 \o z[4]
             a5 == a4 \o z[5]
             a6 == a5 \o z[6]
             a7 == a6 \o z[7]
             a8 == a7 \o z[8]
  <1>1. z[1] \in Seq(Byte)
    OBVIOUS
  <1>11. size >= 1 => Spelt(a1, z, 1) /\ a1 \in Seq(Byte)
    BY <1>1, SpeltOne
  <1> HIDE DEF a1
  <1>12. size >= 2 => Spelt(a2, z, 2) /\ a2 \in Seq(Byte)
    <2> SUFFICES ASSUME size >= 2 PROVE Spelt(a2, z, 2) /\ a2 \in Seq(Byte)
      OBVIOUS
    <2>1. 1 \in Nat /\ 2 = 1 + 1 /\ 2 <= size /\ size >= 1
      OBVIOUS
    <2> QED
      BY <1>11, <2>1, SpeltMore
  <1> HIDE DEF a2
  <1>13. size >= 3 => Spelt(a3, z, 3) /\ a3 \in Seq(Byte)
    <2> SUFFICES ASSUME size >= 3 PROVE Spelt(a3, z, 3) /\ a3 \in Seq(Byte)
      OBVIOUS
    <2>1. 2 \in Nat /\ 3 = 2 + 1 /\ 3 <= size /\ size >= 2
      OBVIOUS
    <2> QED
      BY <1>12, <2>1, SpeltMore
  <1> HIDE DEF a3
  <1>14. size >= 4 => Spelt(a4, z, 4) /\ a4 \in Seq(Byte)
    <2> SUFFICES ASSUME size >= 4 PROVE Spelt(a4, z, 4) /\ a4 \in Seq(Byte)
      OBVIOUS
    <2>1. 3 \in Nat /\ 4 = 3 + 1 /\ 4 <= size /\ size >= 3
      OBVIOUS
    <2> QED
      BY <1>13, <2>1, SpeltMore
  <1> HIDE DEF a4
  <1>15. size >= 5 => Spelt(a5, z, 5) /\ a5 \in Seq(Byte)
    <2> SUFFICES ASSUME size >= 5 PROVE Spelt(a5, z, 5) /\ a5 \in Seq(Byte)
      OBVIOUS
    <2>1. 4 \in Nat /\ 5 = 4 + 1 /\ 5 <= size /\ size >= 4
      OBVIOUS
    <2> QED
      BY <1>14, <2>1, SpeltMore
  <1> HIDE DEF a5
  <1>16. size >= 6 => Spelt(a6, z, 6) /\ a6 \in Seq(Byte)
    <2> SUFFICES ASSUME size >= 6 PROVE Spelt(a6, z, 6) /\ a6 \in Seq(Byte)
      OBVIOUS
    <2>1. 5 \in Nat /\ 6 = 5 + 1 /\ 6 <= size /\ size >= 5
      OBVIOUS
    <2> QED
      BY <1>15, <2>1, SpeltMore
  <1> HIDE DEF a6
  <1>17. size >= 7 => Spelt(a7, z, 7) /\ a7 \in Seq(Byte)
    <2> SUFFICES ASSUME size >= 7 PROVE Spelt(a7, z, 7) /\ a7 \in Seq(Byte)
      OBVIOUS
    <2>1. 6 \in Nat /\ 7 = 6 + 1 /\ 7 <= size /\ size >= 6
      OBVIOUS
    <2> QED
      BY <1>16, <2>1, SpeltMore
  <1> HIDE DEF a7
  <1>18. size >= 8 => Spelt(a8, z, 8) /\ a8 \in Seq(Byte)
    <2> SUFFICES ASSUME size >= 8 PROVE Spelt(a8, z, 8) /\ a8 \in Seq(Byte)
      OBVIOUS
    <2>1. 7 \in Nat /\ 8 = 7 + 1 /\ 8 <= size /\ size >= 7
      OBVIOUS
    <2> QED
      BY <1>17, <2>1, SpeltMore
  <1> HIDE DEF a8
  <1>19. size >= 4 /\ (size >= 4 => Spelt(a4, z, 4) /\ a4 \in Seq(Byte))
    BY <1>14
  <1> QED
    BY <1>15, <1>16, <1>17, <1>18, <1>19 DEF a1, a2, a3, a4, a5, a6, a7, a8

LEMMA EnvelopeSpelt ==
  ASSUME NEW e \in Envelope, NEW from \in Vast
  PROVE  /\ writeCborEnvelope(e, from) \in Seq(Byte)
         /\ Spelt(writeCborEnvelope(e, from), EnvelopeItems(e, from), 8)
         /\ \A i \in 1..8 : EnvelopeItems(e, from)[i] \in Seq(Byte)
  <1> DEFINE z == EnvelopeItems(e, from)
  <1>1. z[1] \in Seq(Byte)
    <2>1. EncodeArrayOpen(9) \in Seq(Byte)
      BY ArrayBytes
    <2> QED
      BY <2>1 DEF EnvelopeItems
  <1>2. z[2] \in Seq(Byte)
    <2>1. DTNEX_PROTOCOL_VERSION \in Nat /\ DTNEX_PROTOCOL_VERSION < 65536
      BY Parameters DEF IsSize
    <2>2. EncodeInteger(Small(DTNEX_PROTOCOL_VERSION)) \in Seq(Byte)
      BY <2>1, SmallNumbers, IntegerBytes
    <2> QED
      BY <2>2 DEF EnvelopeItems
  <1>3. z[3] \in Seq(Byte)
    <2>1. <<e.kind>> \in Seq(Byte) /\ Len(<<e.kind>>) < 65536
      BY EnvelopeTypes, KindBytes
    <2>2. EncodeText(<<e.kind>>) \in Seq(Byte)
      BY <2>1, TextBytes
    <2> QED
      BY <2>2 DEF EnvelopeItems
  <1>4. z[4] \in Seq(Byte) /\ z[5] \in Seq(Byte) /\ z[6] \in Seq(Byte) /\ z[7] \in Seq(Byte)
    <2>1. /\ EncodeInteger(e.timestamp) \in Seq(Byte) /\ EncodeInteger(e.expire) \in Seq(Byte)
          /\ EncodeInteger(e.origin) \in Seq(Byte) /\ EncodeInteger(from) \in Seq(Byte)
      BY EnvelopeTypes, IntegerBytes
    <2> QED
      BY <2>1 DEF EnvelopeItems
  <1>5. z[8] \in Seq(Byte)
    <2>1. EncodeBytes(e.nonce) \in Seq(Byte)
      BY EnvelopeTypes, TextBytes
    <2> QED
      BY <2>1 DEF EnvelopeItems
  <1>6. writeCborEnvelope(e, from)
          = z[1] \o z[2] \o z[3] \o z[4] \o z[5] \o z[6] \o z[7] \o z[8]
    BY DEF writeCborEnvelope, EnvelopeItems
  <1> HIDE DEF z
  <1>7. \A i \in 1..8 : z[i] \in Seq(Byte)
    <2> SUFFICES ASSUME NEW i \in 1..8 PROVE z[i] \in Seq(Byte)
      OBVIOUS
    <2>1. i = 1 \/ i = 2 \/ i = 3 \/ i = 4 \/ i = 5 \/ i = 6 \/ i = 7 \/ i = 8
      OBVIOUS
    <2>2. /\ z[1] \in Seq(Byte) /\ z[2] \in Seq(Byte) /\ z[3] \in Seq(Byte) /\ z[4] \in Seq(Byte)
          /\ z[5] \in Seq(Byte) /\ z[6] \in Seq(Byte) /\ z[7] \in Seq(Byte) /\ z[8] \in Seq(Byte)
      BY <1>1, <1>2, <1>3, <1>4, <1>5
    <2> QED
      BY <2>1, <2>2
  <1>8. /\ Spelt(z[1] \o z[2] \o z[3] \o z[4] \o z[5] \o z[6] \o z[7] \o z[8], z, 8)
        /\ z[1] \o z[2] \o z[3] \o z[4] \o z[5] \o z[6] \o z[7] \o z[8] \in Seq(Byte)
    <2>1. 8 \in Nat /\ 8 >= 4 /\ 8 >= 8
      OBVIOUS
    <2> QED
      BY <1>7, <2>1, SpeltRow
  <1> QED
    BY <1>6, <1>7, <1>8 DEF z

\* The parts of each kind of record.
LEMMA ContactTypes ==
  ASSUME NEW f \in ContactRecord
  PROVE  /\ f \in ContactFields
         /\ f.regionNbr \in Vast /\ f.fromNode \in Vast /\ f.toNode \in Vast /\ f.fromTime \in Vast
         /\ f.toTime \in Vast /\ f.xmitRate \in Vast /\ f.confidence \in Vast
         /\ UInt32(f.regionNbr) = f.regionNbr /\ UInt32(f.confidence) = f.confidence
  <1>1. f \in ContactFields /\ UInt32(f.regionNbr) = f.regionNbr /\ UInt32(f.confidence) = f.confidence
    BY DEF ContactRecord
  <1> QED
    BY <1>1 DEF ContactFields

LEMMA RangeTypes ==
  ASSUME NEW f \in RangeRecord
  PROVE  /\ f \in RangeFields
         /\ f.fromNode \in Vast /\ f.toNode \in Vast /\ f.fromTime \in Vast
         /\ f.toTime \in Vast /\ f.owlt \in Vast /\ UInt32(f.owlt) = f.owlt
  <1>1. f \in RangeFields /\ UInt32(f.owlt) = f.owlt
    BY DEF RangeRecord
  <1> QED
    BY <1>1 DEF RangeFields

LEMMA TextTypes ==
  ASSUME NEW s \in Text
  PROVE  s \in Seq(Byte) /\ \A i \in 1..Len(s) : s[i] # 0
  <1> DEFINE C == 1..255
  <1>1. \A b \in C : b \in Byte /\ b # 0
    BY DEF Byte
  <1>2. s \in Seq(C)
    BY DEF Text
  <1> HIDE DEF C
  <1>3. s \in [1..Len(s) -> Byte] /\ Len(s) \in Nat
    <2>1. s = [i \in 1..Len(s) |-> s[i]] /\ Len(s) \in Nat
      BY <1>2
    <2> QED
      BY <1>1, <1>2, <2>1
  <1>4. s \in Seq(Byte)
    BY <1>3, FixedBytes
  <1> QED
    BY <1>1, <1>2, <1>4

LEMMA MetadataTypes ==
  ASSUME NEW f \in MetadataRecord
  PROVE  /\ f \in MetadataFields /\ f.nodeId \in Vast
         /\ f.name \in Text /\ f.contact \in Text /\ f.location \in Text
         /\ f.name \in Seq(Byte) /\ f.contact \in Seq(Byte) /\ f.location \in Seq(Byte)
         /\ Len(f.name) < 65536 /\ Len(f.contact) < 65536 /\ Len(f.location) < 65536
         /\ \A t \in Texts : Len(f[t]) <= Limit(t) - 1
         /\ f.latitude \in Vast /\ f.longitude \in Vast
         /\ Int32(f.latitude) = f.latitude /\ Int32(f.longitude) = f.longitude
  <1>1. /\ f \in MetadataFields /\ f.latitude \in Degrees /\ f.longitude \in Degrees
        /\ \A t \in Texts : f[t] \in Text /\ Len(f[t]) <= Limit(t) - 1
    BY DEF MetadataRecord
  <1>2. f.nodeId \in Vast
    BY <1>1 DEF MetadataFields
  <1>3. f.name \in Text /\ f.contact \in Text /\ f.location \in Text
    BY <1>1 DEF Texts
  <1>4. \A t \in Texts : Len(f[t]) < 65536
    <2> SUFFICES ASSUME NEW t \in Texts PROVE Len(f[t]) < 65536
      OBVIOUS
    <2>1. Len(f[t]) <= Limit(t) - 1 /\ Len(f[t]) \in Nat
      BY <1>1 DEF Text
    <2>2. Limit(t) \in Nat /\ Limit(t) < 65536
      BY Parameters DEF IsSize
    <2> QED
      BY <2>1, <2>2
  <1>5. Len(f.name) < 65536 /\ Len(f.contact) < 65536 /\ Len(f.location) < 65536
    BY <1>4 DEF Texts
  <1>6. /\ f.latitude \in Vast /\ f.longitude \in Vast
        /\ Int32(f.latitude) = f.latitude /\ Int32(f.longitude) = f.longitude
    BY <1>1 DEF Degrees
  <1> QED
    BY <1>1, <1>2, <1>3, <1>5, <1>6, TextTypes

LEMMA MessageTypes ==
  ASSUME NEW m, IsMessage(m)
  PROVE  /\ m.envelope \in Envelope /\ m.envelope.kind \in Kinds
         /\ m.envelope.kind = ContactType => m.fields \in ContactRecord
         /\ m.envelope.kind = RangeType => m.fields \in RangeRecord
         /\ m.envelope.kind = MetadataType => m.fields \in MetadataRecord
  <1>1. m.envelope \in Envelope /\ m.envelope.kind \in Kinds
    BY EnvelopeTypes DEF IsMessage
  <1>2. m.fields \in Record(m.envelope.kind)
    BY DEF IsMessage
  <1>3. m.envelope.kind = ContactType => m.fields \in ContactRecord
    BY <1>2 DEF Record, ContactType, RangeType, MetadataType
  <1>4. m.envelope.kind = RangeType => m.fields \in RangeRecord
    BY <1>2 DEF Record, ContactType, RangeType, MetadataType
  <1>5. m.envelope.kind = MetadataType => m.fields \in MetadataRecord
    BY <1>2 DEF Record, ContactType, RangeType, MetadataType
  <1> QED
    BY <1>1, <1>3, <1>4, <1>5

\* The data of each kind are their array's head and their fields.
LEMMA ContactSpelt ==
  ASSUME NEW m, IsMessage(m), m.envelope.kind = ContactType
  PROVE  /\ Len(LayoutOf(m)) = 7 /\ Payload(m.envelope.kind, m.fields) \in Seq(Byte)
         /\ Spelt(Payload(m.envelope.kind, m.fields), DataItems(m), 8)
         /\ \A i \in 1..8 : DataItems(m)[i] \in Seq(Byte)
  <1> DEFINE f == m.fields
             z == DataItems(m)
             lay == LayoutOf(m)
  <1>1. lay = <<"regionNbr", "fromNode", "toNode", "fromTime", "toTime", "xmitRate", "confidence">>
    BY DEF LayoutOf, ContactType, RangeType, MetadataType
  <1>2. Len(lay) = 7 /\ lay[1] = "regionNbr" /\ lay[2] = "fromNode" /\ lay[3] = "toNode" /\ lay[4] = "fromTime" /\ lay[5] = "toTime" /\ lay[6] = "xmitRate" /\ lay[7] = "confidence"
    BY <1>1
  <1>3. z = [k \in 1..8 |-> IF k = 1 THEN EncodeArrayOpen(7) ELSE FieldItem(m, lay[k - 1])]
    BY <1>2 DEF DataItems
  <1> HIDE DEF z, lay
  <1>4. /\ z[1] = EncodeArrayOpen(7)
        /\ z[2] = FieldItem(m, "regionNbr")
        /\ z[3] = FieldItem(m, "fromNode")
        /\ z[4] = FieldItem(m, "toNode")
        /\ z[5] = FieldItem(m, "fromTime")
        /\ z[6] = FieldItem(m, "toTime")
        /\ z[7] = FieldItem(m, "xmitRate")
        /\ z[8] = FieldItem(m, "confidence")
    BY <1>2, <1>3
  <1>5. /\ FieldItem(m, "regionNbr") = EncodeInteger(f.regionNbr)
        /\ FieldItem(m, "fromNode") = EncodeInteger(f.fromNode)
        /\ FieldItem(m, "toNode") = EncodeInteger(f.toNode)
        /\ FieldItem(m, "fromTime") = EncodeInteger(f.fromTime)
        /\ FieldItem(m, "toTime") = EncodeInteger(f.toTime)
        /\ FieldItem(m, "xmitRate") = EncodeInteger(f.xmitRate)
        /\ FieldItem(m, "confidence") = EncodeInteger(f.confidence)
    BY DEF FieldItem, Texts
  <1>6. /\ EncodeArrayOpen(7) \in Seq(Byte)
        /\ EncodeInteger(f.regionNbr) \in Seq(Byte)
        /\ EncodeInteger(f.fromNode) \in Seq(Byte)
        /\ EncodeInteger(f.toNode) \in Seq(Byte)
        /\ EncodeInteger(f.fromTime) \in Seq(Byte)
        /\ EncodeInteger(f.toTime) \in Seq(Byte)
        /\ EncodeInteger(f.xmitRate) \in Seq(Byte)
        /\ EncodeInteger(f.confidence) \in Seq(Byte)
    <2>1. f \in ContactRecord
      BY MessageTypes
    <2>2. EncodeArrayOpen(7) \in Seq(Byte)
      BY ArrayBytes
    <2>3. /\ f.regionNbr \in Vast
          /\ f.fromNode \in Vast
          /\ f.toNode \in Vast
          /\ f.fromTime \in Vast
          /\ f.toTime \in Vast
          /\ f.xmitRate \in Vast
          /\ f.confidence \in Vast
      BY <2>1, ContactTypes
    <2>4. /\ EncodeInteger(f.regionNbr) \in Seq(Byte)
          /\ EncodeInteger(f.fromNode) \in Seq(Byte)
          /\ EncodeInteger(f.toNode) \in Seq(Byte)
          /\ EncodeInteger(f.fromTime) \in Seq(Byte)
          /\ EncodeInteger(f.toTime) \in Seq(Byte)
          /\ EncodeInteger(f.xmitRate) \in Seq(Byte)
          /\ EncodeInteger(f.confidence) \in Seq(Byte)
      BY <2>3, IntegerBytes
    <2> QED
      BY <2>2, <2>4
  <1>7. \A i \in 1..8 : z[i] \in Seq(Byte)
    <2> SUFFICES ASSUME NEW i \in 1..8 PROVE z[i] \in Seq(Byte)
      OBVIOUS
    <2>1. i = 1 \/ i = 2 \/ i = 3 \/ i = 4 \/ i = 5 \/ i = 6 \/ i = 7 \/ i = 8
      OBVIOUS
    <2>2. /\ z[1] \in Seq(Byte) /\ z[2] \in Seq(Byte) /\ z[3] \in Seq(Byte) /\ z[4] \in Seq(Byte)
          /\ z[5] \in Seq(Byte) /\ z[6] \in Seq(Byte) /\ z[7] \in Seq(Byte) /\ z[8] \in Seq(Byte)
      BY <1>4, <1>5, <1>6
    <2> QED
      BY <2>1, <2>2
  <1>8. Payload(m.envelope.kind, f)
          = z[1] \o z[2] \o z[3] \o z[4] \o z[5] \o z[6] \o z[7] \o z[8]
    <2>1. Payload(m.envelope.kind, f) = ContactPayload(f)
      BY DEF Payload, ContactType, RangeType, MetadataType
    <2>2. /\ EncodeInteger(f.regionNbr) = z[2] /\ EncodeInteger(f.fromNode) = z[3]
          /\ EncodeInteger(f.toNode) = z[4] /\ EncodeInteger(f.fromTime) = z[5]
          /\ EncodeInteger(f.toTime) = z[6] /\ EncodeInteger(f.xmitRate) = z[7]
          /\ EncodeInteger(f.confidence) = z[8] /\ EncodeArrayOpen(7) = z[1]
      BY <1>4, <1>5
    <2> QED
      BY <2>1, <2>2, Zenon DEF ContactPayload
  <1>9. Spelt(z[1] \o z[2] \o z[3] \o z[4] \o z[5] \o z[6] \o z[7] \o z[8], z, 8) /\ z[1] \o z[2] \o z[3] \o z[4] \o z[5] \o z[6] \o z[7] \o z[8] \in Seq(Byte)
    <2>1. 8 \in Nat /\ 8 >= 4 /\ 8 >= 8
      OBVIOUS
    <2> QED
      BY <1>7, <2>1, SpeltRow
  <1> QED
    BY <1>2, <1>7, <1>8, <1>9 DEF z, lay

LEMMA RangeSpelt ==
  ASSUME NEW m, IsMessage(m), m.envelope.kind = RangeType
  PROVE  /\ Len(LayoutOf(m)) = 5 /\ Payload(m.envelope.kind, m.fields) \in Seq(Byte)
         /\ Spelt(Payload(m.envelope.kind, m.fields), DataItems(m), 6)
         /\ \A i \in 1..6 : DataItems(m)[i] \in Seq(Byte)
  <1> DEFINE f == m.fields
             z == DataItems(m)
             lay == LayoutOf(m)
  <1>1. lay = <<"fromNode", "toNode", "fromTime", "toTime", "owlt">>
    BY DEF LayoutOf, ContactType, RangeType, MetadataType
  <1>2. Len(lay) = 5 /\ lay[1] = "fromNode" /\ lay[2] = "toNode" /\ lay[3] = "fromTime" /\ lay[4] = "toTime" /\ lay[5] = "owlt"
    BY <1>1
  <1>3. z = [k \in 1..6 |-> IF k = 1 THEN EncodeArrayOpen(5) ELSE FieldItem(m, lay[k - 1])]
    BY <1>2 DEF DataItems
  <1> HIDE DEF z, lay
  <1>4. /\ z[1] = EncodeArrayOpen(5)
        /\ z[2] = FieldItem(m, "fromNode")
        /\ z[3] = FieldItem(m, "toNode")
        /\ z[4] = FieldItem(m, "fromTime")
        /\ z[5] = FieldItem(m, "toTime")
        /\ z[6] = FieldItem(m, "owlt")
    BY <1>2, <1>3
  <1>5. /\ FieldItem(m, "fromNode") = EncodeInteger(f.fromNode)
        /\ FieldItem(m, "toNode") = EncodeInteger(f.toNode)
        /\ FieldItem(m, "fromTime") = EncodeInteger(f.fromTime)
        /\ FieldItem(m, "toTime") = EncodeInteger(f.toTime)
        /\ FieldItem(m, "owlt") = EncodeInteger(f.owlt)
    BY DEF FieldItem, Texts
  <1>6. /\ EncodeArrayOpen(5) \in Seq(Byte)
        /\ EncodeInteger(f.fromNode) \in Seq(Byte)
        /\ EncodeInteger(f.toNode) \in Seq(Byte)
        /\ EncodeInteger(f.fromTime) \in Seq(Byte)
        /\ EncodeInteger(f.toTime) \in Seq(Byte)
        /\ EncodeInteger(f.owlt) \in Seq(Byte)
    <2>1. f \in RangeRecord
      BY MessageTypes
    <2>2. EncodeArrayOpen(5) \in Seq(Byte)
      BY ArrayBytes
    <2>3. /\ f.fromNode \in Vast
          /\ f.toNode \in Vast
          /\ f.fromTime \in Vast
          /\ f.toTime \in Vast
          /\ f.owlt \in Vast
      BY <2>1, RangeTypes
    <2>4. /\ EncodeInteger(f.fromNode) \in Seq(Byte)
          /\ EncodeInteger(f.toNode) \in Seq(Byte)
          /\ EncodeInteger(f.fromTime) \in Seq(Byte)
          /\ EncodeInteger(f.toTime) \in Seq(Byte)
          /\ EncodeInteger(f.owlt) \in Seq(Byte)
      BY <2>3, IntegerBytes
    <2> QED
      BY <2>2, <2>4
  <1>7. \A i \in 1..6 : z[i] \in Seq(Byte)
    BY <1>4, <1>5, <1>6
  <1>8. Payload(m.envelope.kind, f)
          = z[1] \o z[2] \o z[3] \o z[4] \o z[5] \o z[6]
    BY <1>4, <1>5 DEF Payload, RangePayload, ContactType, RangeType, MetadataType
  <1>9. Spelt(z[1] \o z[2] \o z[3] \o z[4] \o z[5] \o z[6], z, 6) /\ z[1] \o z[2] \o z[3] \o z[4] \o z[5] \o z[6] \in Seq(Byte)
    <2>1. 6 \in Nat /\ 6 >= 4 /\ 6 >= 6
      OBVIOUS
    <2> QED
      BY <1>7, <2>1, SpeltRow
  <1> QED
    BY <1>2, <1>7, <1>8, <1>9 DEF z, lay

LEMMA BareSpelt ==
  ASSUME NEW m, IsMessage(m), m.envelope.kind = MetadataType,
         ~HasLocation(m.fields), ~HasGPS(m.fields)
  PROVE  /\ Len(LayoutOf(m)) = 3 /\ Payload(m.envelope.kind, m.fields) \in Seq(Byte)
         /\ Spelt(Payload(m.envelope.kind, m.fields), DataItems(m), 4)
         /\ \A i \in 1..4 : DataItems(m)[i] \in Seq(Byte)
  <1> DEFINE f == m.fields
             z == DataItems(m)
             lay == LayoutOf(m)
  <1>1. lay = <<"nodeId", "name", "contact">>
    BY DEF LayoutOf, ContactType, RangeType, MetadataType
  <1>2. Len(lay) = 3 /\ lay[1] = "nodeId" /\ lay[2] = "name" /\ lay[3] = "contact"
    BY <1>1
  <1>3. z = [k \in 1..4 |-> IF k = 1 THEN EncodeArrayOpen(3) ELSE FieldItem(m, lay[k - 1])]
    BY <1>2 DEF DataItems
  <1> HIDE DEF z, lay
  <1>4. /\ z[1] = EncodeArrayOpen(3)
        /\ z[2] = FieldItem(m, "nodeId")
        /\ z[3] = FieldItem(m, "name")
        /\ z[4] = FieldItem(m, "contact")
    BY <1>2, <1>3
  <1>5. /\ FieldItem(m, "nodeId") = EncodeInteger(f.nodeId)
        /\ FieldItem(m, "name") = EncodeText(f.name)
        /\ FieldItem(m, "contact") = EncodeText(f.contact)
    BY DEF FieldItem, Texts
  <1>6. /\ EncodeArrayOpen(3) \in Seq(Byte)
        /\ EncodeInteger(f.nodeId) \in Seq(Byte)
        /\ EncodeText(f.name) \in Seq(Byte)
        /\ EncodeText(f.contact) \in Seq(Byte)
    <2>1. f \in MetadataRecord
      BY MessageTypes
    <2>2. EncodeArrayOpen(3) \in Seq(Byte)
      BY ArrayBytes
    <2>3. /\ f.nodeId \in Vast
      BY <2>1, MetadataTypes
    <2>4. /\ EncodeInteger(f.nodeId) \in Seq(Byte)
      BY <2>3, IntegerBytes
    <2>5. /\ EncodeText(f.name) \in Seq(Byte)
          /\ EncodeText(f.contact) \in Seq(Byte)
      BY <2>1, MetadataTypes, TextBytes
    <2> QED
      BY <2>2, <2>4, <2>5
  <1>7. \A i \in 1..4 : z[i] \in Seq(Byte)
    BY <1>4, <1>5, <1>6
  <1>8. Payload(m.envelope.kind, f)
          = z[1] \o z[2] \o z[3] \o z[4]
    <2> DEFINE b == EncodeArrayOpen(3) \o EncodeInteger(f.nodeId)
                       \o EncodeText(f.name) \o EncodeText(f.contact)
    <2>1. Payload(m.envelope.kind, f) = b \o <<>> \o <<>>
      <3>1. MetadataElements(f) = 3
        BY DEF MetadataElements
      <3> QED
        BY <3>1 DEF Payload, MetadataPayload, ContactType, RangeType, MetadataType
    <2>2. b \in Seq(Byte)
      BY <1>6
    <2>3. b = z[1] \o z[2] \o z[3] \o z[4]
      BY <1>4, <1>5
    <2> HIDE DEF b
    <2>4. b \o <<>> = b
      BY <2>2, ConcatEmptySeq
    <2> QED
      BY <2>1, <2>3, <2>4
  <1>9. Spelt(z[1] \o z[2] \o z[3] \o z[4], z, 4) /\ z[1] \o z[2] \o z[3] \o z[4] \in Seq(Byte)
    <2>1. 4 \in Nat /\ 4 >= 4 /\ 4 >= 4
      OBVIOUS
    <2> QED
      BY <1>7, <2>1, SpeltRow
  <1> QED
    BY <1>2, <1>7, <1>8, <1>9 DEF z, lay

LEMMA LocationSpelt ==
  ASSUME NEW m, IsMessage(m), m.envelope.kind = MetadataType,
         HasLocation(m.fields), ~HasGPS(m.fields)
  PROVE  /\ Len(LayoutOf(m)) = 4 /\ Payload(m.envelope.kind, m.fields) \in Seq(Byte)
         /\ Spelt(Payload(m.envelope.kind, m.fields), DataItems(m), 5)
         /\ \A i \in 1..5 : DataItems(m)[i] \in Seq(Byte)
  <1> DEFINE f == m.fields
             z == DataItems(m)
             lay == LayoutOf(m)
  <1>1. lay = <<"nodeId", "name", "contact", "location">>
    BY DEF LayoutOf, ContactType, RangeType, MetadataType
  <1>2. Len(lay) = 4 /\ lay[1] = "nodeId" /\ lay[2] = "name" /\ lay[3] = "contact" /\ lay[4] = "location"
    BY <1>1
  <1>3. z = [k \in 1..5 |-> IF k = 1 THEN EncodeArrayOpen(4) ELSE FieldItem(m, lay[k - 1])]
    BY <1>2 DEF DataItems
  <1> HIDE DEF z, lay
  <1>4. /\ z[1] = EncodeArrayOpen(4)
        /\ z[2] = FieldItem(m, "nodeId")
        /\ z[3] = FieldItem(m, "name")
        /\ z[4] = FieldItem(m, "contact")
        /\ z[5] = FieldItem(m, "location")
    BY <1>2, <1>3
  <1>5. /\ FieldItem(m, "nodeId") = EncodeInteger(f.nodeId)
        /\ FieldItem(m, "name") = EncodeText(f.name)
        /\ FieldItem(m, "contact") = EncodeText(f.contact)
        /\ FieldItem(m, "location") = EncodeText(f.location)
    BY DEF FieldItem, Texts
  <1>6. /\ EncodeArrayOpen(4) \in Seq(Byte)
        /\ EncodeInteger(f.nodeId) \in Seq(Byte)
        /\ EncodeText(f.name) \in Seq(Byte)
        /\ EncodeText(f.contact) \in Seq(Byte)
        /\ EncodeText(f.location) \in Seq(Byte)
    <2>1. f \in MetadataRecord
      BY MessageTypes
    <2>2. EncodeArrayOpen(4) \in Seq(Byte)
      BY ArrayBytes
    <2>3. /\ f.nodeId \in Vast
      BY <2>1, MetadataTypes
    <2>4. /\ EncodeInteger(f.nodeId) \in Seq(Byte)
      BY <2>3, IntegerBytes
    <2>5. /\ EncodeText(f.name) \in Seq(Byte)
          /\ EncodeText(f.contact) \in Seq(Byte)
          /\ EncodeText(f.location) \in Seq(Byte)
      BY <2>1, MetadataTypes, TextBytes
    <2> QED
      BY <2>2, <2>4, <2>5
  <1>7. \A i \in 1..5 : z[i] \in Seq(Byte)
    BY <1>4, <1>5, <1>6
  <1>8. Payload(m.envelope.kind, f)
          = z[1] \o z[2] \o z[3] \o z[4] \o z[5]
    <2> DEFINE b == EncodeArrayOpen(4) \o EncodeInteger(f.nodeId)
                       \o EncodeText(f.name) \o EncodeText(f.contact)
    <2>1. Payload(m.envelope.kind, f) = b \o EncodeText(f.location) \o <<>>
      <3>1. MetadataElements(f) = 4
        BY DEF MetadataElements
      <3> QED
        BY <3>1 DEF Payload, MetadataPayload, ContactType, RangeType, MetadataType
    <2>2. b \in Seq(Byte)
      BY <1>6
    <2>3. b = z[1] \o z[2] \o z[3] \o z[4]
      BY <1>4, <1>5
    <2> HIDE DEF b
    <2>4. b \o z[5] \in Seq(Byte)
      BY <1>7, <2>2
    <2>5. (b \o z[5]) \o <<>> = b \o z[5]
      BY <2>4, ConcatEmptySeq
    <2> QED
      BY <1>4, <1>5, <2>1, <2>3, <2>5
  <1>9. Spelt(z[1] \o z[2] \o z[3] \o z[4] \o z[5], z, 5) /\ z[1] \o z[2] \o z[3] \o z[4] \o z[5] \in Seq(Byte)
    <2>1. 5 \in Nat /\ 5 >= 4 /\ 5 >= 5
      OBVIOUS
    <2> QED
      BY <1>7, <2>1, SpeltRow
  <1> QED
    BY <1>2, <1>7, <1>8, <1>9 DEF z, lay

LEMMA PositionSpelt ==
  ASSUME NEW m, IsMessage(m), m.envelope.kind = MetadataType,
         ~HasLocation(m.fields), HasGPS(m.fields)
  PROVE  /\ Len(LayoutOf(m)) = 5 /\ Payload(m.envelope.kind, m.fields) \in Seq(Byte)
         /\ Spelt(Payload(m.envelope.kind, m.fields), DataItems(m), 6)
         /\ \A i \in 1..6 : DataItems(m)[i] \in Seq(Byte)
  <1> DEFINE f == m.fields
             z == DataItems(m)
             lay == LayoutOf(m)
  <1>1. lay = <<"nodeId", "name", "contact", "latitude", "longitude">>
    BY DEF LayoutOf, ContactType, RangeType, MetadataType
  <1>2. Len(lay) = 5 /\ lay[1] = "nodeId" /\ lay[2] = "name" /\ lay[3] = "contact" /\ lay[4] = "latitude" /\ lay[5] = "longitude"
    BY <1>1
  <1>3. z = [k \in 1..6 |-> IF k = 1 THEN EncodeArrayOpen(5) ELSE FieldItem(m, lay[k - 1])]
    BY <1>2 DEF DataItems
  <1> HIDE DEF z, lay
  <1>4. /\ z[1] = EncodeArrayOpen(5)
        /\ z[2] = FieldItem(m, "nodeId")
        /\ z[3] = FieldItem(m, "name")
        /\ z[4] = FieldItem(m, "contact")
        /\ z[5] = FieldItem(m, "latitude")
        /\ z[6] = FieldItem(m, "longitude")
    BY <1>2, <1>3
  <1>5. /\ FieldItem(m, "nodeId") = EncodeInteger(f.nodeId)
        /\ FieldItem(m, "name") = EncodeText(f.name)
        /\ FieldItem(m, "contact") = EncodeText(f.contact)
        /\ FieldItem(m, "latitude") = EncodeInteger(f.latitude)
        /\ FieldItem(m, "longitude") = EncodeInteger(f.longitude)
    BY DEF FieldItem, Texts
  <1>6. /\ EncodeArrayOpen(5) \in Seq(Byte)
        /\ EncodeInteger(f.nodeId) \in Seq(Byte)
        /\ EncodeText(f.name) \in Seq(Byte)
        /\ EncodeText(f.contact) \in Seq(Byte)
        /\ EncodeInteger(f.latitude) \in Seq(Byte)
        /\ EncodeInteger(f.longitude) \in Seq(Byte)
    <2>1. f \in MetadataRecord
      BY MessageTypes
    <2>2. EncodeArrayOpen(5) \in Seq(Byte)
      BY ArrayBytes
    <2>3. /\ f.nodeId \in Vast
          /\ f.latitude \in Vast
          /\ f.longitude \in Vast
      BY <2>1, MetadataTypes
    <2>4. /\ EncodeInteger(f.nodeId) \in Seq(Byte)
          /\ EncodeInteger(f.latitude) \in Seq(Byte)
          /\ EncodeInteger(f.longitude) \in Seq(Byte)
      BY <2>3, IntegerBytes
    <2>5. /\ EncodeText(f.name) \in Seq(Byte)
          /\ EncodeText(f.contact) \in Seq(Byte)
      BY <2>1, MetadataTypes, TextBytes
    <2> QED
      BY <2>2, <2>4, <2>5
  <1>7. \A i \in 1..6 : z[i] \in Seq(Byte)
    BY <1>4, <1>5, <1>6
  <1>8. Payload(m.envelope.kind, f)
          = z[1] \o z[2] \o z[3] \o z[4] \o z[5] \o z[6]
    <2> DEFINE b == EncodeArrayOpen(5) \o EncodeInteger(f.nodeId)
                       \o EncodeText(f.name) \o EncodeText(f.contact)
    <2>1. Payload(m.envelope.kind, f) = b \o <<>> \o (EncodeInteger(f.latitude) \o EncodeInteger(f.longitude))
      <3>1. MetadataElements(f) = 5
        BY DEF MetadataElements
      <3> QED
        BY <3>1 DEF Payload, MetadataPayload, ContactType, RangeType, MetadataType
    <2>2. b \in Seq(Byte)
      BY <1>6
    <2>3. b = z[1] \o z[2] \o z[3] \o z[4]
      BY <1>4, <1>5
    <2> HIDE DEF b
    <2>4. b \o <<>> = b
      BY <2>2, ConcatEmptySeq
    <2>5. b \o (z[5] \o z[6]) = (b \o z[5]) \o z[6]
      <3>1. z[5] \in Seq(Byte) /\ z[6] \in Seq(Byte)
        BY <1>7
      <3> QED
        BY <2>2, <3>1, BytesAssociate
    <2> QED
      BY <1>4, <1>5, <2>1, <2>3, <2>4, <2>5
  <1>9. Spelt(z[1] \o z[2] \o z[3] \o z[4] \o z[5] \o z[6], z, 6) /\ z[1] \o z[2] \o z[3] \o z[4] \o z[5] \o z[6] \in Seq(Byte)
    <2>1. 6 \in Nat /\ 6 >= 4 /\ 6 >= 6
      OBVIOUS
    <2> QED
      BY <1>7, <2>1, SpeltRow
  <1> QED
    BY <1>2, <1>7, <1>8, <1>9 DEF z, lay

LEMMA WholeSpelt ==
  ASSUME NEW m, IsMessage(m), m.envelope.kind = MetadataType,
         HasLocation(m.fields), HasGPS(m.fields)
  PROVE  /\ Len(LayoutOf(m)) = 6 /\ Payload(m.envelope.kind, m.fields) \in Seq(Byte)
         /\ Spelt(Payload(m.envelope.kind, m.fields), DataItems(m), 7)
         /\ \A i \in 1..7 : DataItems(m)[i] \in Seq(Byte)
  <1> DEFINE f == m.fields
             z == DataItems(m)
             lay == LayoutOf(m)
  <1>1. lay = <<"nodeId", "name", "contact", "location", "latitude", "longitude">>
    BY DEF LayoutOf, ContactType, RangeType, MetadataType
  <1>2. Len(lay) = 6 /\ lay[1] = "nodeId" /\ lay[2] = "name" /\ lay[3] = "contact" /\ lay[4] = "location" /\ lay[5] = "latitude" /\ lay[6] = "longitude"
    BY <1>1
  <1>3. z = [k \in 1..7 |-> IF k = 1 THEN EncodeArrayOpen(6) ELSE FieldItem(m, lay[k - 1])]
    BY <1>2 DEF DataItems
  <1> HIDE DEF z, lay
  <1>4. /\ z[1] = EncodeArrayOpen(6)
        /\ z[2] = FieldItem(m, "nodeId")
        /\ z[3] = FieldItem(m, "name")
        /\ z[4] = FieldItem(m, "contact")
        /\ z[5] = FieldItem(m, "location")
        /\ z[6] = FieldItem(m, "latitude")
        /\ z[7] = FieldItem(m, "longitude")
    BY <1>2, <1>3
  <1>5. /\ FieldItem(m, "nodeId") = EncodeInteger(f.nodeId)
        /\ FieldItem(m, "name") = EncodeText(f.name)
        /\ FieldItem(m, "contact") = EncodeText(f.contact)
        /\ FieldItem(m, "location") = EncodeText(f.location)
        /\ FieldItem(m, "latitude") = EncodeInteger(f.latitude)
        /\ FieldItem(m, "longitude") = EncodeInteger(f.longitude)
    BY DEF FieldItem, Texts
  <1>6. /\ EncodeArrayOpen(6) \in Seq(Byte)
        /\ EncodeInteger(f.nodeId) \in Seq(Byte)
        /\ EncodeText(f.name) \in Seq(Byte)
        /\ EncodeText(f.contact) \in Seq(Byte)
        /\ EncodeText(f.location) \in Seq(Byte)
        /\ EncodeInteger(f.latitude) \in Seq(Byte)
        /\ EncodeInteger(f.longitude) \in Seq(Byte)
    <2>1. f \in MetadataRecord
      BY MessageTypes
    <2>2. EncodeArrayOpen(6) \in Seq(Byte)
      BY ArrayBytes
    <2>3. /\ f.nodeId \in Vast
          /\ f.latitude \in Vast
          /\ f.longitude \in Vast
      BY <2>1, MetadataTypes
    <2>4. /\ EncodeInteger(f.nodeId) \in Seq(Byte)
          /\ EncodeInteger(f.latitude) \in Seq(Byte)
          /\ EncodeInteger(f.longitude) \in Seq(Byte)
      BY <2>3, IntegerBytes
    <2>5. /\ EncodeText(f.name) \in Seq(Byte)
          /\ EncodeText(f.contact) \in Seq(Byte)
          /\ EncodeText(f.location) \in Seq(Byte)
      BY <2>1, MetadataTypes, TextBytes
    <2> QED
      BY <2>2, <2>4, <2>5
  <1>7. \A i \in 1..7 : z[i] \in Seq(Byte)
    <2> SUFFICES ASSUME NEW i \in 1..7 PROVE z[i] \in Seq(Byte)
      OBVIOUS
    <2>1. i = 1 \/ i = 2 \/ i = 3 \/ i = 4 \/ i = 5 \/ i = 6 \/ i = 7
      OBVIOUS
    <2>2. /\ z[1] \in Seq(Byte) /\ z[2] \in Seq(Byte) /\ z[3] \in Seq(Byte) /\ z[4] \in Seq(Byte)
          /\ z[5] \in Seq(Byte) /\ z[6] \in Seq(Byte) /\ z[7] \in Seq(Byte)
      BY <1>4, <1>5, <1>6
    <2> QED
      BY <2>1, <2>2
  <1>8. Payload(m.envelope.kind, f)
          = z[1] \o z[2] \o z[3] \o z[4] \o z[5] \o z[6] \o z[7]
    <2> DEFINE b == EncodeArrayOpen(6) \o EncodeInteger(f.nodeId)
                       \o EncodeText(f.name) \o EncodeText(f.contact)
    <2>1. Payload(m.envelope.kind, f) = b \o EncodeText(f.location) \o (EncodeInteger(f.latitude) \o EncodeInteger(f.longitude))
      <3>1. MetadataElements(f) = 6
        BY DEF MetadataElements
      <3> QED
        BY <3>1 DEF Payload, MetadataPayload, ContactType, RangeType, MetadataType
    <2>2. b \in Seq(Byte)
      BY <1>6
    <2>3. b = z[1] \o z[2] \o z[3] \o z[4]
      BY <1>4, <1>5
    <2> HIDE DEF b
    <2>4. b \o z[5] \in Seq(Byte)
      BY <1>7, <2>2
    <2>5. (b \o z[5]) \o (z[6] \o z[7]) = ((b \o z[5]) \o z[6]) \o z[7]
      <3>1. z[6] \in Seq(Byte) /\ z[7] \in Seq(Byte)
        BY <1>7
      <3> QED
        BY <2>4, <3>1, BytesAssociate
    <2> QED
      BY <1>4, <1>5, <2>1, <2>3, <2>5
  <1>9. Spelt(z[1] \o z[2] \o z[3] \o z[4] \o z[5] \o z[6] \o z[7], z, 7) /\ z[1] \o z[2] \o z[3] \o z[4] \o z[5] \o z[6] \o z[7] \in Seq(Byte)
    <2>1. 7 \in Nat /\ 7 >= 4 /\ 7 >= 7
      OBVIOUS
    <2> QED
      BY <1>7, <2>1, SpeltRow
  <1> QED
    BY <1>2, <1>7, <1>8, <1>9 DEF z, lay

LEMMA DataSpelt ==
  ASSUME NEW m, IsMessage(m)
  PROVE  /\ Len(LayoutOf(m)) \in 3..7 /\ Payload(m.envelope.kind, m.fields) \in Seq(Byte)
         /\ Spelt(Payload(m.envelope.kind, m.fields), DataItems(m), 1 + Len(LayoutOf(m)))
         /\ \A i \in 1..(1 + Len(LayoutOf(m))) : DataItems(m)[i] \in Seq(Byte)
  <1> DEFINE p == Payload(m.envelope.kind, m.fields)
             z == DataItems(m)
             n == Len(LayoutOf(m))
             Is(k) == /\ n = k /\ p \in Seq(Byte) /\ Spelt(p, z, k + 1)
                      /\ \A i \in 1..(k + 1) : z[i] \in Seq(Byte)
  <1>1. m.envelope.kind \in {ContactType, RangeType, MetadataType}
    BY MessageTypes DEF Kinds
  <1>2. 7 + 1 = 8 /\ 5 + 1 = 6 /\ 3 + 1 = 4 /\ 4 + 1 = 5 /\ 6 + 1 = 7
    OBVIOUS
  <1>3. ASSUME m.envelope.kind = ContactType
        PROVE  \E k \in 3..7 : Is(k)
    <2>1. /\ n = 7 /\ p \in Seq(Byte) /\ Spelt(p, z, 8)
          /\ \A i \in 1..8 : z[i] \in Seq(Byte)
      BY <1>3, ContactSpelt
    <2> HIDE DEF p, z, n
    <2>2. Is(7) /\ 7 \in 3..7
      BY <1>2, <2>1
    <2> HIDE DEF Is
    <2> QED
      BY <2>2
  <1>4. ASSUME m.envelope.kind = RangeType
        PROVE  \E k \in 3..7 : Is(k)
    <2>1. /\ n = 5 /\ p \in Seq(Byte) /\ Spelt(p, z, 6)
          /\ \A i \in 1..6 : z[i] \in Seq(Byte)
      BY <1>4, RangeSpelt
    <2> HIDE DEF p, z, n
    <2>2. Is(5) /\ 5 \in 3..7
      BY <1>2, <2>1
    <2> HIDE DEF Is
    <2> QED
      BY <2>2
  <1>5. ASSUME m.envelope.kind = MetadataType /\ ~HasLocation(m.fields) /\ ~HasGPS(m.fields)
        PROVE  \E k \in 3..7 : Is(k)
    <2>1. /\ n = 3 /\ p \in Seq(Byte) /\ Spelt(p, z, 4)
          /\ \A i \in 1..4 : z[i] \in Seq(Byte)
      BY <1>5, BareSpelt
    <2> HIDE DEF p, z, n
    <2>2. Is(3) /\ 3 \in 3..7
      BY <1>2, <2>1
    <2> HIDE DEF Is
    <2> QED
      BY <2>2
  <1>6. ASSUME m.envelope.kind = MetadataType /\ HasLocation(m.fields) /\ ~HasGPS(m.fields)
        PROVE  \E k \in 3..7 : Is(k)
    <2>1. /\ n = 4 /\ p \in Seq(Byte) /\ Spelt(p, z, 5)
          /\ \A i \in 1..5 : z[i] \in Seq(Byte)
      BY <1>6, LocationSpelt
    <2> HIDE DEF p, z, n
    <2>2. Is(4) /\ 4 \in 3..7
      BY <1>2, <2>1
    <2> HIDE DEF Is
    <2> QED
      BY <2>2
  <1>7. ASSUME m.envelope.kind = MetadataType /\ ~HasLocation(m.fields) /\ HasGPS(m.fields)
        PROVE  \E k \in 3..7 : Is(k)
    <2>1. /\ n = 5 /\ p \in Seq(Byte) /\ Spelt(p, z, 6)
          /\ \A i \in 1..6 : z[i] \in Seq(Byte)
      BY <1>7, PositionSpelt
    <2> HIDE DEF p, z, n
    <2>2. Is(5) /\ 5 \in 3..7
      BY <1>2, <2>1
    <2> HIDE DEF Is
    <2> QED
      BY <2>2
  <1>8. ASSUME m.envelope.kind = MetadataType /\ HasLocation(m.fields) /\ HasGPS(m.fields)
        PROVE  \E k \in 3..7 : Is(k)
    <2>1. /\ n = 6 /\ p \in Seq(Byte) /\ Spelt(p, z, 7)
          /\ \A i \in 1..7 : z[i] \in Seq(Byte)
      BY <1>8, WholeSpelt
    <2> HIDE DEF p, z, n
    <2>2. Is(6) /\ 6 \in 3..7
      BY <1>2, <2>1
    <2> HIDE DEF Is
    <2> QED
      BY <2>2
  <1>9. \E k \in 3..7 : Is(k)
    BY <1>1, <1>3, <1>4, <1>5, <1>6, <1>7, <1>8
  <1> HIDE DEF p, z, n
  <1>10. PICK k \in 3..7 : Is(k)
    BY <1>9
  <1>11. k + 1 = 1 + n /\ n \in 3..7
    BY <1>10
  <1> QED
    BY <1>10, <1>11 DEF p, z, n

\* The bytes an HMAC takes, whether it could be computed or not.
HmacOf(m, from, computed) ==
  IF computed THEN Hmac(Key, writeCborEnvelope(m.envelope, from)
                               \o Payload(m.envelope.kind, m.fields))
  ELSE NullHmac

LEMMA HmacTypes ==
  ASSUME HmacShape, NEW m, IsMessage(m), NEW from \in Vast, NEW computed \in BOOLEAN
  PROVE  /\ HmacOf(m, from, computed) \in [1..DTNEX_HMAC_SIZE -> Byte]
         /\ HmacOf(m, from, computed) \in Seq(Byte)
         /\ Len(HmacOf(m, from, computed)) = DTNEX_HMAC_SIZE
         /\ writeCborEnvelope(m.envelope, from) \o Payload(m.envelope.kind, m.fields) \in Bytes
         /\ Tag(m, from, computed) = EncodeBytes(HmacOf(m, from, computed))
         /\ Tag(m, from, computed) \in Seq(Byte)
  <1> DEFINE body == writeCborEnvelope(m.envelope, from) \o Payload(m.envelope.kind, m.fields)
             h == HmacOf(m, from, computed)
  <1>1. body \in Bytes
    <2>1. writeCborEnvelope(m.envelope, from) \in Seq(Byte)
      BY MessageTypes, EnvelopeSpelt
    <2>2. Payload(m.envelope.kind, m.fields) \in Seq(Byte)
      BY DataSpelt
    <2> QED
      BY <2>1, <2>2, BytesAssociate DEF Bytes
  <1>2. NullHmac \in [1..DTNEX_HMAC_SIZE -> Byte]
    BY DEF NullHmac, Byte
  <1>3. h = IF computed THEN Hmac(Key, body) ELSE NullHmac
    BY DEF HmacOf
  <1>4. Tag(m, from, computed) = EncodeBytes(h)
    BY DEF Tag, HmacOf
  <1>5. DTNEX_HMAC_SIZE \in Nat /\ DTNEX_HMAC_SIZE < 65536
    BY Parameters DEF IsSize
  <1> HIDE DEF body, h
  <1>6. h \in [1..DTNEX_HMAC_SIZE -> Byte]
    BY <1>1, <1>2, <1>3 DEF HmacShape
  <1>7. h \in Seq(Byte) /\ Len(h) = DTNEX_HMAC_SIZE
    BY <1>5, <1>6, FixedBytes
  <1>8. EncodeBytes(h) \in Seq(Byte)
    BY <1>5, <1>7, TextBytes
  <1> QED
    BY <1>1, <1>4, <1>6, <1>7, <1>8 DEF body, h

\* A message is what its items spell: those of the envelope, of the data, and the HMAC.
LEMMA MessageSpelt ==
  ASSUME HmacShape, NEW m, IsMessage(m), NEW from \in Vast, NEW computed \in BOOLEAN
  PROVE  /\ Encode(m.envelope, m.fields, from, computed) \in Seq(Byte)
         /\ Spelt(Encode(m.envelope, m.fields, from, computed), Items(m, from, computed), Size(m))
         /\ Encode(m.envelope, m.fields, from, computed)
              = (writeCborEnvelope(m.envelope, from) \o Payload(m.envelope.kind, m.fields))
                  \o Tag(m, from, computed)
  <1> DEFINE a == writeCborEnvelope(m.envelope, from)
             b == Payload(m.envelope.kind, m.fields)
             t == Tag(m, from, computed)
             x == EnvelopeItems(m.envelope, from)
             y == DataItems(m)
             z == Items(m, from, computed)
             n == Len(LayoutOf(m))
  <1>1. a \in Seq(Byte) /\ Spelt(a, x, 8) /\ \A i \in 1..8 : x[i] \in Seq(Byte)
    BY MessageTypes, EnvelopeSpelt
  <1>2. /\ n \in 3..7 /\ b \in Seq(Byte) /\ Spelt(b, y, 1 + n)
        /\ \A i \in 1..(1 + n) : y[i] \in Seq(Byte)
    BY DataSpelt
  <1>3. t \in Seq(Byte)
    BY HmacTypes
  <1>4. Encode(m.envelope, m.fields, from, computed) = (a \o b) \o t
    BY DEF Encode, appendCborHmac, Tag
  <1>5. Size(m) = 10 + n
    BY DEF Size
  <1>6. z = [k \in 1..(10 + n) |-> IF k <= 8 THEN x[k] ELSE IF k < 10 + n THEN y[k - 8] ELSE t]
    BY <1>5 DEF Items
  <1> HIDE DEF a, b, t, x, y, z, n
  <1>8. \A i \in 1..8 : z[i] = x[i]
    <2> SUFFICES ASSUME NEW i \in 1..8 PROVE z[i] = x[i]
      OBVIOUS
    <2>1. i \in 1..(10 + n)
      BY <1>2
    <2> QED
      BY <1>6, <2>1
  <1>9. \A i \in 1..(1 + n) : z[8 + i] = y[i]
    <2> SUFFICES ASSUME NEW i \in 1..(1 + n) PROVE z[8 + i] = y[i]
      OBVIOUS
    <2>1. 8 + i \in 1..(10 + n) /\ ~(8 + i <= 8) /\ 8 + i < 10 + n /\ 8 + i - 8 = i
      BY <1>2
    <2> QED
      BY <1>6, <2>1
  <1>10. z[10 + n] = t
    <2>1. 10 + n \in 1..(10 + n) /\ ~(10 + n <= 8) /\ ~(10 + n < 10 + n)
      BY <1>2
    <2> QED
      BY <1>6, <2>1
  <1>11. a \o b \in Seq(Byte) /\ (a \o b) \o t \in Seq(Byte)
    BY <1>1, <1>2, <1>3, BytesAssociate
  <1>12. Spelt(a \o b, z, 8 + (1 + n))
    <2>1. 8 \in Nat /\ 1 + n \in Nat
      BY <1>2
    <2> QED
      BY <1>1, <1>2, <1>8, <1>9, <2>1, SpeltJoined
  <1>13. 8 + (1 + n) = 9 + n /\ 9 + n \in Nat
    BY <1>2
  <1>16. \A i \in 1..(9 + n) : z[i] \in Seq(Byte)
    <2> SUFFICES ASSUME NEW i \in 1..(9 + n) PROVE z[i] \in Seq(Byte)
      OBVIOUS
    <2>1. CASE i <= 8
      <3>1. i \in 1..8
        BY <1>2, <2>1
      <3> QED
        BY <1>1, <1>8, <3>1
    <2>2. CASE ~(i <= 8)
      <3>1. i - 8 \in 1..(1 + n) /\ 8 + (i - 8) = i
        BY <1>2, <2>2
      <3>2. z[i] = y[i - 8] /\ y[i - 8] \in Seq(Byte)
        BY <1>2, <1>9, <3>1
      <3> QED
        BY <3>2
    <2> QED
      BY <2>1, <2>2
  <1>17. Spelt((a \o b) \o z[10 + n], z, 10 + n)
    <2>1. /\ Spelt(a \o b, z, 9 + n) /\ 10 + n = (9 + n) + 1 /\ 10 + n <= 10 + n
          /\ 10 + n \in Nat
      BY <1>2, <1>12, <1>13
    <2>2. \A i \in 1..(10 + n) : z[i] \in Seq(Byte)
      <3>1. \A i \in 1..(10 + n) : i \in 1..(9 + n) \/ i = 10 + n
        BY <1>2
      <3> QED
        BY <1>3, <1>10, <1>16, <3>1
    <2> PICK k : k = 10 + n
      OBVIOUS
    <2> PICK j \in Nat : j = 9 + n
      BY <1>2
    <2> PICK ab \in Seq(Byte) : ab = a \o b
      BY <1>11, <1>13
    <2>3. Spelt(ab, z, j) /\ k = j + 1 /\ k <= k /\ k \in Nat
      BY <2>1
    <2>4. \A i \in 1..k : z[i] \in Seq(Byte)
      BY <2>2
    <2>5. Spelt(ab \o z[k], z, k)
      BY <2>3, <2>4, SpeltMore
    <2> QED
      BY <2>5
  <1> QED
    BY <1>4, <1>5, <1>10, <1>11, <1>17 DEF a, b, t, z

\* The items by their places.
LEMMA ItemsAre ==
  ASSUME HmacShape, NEW m, IsMessage(m), NEW from \in Vast, NEW computed \in BOOLEAN
  PROVE  /\ Size(m) = 10 + Len(LayoutOf(m)) /\ Len(LayoutOf(m)) \in 3..7
         /\ \A i \in 1..8 : Items(m, from, computed)[i] = EnvelopeItems(m.envelope, from)[i]
         /\ Items(m, from, computed)[9] = EncodeArrayOpen(Len(LayoutOf(m)))
         /\ \A j \in 1..Len(LayoutOf(m)) :
              Items(m, from, computed)[9 + j] = FieldItem(m, LayoutOf(m)[j])
         /\ Items(m, from, computed)[Size(m)] = EncodeBytes(HmacOf(m, from, computed))
         /\ Items(m, from, computed)[Size(m)] \in Seq(Byte)
  <1> DEFINE x == EnvelopeItems(m.envelope, from)
             y == DataItems(m)
             t == Tag(m, from, computed)
             n == Len(LayoutOf(m))
             z == Items(m, from, computed)
             F(j) == FieldItem(m, LayoutOf(m)[j])
  <1>1. n \in 3..7 /\ Size(m) = 10 + n
    BY DataSpelt DEF Size
  <1>2. t \in Seq(Byte) /\ t = EncodeBytes(HmacOf(m, from, computed))
    BY HmacTypes
  <1>3. z = [k \in 1..(10 + n) |-> IF k <= 8 THEN x[k] ELSE IF k < 10 + n THEN y[k - 8] ELSE t]
    BY <1>1 DEF Items
  <1>4. y = [k \in 1..(1 + n) |-> IF k = 1 THEN EncodeArrayOpen(n) ELSE F(k - 1)]
    BY DEF DataItems
  <1> HIDE DEF x, y, t, n, z, F
  <1>5. \A i \in 1..8 : z[i] = x[i]
    <2> SUFFICES ASSUME NEW i \in 1..8 PROVE z[i] = x[i]
      OBVIOUS
    <2>1. i \in 1..(10 + n)
      BY <1>1
    <2> QED
      BY <1>3, <2>1
  <1>6. z[9] = EncodeArrayOpen(n)
    <2>1. 9 \in 1..(10 + n) /\ ~(9 <= 8) /\ 9 < 10 + n /\ 9 - 8 = 1 /\ 1 \in 1..(1 + n)
      BY <1>1
    <2> QED
      BY <1>3, <1>4, <2>1
  <1>7. \A j \in 1..n : z[9 + j] = F(j)
    <2> SUFFICES ASSUME NEW j \in 1..n PROVE z[9 + j] = F(j)
      OBVIOUS
    <2>1. /\ 9 + j \in 1..(10 + n) /\ ~(9 + j <= 8) /\ 9 + j < 10 + n
          /\ 9 + j - 8 = j + 1 /\ j + 1 \in 1..(1 + n) /\ j + 1 # 1 /\ j + 1 - 1 = j
      BY <1>1
    <2>2. z[9 + j] = y[j + 1]
      BY <1>3, <2>1
    <2>3. y[j + 1] = F(j + 1 - 1)
      BY <1>4, <2>1
    <2> QED
      BY <2>1, <2>2, <2>3
  <1>8. z[10 + n] = t
    <2>1. 10 + n \in 1..(10 + n) /\ ~(10 + n <= 8) /\ ~(10 + n < 10 + n)
      BY <1>1
    <2> QED
      BY <1>3, <2>1
  <1> QED
    BY <1>1, <1>2, <1>5, <1>6, <1>7, <1>8 DEF x, n, z, F

-----------------------------------------------------------------------------
(* Texts: the configuration's as the origin cuts them, and a bundle's as a *)
(* receiver stores them.                                                   *)

LEMMA TextIs ==
  ASSUME NEW s
  PROVE  s \in Text <=> s \in Seq(Byte) /\ \A i \in 1..Len(s) : s[i] # 0
  <1> DEFINE C == 1..255
  <1>1. \A b : b \in C <=> b \in Byte /\ b # 0
    BY DEF Byte
  <1>2. Text = Seq(C)
    BY DEF Text
  <1> HIDE DEF C
  <1>3. ASSUME s \in Seq(Byte), \A i \in 1..Len(s) : s[i] # 0
        PROVE  s \in Seq(C)
    <2>1. s = [i \in 1..Len(s) |-> s[i]] /\ Len(s) \in Nat /\ \A i \in 1..Len(s) : s[i] \in Byte
      BY <1>3
    <2>2. s \in [1..Len(s) -> C]
      BY <1>1, <1>3, <2>1
    <2> QED
      BY <2>1, <2>2
  <1> QED
    BY <1>2, <1>3, TextTypes

LEMMA PieceOfText ==
  ASSUME NEW s \in Text, NEW m \in 1..(Len(s) + 1), NEW n \in (m - 1)..Len(s)
  PROVE  /\ SubSeq(s, m, n) \in Text /\ Len(SubSeq(s, m, n)) = n - m + 1
         /\ Len(s) \in Nat
  <1> DEFINE C == 1..255
  <1>1. s \in Seq(C) /\ Text = Seq(C)
    BY DEF Text
  <1> HIDE DEF C
  <1>2. Len(s) \in Nat /\ \A i \in m..n : s[i] \in C
    BY <1>1
  <1>3. m \in Int /\ n \in Int /\ (m <= n \/ n - m + 1 = 0)
    BY <1>2
  <1> QED
    BY <1>1, <1>2, <1>3, SubSeqProperties

LEMMA WholePiece ==
  ASSUME NEW s \in Seq(Byte)
  PROVE  SubSeq(s, 1, Len(s)) = s
  OBVIOUS

LEMMA CutTypes ==
  ASSUME NEW s \in Text, NEW max, IsSize(max)
  PROVE  /\ Cut(s, max) \in Text /\ Len(Cut(s, max)) <= max - 1
         /\ Len(Cut(s, max)) # max - 1 => Cut(s, max) = s
  <1>1. Len(s) \in Nat /\ max \in Nat /\ max >= 2
    BY DEF IsSize, Text
  <1>2. CASE Len(s) > max - 1
    <2>1. 1 \in 1..(Len(s) + 1) /\ max - 1 \in (1 - 1)..Len(s) /\ max - 1 - 1 + 1 = max - 1
      BY <1>1, <1>2
    <2>2. SubSeq(s, 1, max - 1) \in Text /\ Len(SubSeq(s, 1, max - 1)) = max - 1 - 1 + 1
      BY <2>1, PieceOfText
    <2>3. Cut(s, max) = SubSeq(s, 1, max - 1)
      BY <1>2 DEF Cut
    <2> QED
      BY <1>1, <2>1, <2>2, <2>3
  <1>3. CASE ~(Len(s) > max - 1)
    BY <1>1, <1>3 DEF Cut
  <1> QED
    BY <1>2, <1>3

LEMMA TrimmedTypes ==
  ASSUME NEW s \in Text
  PROVE  /\ Trimmed(s) \in Text
         /\ s # <<>> /\ s[1] # Blank => Trimmed(s) = s
  <1> DEFINE P(i) == (\A j \in 1..(i - 1) : s[j] = Blank) /\ (i <= Len(s) => s[i] # Blank)
             start == CHOOSE i \in 1..(Len(s) + 1) : P(i)
             S == {i \in 1..(Len(s) + 1) : i <= Len(s) => s[i] # Blank}
  <1>1. Len(s) \in Nat /\ s \in Seq(Byte)
    BY TextTypes
  <1>2. S \in SUBSET Nat /\ Len(s) + 1 \in S
    BY <1>1
  <1>3. PICK x \in S : \A y \in S : x <= y
    BY <1>2, LeastOf
  <1>4. x \in 1..(Len(s) + 1) /\ P(x)
    <2>1. x \in 1..(Len(s) + 1) /\ (x <= Len(s) => s[x] # Blank)
      OBVIOUS
    <2>2. ASSUME NEW j \in 1..(x - 1) PROVE s[j] = Blank
      <3>1. j \in 1..(Len(s) + 1) /\ ~(x <= j)
        BY <1>1, <2>1
      <3>2. j \notin S
        BY <1>3, <3>1
      <3> QED
        BY <3>1, <3>2
    <2> QED
      BY <2>1, <2>2
  <1>5. start \in 1..(Len(s) + 1) /\ P(start)
    BY <1>4
  <1>6. Trimmed(s) = SubSeq(s, start, Len(s))
    BY DEF Trimmed
  <1>7. s # <<>> /\ s[1] # Blank => start = 1
    <2> SUFFICES ASSUME s # <<>>, s[1] # Blank PROVE start = 1
      OBVIOUS
    <2>1. start # 1 => 1 \in 1..(start - 1)
      BY <1>1, <1>5
    <2> QED
      BY <1>5, <2>1
  <1> HIDE DEF start, P, S
  <1>8. Len(s) \in (start - 1)..Len(s)
    BY <1>1, <1>5
  <1>9. SubSeq(s, start, Len(s)) \in Text
    BY <1>5, <1>8, PieceOfText
  <1> QED
    BY <1>1, <1>6, <1>7, <1>9, WholePiece

LEMMA StrtokPlace ==
  ASSUME NEW raw \in Seq(Text), NEW last \in Nat
  PROVE  /\ strtok(raw, last) \in Nat /\ strtok(raw, last) >= 1
         /\ last + 1 \in 1..Len(raw) /\ raw[last + 1] # <<>> => strtok(raw, last) = last + 1
  <1> DEFINE ahead == {j \in 1..Len(raw) : j > last /\ raw[j] # <<>>}
             first == CHOOSE j \in ahead : \A i \in ahead : j <= i
  <1>1. Len(raw) \in Nat /\ ahead \in SUBSET Nat
    OBVIOUS
  <1>2. strtok(raw, last) = IF ahead = {} THEN Len(raw) + 1 ELSE first
    BY DEF strtok
  <1>3. ahead # {} => first \in ahead /\ \A i \in ahead : first <= i
    <2> SUFFICES ASSUME ahead # {} PROVE first \in ahead /\ \A i \in ahead : first <= i
      OBVIOUS
    <2>1. PICK x \in ahead : \A i \in ahead : x <= i
      BY <1>1, LeastOf
    <2> QED
      BY <2>1
  <1>4. last + 1 \in 1..Len(raw) /\ raw[last + 1] # <<>> => last + 1 \in ahead
    OBVIOUS
  <1>5. \A i \in ahead : i \in Nat /\ i >= 1 /\ i >= last + 1
    OBVIOUS
  <1> HIDE DEF ahead, first
  <1>6. CASE ahead = {}
    BY <1>1, <1>2, <1>4, <1>6
  <1>7. CASE ahead # {}
    <2>1. strtok(raw, last) = first /\ first \in ahead
      BY <1>2, <1>3, <1>7
    <2>2. first \in Nat /\ first >= 1 /\ first >= last + 1
      BY <1>5, <2>1
    <2>3. last + 1 \in ahead => first <= last + 1
      BY <1>3, <1>7
    <2> QED
      BY <1>4, <2>1, <2>2, <2>3
  <1> QED
    BY <1>6, <1>7

\* Each text is one that the sender's limit leaves.
LEMMA ParsedTypes ==
  ASSUME NEW raw \in Seq(Text)
  PROVE  /\ \A t \in Texts : /\ parseNodeMetadata(raw)[t] \in Text
                             /\ Len(parseNodeMetadata(raw)[t]) <= Limit(t) - 1
         /\ Plain(raw) /\ (\A t \in Texts : Len(parseNodeMetadata(raw)[t]) # Limit(t) - 1) =>
              parseNodeMetadata(raw) = [name |-> raw[1], contact |-> raw[2], location |-> raw[3]]
  <1> DEFINE first == strtok(raw, 0)
             second == strtok(raw, first)
             third == strtok(raw, second)
             field(i, max) == IF i <= Len(raw) THEN Cut(Trimmed(raw[i]), max) ELSE <<>>
             p == parseNodeMetadata(raw)
  <1>1. p = [name |-> field(first, MAX_NODE_NAME_LENGTH),
             contact |-> field(second, MAX_CONTACT_INFO_LENGTH),
             location |-> field(third, MAX_LOCATION_LENGTH)]
    BY DEF parseNodeMetadata
  <1>2. /\ p.name = field(first, Limit("name")) /\ p.contact = field(second, Limit("contact"))
        /\ p.location = field(third, Limit("location"))
    BY <1>1 DEF Limit
  <1>3. first \in Nat /\ first >= 1
    BY StrtokPlace
  <1>4. second \in Nat /\ second >= 1
    BY <1>3, StrtokPlace
  <1>5. third \in Nat /\ third >= 1
    BY <1>4, StrtokPlace
  <1>6. <<>> \in Text /\ Len(<<>>) = 0 /\ Len(raw) \in Nat
    BY DEF Text
  <1>7. ASSUME NEW i \in Nat, i >= 1, NEW t \in Texts
        PROVE  /\ field(i, Limit(t)) \in Text /\ Len(field(i, Limit(t))) <= Limit(t) - 1
               /\ /\ i <= Len(raw) /\ raw[i] # <<>> /\ raw[i][1] # Blank
                  /\ Len(field(i, Limit(t))) # Limit(t) - 1
                  => field(i, Limit(t)) = raw[i]
    <2>1. IsSize(Limit(t)) /\ Limit(t) \in Nat /\ 0 <= Limit(t) - 1
      BY Parameters DEF IsSize
    <2>2. CASE i <= Len(raw)
      <3>1. raw[i] \in Text
        BY <1>6, <1>7, <2>2
      <3>2. /\ Trimmed(raw[i]) \in Text
            /\ raw[i] # <<>> /\ raw[i][1] # Blank => Trimmed(raw[i]) = raw[i]
        BY <3>1, TrimmedTypes
      <3>3. field(i, Limit(t)) = Cut(Trimmed(raw[i]), Limit(t))
        BY <2>2
      <3> HIDE DEF field
      <3>4. /\ Cut(Trimmed(raw[i]), Limit(t)) \in Text
            /\ Len(Cut(Trimmed(raw[i]), Limit(t))) <= Limit(t) - 1
            /\ Len(Cut(Trimmed(raw[i]), Limit(t))) # Limit(t) - 1 =>
                 Cut(Trimmed(raw[i]), Limit(t)) = Trimmed(raw[i])
        BY <2>1, <3>2, CutTypes
      <3> QED
        BY <3>2, <3>3, <3>4
    <2>3. CASE ~(i <= Len(raw))
      BY <1>6, <2>1, <2>3
    <2> QED
      BY <2>2, <2>3
  <1>8. "name" \in Texts /\ "contact" \in Texts /\ "location" \in Texts
        /\ \A t \in Texts : t = "name" \/ t = "contact" \/ t = "location"
    BY DEF Texts
  <1>9. ASSUME NEW t \in Texts PROVE p[t] \in Text /\ Len(p[t]) <= Limit(t) - 1
    <2> HIDE DEF field, first, second, third, p
    <2>1. CASE t = "name"
      BY <1>2, <1>3, <1>7, <2>1
    <2>2. CASE t = "contact"
      BY <1>2, <1>4, <1>7, <2>2
    <2>3. CASE t = "location"
      BY <1>2, <1>5, <1>7, <2>3
    <2> QED
      BY <1>8, <2>1, <2>2, <2>3
  <1>10. ASSUME Plain(raw), \A t \in Texts : Len(p[t]) # Limit(t) - 1
         PROVE  p = [name |-> raw[1], contact |-> raw[2], location |-> raw[3]]
    <2>1. Len(raw) = 3 /\ \A i \in 1..3 : raw[i] # <<>> /\ raw[i][1] # Blank
      BY <1>10 DEF Plain
    <2>0. ASSUME NEW l \in 0..2 PROVE strtok(raw, l) = l + 1
      <3>1. l \in Nat /\ l + 1 \in 1..3
        OBVIOUS
      <3>2. l + 1 \in 1..Len(raw) /\ raw[l + 1] # <<>>
        BY <2>1, <3>1
      <3> QED
        BY <3>1, <3>2, StrtokPlace
    <2>2. first = 1
      BY <2>0
    <2>3. second = 2
      BY <2>0, <2>2
    <2>4. third = 3
      BY <2>0, <2>3
    <2> HIDE DEF first, second, third
    <2>5. /\ p.name = field(1, Limit("name")) /\ p.contact = field(2, Limit("contact"))
          /\ p.location = field(3, Limit("location"))
      BY <1>2, <2>2, <2>3, <2>4
    <2>6. p = [name |-> p.name, contact |-> p.contact, location |-> p.location]
      BY <1>1
    <2> HIDE DEF field, p
    <2>7. ASSUME NEW i \in 1..3, NEW t \in Texts, p[t] = field(i, Limit(t))
          PROVE  p[t] = raw[i]
      <3>1. Len(field(i, Limit(t))) # Limit(t) - 1
        <4>1. Len(p[t]) # Limit(t) - 1
          BY <1>10
        <4> QED
          BY <2>7, <4>1
      <3>2. i \in Nat /\ i >= 1 /\ i <= Len(raw) /\ raw[i] # <<>> /\ raw[i][1] # Blank
        BY <2>1
      <3>3. field(i, Limit(t)) = raw[i]
        BY <1>7, <3>1, <3>2
      <3> QED
        BY <2>7, <3>3
    <2>8. p.name = raw[1] /\ p.contact = raw[2] /\ p.location = raw[3]
      BY <1>8, <2>5, <2>7
    <2> QED
      BY <2>6, <2>8
  <1> QED
    BY <1>9, <1>10

\* What the origin announces is a message.
LEMMA AnnouncedTypes ==
  ASSUME NEW a \in Announced
  PROVE  a.kind \in Kinds /\ FieldsOf(a) \in Record(a.kind) /\ ExpireOf(a) \in Vast
  <1>1. Announceable(a)
    BY WireAssumption
  <1>2. Chain[1] \in Vast
    BY WireAssumption
  <1>3. CASE a.kind = ContactType /\ a.fields \in ContactRecord
    <2>1. a.kind # MetadataType /\ a.kind # RangeType /\ a.kind \in Kinds
      BY <1>3 DEF ContactType, RangeType, MetadataType, Kinds
    <2>2. a.fields.toTime \in Vast
      BY <1>3, ContactTypes
    <2>3. Record(a.kind) = ContactRecord
      BY <1>3, <2>1 DEF Record
    <2>4. FieldsOf(a) = a.fields /\ ExpireOf(a) = a.fields.toTime
      BY <2>1 DEF FieldsOf, ExpireOf
    <2> QED
      BY <1>3, <2>1, <2>2, <2>3, <2>4
  <1>4. CASE a.kind = RangeType /\ a.fields \in RangeRecord
    <2>1. a.kind # MetadataType /\ a.kind # ContactType /\ a.kind \in Kinds
      BY <1>4 DEF ContactType, RangeType, MetadataType, Kinds
    <2>2. a.fields.toTime \in Vast
      BY <1>4, RangeTypes
    <2>3. Record(a.kind) = RangeRecord
      BY <1>4, <2>1 DEF Record
    <2>4. FieldsOf(a) = a.fields /\ ExpireOf(a) = a.fields.toTime
      BY <2>1 DEF FieldsOf, ExpireOf
    <2> QED
      BY <1>4, <2>1, <2>2, <2>3, <2>4
  <1>5. CASE /\ a.kind = MetadataType /\ a.nodemetadata \in Seq(Text)
             /\ a.expire \in Vast /\ a.latitude \in Degrees /\ a.longitude \in Degrees
    <2> DEFINE p == parseNodeMetadata(a.nodemetadata)
               f == [nodeId |-> Chain[1], name |-> p.name, contact |-> p.contact,
                     location |-> p.location, latitude |-> a.latitude, longitude |-> a.longitude]
    <2>1. a.kind # RangeType /\ a.kind # ContactType /\ a.kind \in Kinds
      BY <1>5 DEF ContactType, RangeType, MetadataType, Kinds
    <2>2. FieldsOf(a) = f /\ ExpireOf(a) = a.expire
      BY <1>5 DEF FieldsOf, ExpireOf
    <2>3. \A t \in Texts : p[t] \in Text /\ Len(p[t]) <= Limit(t) - 1
      BY <1>5, ParsedTypes
    <2> HIDE DEF p
    <2>4. \A t \in Texts : f[t] = p[t]
      BY DEF Texts
    <2>5. /\ p.name \in Bytes /\ p.contact \in Bytes /\ p.location \in Bytes
      BY <2>3, TextTypes DEF Texts, Bytes
    <2>6. a.latitude \in Vast /\ a.longitude \in Vast
      BY <1>5 DEF Degrees
    <2>7. f \in MetadataFields
      BY <1>2, <2>5, <2>6 DEF MetadataFields
    <2>8. f.latitude = a.latitude /\ f.longitude = a.longitude
      OBVIOUS
    <2> HIDE DEF f
    <2>9. f \in MetadataRecord
      BY <1>5, <2>3, <2>4, <2>7, <2>8 DEF MetadataRecord
    <2> QED
      BY <1>5, <2>1, <2>2, <2>9 DEF Record
  <1> QED
    BY <1>1, <1>3, <1>4, <1>5 DEF Announceable

\* What strncpy and strlen make of a string of bytes.
LEMMA CStringTypes ==
  ASSUME NEW s \in Seq(Byte)
  PROVE  /\ CString(s) \in Text /\ Len(CString(s)) <= Len(s)
         /\ s \in Text => CString(s) = s
  <1> DEFINE ends == {i \in 1..Len(s) : s[i] = 0}
             first == CHOOSE i \in ends : \A j \in ends : i <= j
  <1>1. Len(s) \in Nat /\ ends \in SUBSET Nat
    OBVIOUS
  <1>2. CString(s) = IF ends = {} THEN s ELSE SubSeq(s, 1, first - 1)
    BY DEF CString
  <1>3. s \in Text => ends = {}
    BY TextIs
  <1>4. CASE ends = {}
    <2>1. s \in Text
      BY <1>4, TextIs
    <2> QED
      BY <1>1, <1>2, <1>4, <2>1
  <1>5. CASE ends # {}
    <2>1. PICK x \in ends : \A i \in ends : x <= i
      BY <1>1, <1>5, LeastOf
    <2>2. first \in ends /\ \A i \in ends : first <= i
      BY <2>1
    <2>3. first \in 1..Len(s)
      BY <2>2
    <2>4. \A i \in 1..(first - 1) : i \in 1..Len(s) /\ s[i] # 0
      <3> SUFFICES ASSUME NEW i \in 1..(first - 1) PROVE i \in 1..Len(s) /\ s[i] # 0
        OBVIOUS
      <3>1. i \in 1..Len(s) /\ ~(first <= i)
        BY <1>1, <2>3
      <3>2. i \notin ends
        BY <2>2, <3>1
      <3> QED
        BY <3>1, <3>2
    <2> HIDE DEF first, ends
    <2> DEFINE c == SubSeq(s, 1, first - 1)
    <2>5. 1 \in 1..(Len(s) + 1) /\ first - 1 \in (1 - 1)..Len(s) /\ first - 1 \in Nat
      BY <1>1, <2>3
    <2>6. /\ c \in Seq(Byte) /\ Len(c) = first - 1
          /\ \A i \in 1..(first - 1) : c[i] = s[i]
      <3>1. c = [i \in 1..(first - 1) |-> s[i]]
        BY <1>1, <2>5
      <3>2. \A i \in 1..(first - 1) : s[i] \in Byte
        BY <2>4
      <3>3. c \in [1..(first - 1) -> Byte]
        BY <3>1, <3>2
      <3>4. c \in Seq(Byte) /\ Len(c) = first - 1
        BY <2>5, <3>3, FixedBytes
      <3> QED
        BY <3>1, <3>4
    <2>7. c \in Text
      BY <2>4, <2>6, TextIs
    <2>8. first - 1 <= Len(s)
      BY <1>1, <2>3
    <2> QED
      BY <1>2, <1>3, <1>5, <2>6, <2>7, <2>8
  <1> QED
    BY <1>4, <1>5

-----------------------------------------------------------------------------
(* The length of a message.                                                *)

\* The sizes that dtnex.h gives.
CodeSizes ==
  DTNEX_PROTOCOL_VERSION < 24 /\ DTNEX_NONCE_SIZE <= 3 /\ DTNEX_HMAC_SIZE <= 8
    /\ MAX_CBOR_BUFFER = 128

Short(s, n) == s \in Seq(Byte) /\ Len(s) \in Nat /\ Len(s) <= n

LEMMA JoinedShort ==
  ASSUME NEW s, NEW t, NEW m \in Nat, NEW n \in Nat, Short(s, m), Short(t, n)
  PROVE  Short(s \o t, m + n)
  <1>1. s \o t \in Seq(Byte) /\ Len(s \o t) = Len(s) + Len(t)
    BY ConcatProperties DEF Short
  <1> QED
    BY <1>1 DEF Short

LEMMA RowIsShort ==
  ASSUME NEW p, NEW q, NEW r, NEW s, NEW i \in Nat, NEW j \in Nat, NEW k \in Nat, NEW l \in Nat,
         Short(p, i), Short(q, j), Short(r, k), Short(s, l)
  PROVE  Short(p \o q \o r \o s, i + j + k + l)
  <1>1. Short(p \o q, i + j) /\ i + j \in Nat
    BY JoinedShort
  <1>2. Short(p \o q \o r, i + j + k) /\ i + j + k \in Nat
    BY <1>1, JoinedShort
  <1> QED
    BY <1>2, JoinedShort

\* A number takes its width and one byte, a text of less than 256 bytes one or two.
LEMMA NumberIsShort ==
  ASSUME NEW v \in Vast
  PROVE  /\ Short(EncodeInteger(v), 9) /\ Width(v) <= 8
         /\ \A w \in Nat : Width(v) <= w => Short(EncodeInteger(v), 1 + w)
         /\ UInt32(v) = v => Width(v) <= 4
  <1>1. /\ EncodeInteger(v) \in Seq(Byte) /\ Len(EncodeInteger(v)) = 1 + Width(v)
        /\ Width(v) \in {0, 1, 2, 4, 8}
    BY IntegerBytes
  <1>2. ASSUME UInt32(v) = v PROVE \A i \in 1..4 : v[i] = 0
    BY <1>2 DEF UInt32
  <1>3. ASSUME UInt32(v) = v PROVE Width(v) # 8
    <2>1. ~\E i \in 1..4 : v[i] # 0
      BY <1>2, <1>3
    <2> QED
      BY <2>1 DEF Width
  <1> QED
    BY <1>1, <1>3 DEF Short

HeadOf(n) == IF n < 24 THEN 1 ELSE 2

LEMMA LengthHead ==
  ASSUME NEW n \in Nat, n <= 255
  PROVE  1 + Width(Small(n)) = HeadOf(n)
  <1>1. Small(n)[8] = n /\ \A i \in 1..7 : Small(n)[i] = 0
    BY DEF Small
  <1>2. /\ ~\E i \in 1..4 : Small(n)[i] # 0
        /\ ~(Small(n)[5] # 0 \/ Small(n)[6] # 0) /\ ~(Small(n)[7] # 0)
    BY <1>1
  <1>3. Width(Small(n)) = IF n >= 24 THEN 1 ELSE 0
    BY <1>1, <1>2, Zenon DEF Width
  <1> QED
    BY <1>3 DEF HeadOf

LEMMA StringIsShort ==
  ASSUME NEW s \in Seq(Byte), Len(s) <= 255
  PROVE  /\ Short(EncodeText(s), HeadOf(Len(s)) + Len(s))
         /\ Short(EncodeBytes(s), HeadOf(Len(s)) + Len(s))
         /\ Len(s) \in Nat /\ HeadOf(Len(s)) + Len(s) \in Nat
  <1> DEFINE n == Len(s)
  <1>1. n \in Nat /\ n <= 255 /\ n < 65536
    OBVIOUS
  <1>2. /\ EncodeText(s) \in Seq(Byte) /\ Len(EncodeText(s)) = 1 + Width(Small(n)) + n
        /\ EncodeBytes(s) \in Seq(Byte) /\ Len(EncodeBytes(s)) = 1 + Width(Small(n)) + n
    BY <1>1, TextBytes
  <1> HIDE DEF n
  <1>3. 1 + Width(Small(n)) = HeadOf(n)
    BY <1>1, LengthHead
  <1>4. HeadOf(n) \in Nat
    BY DEF HeadOf
  <1>5. HeadOf(n) + n \in Nat
    BY <1>1, <1>4
  <1> QED
    BY <1>1, <1>2, <1>3, <1>5 DEF Short, n

LEMMA ArrayIsShort ==
  ASSUME NEW n \in 0..23
  PROVE  Short(EncodeArrayOpen(n), 1)
PROOF
  <1>1. EncodeArrayOpen(n) \in Seq(Byte) /\ Len(EncodeArrayOpen(n)) = 1
    BY ArrayBytes
  <1>2. 1 \in Nat /\ 1 <= 1
    OBVIOUS
  <1> QED
    BY <1>1, <1>2, Zenon DEF Short

LEMMA LengthIsNatural ==
  ASSUME NEW s \in Seq(Byte)
  PROVE  Len(s) \in Nat
  OBVIOUS

\* An envelope has forty-four bytes at most, thirty-six with times of four bytes.
LEMMA EnvelopeIsShort ==
  ASSUME CodeSizes, NEW e \in Envelope, NEW from \in Vast, NEW w \in Nat,
         Width(e.timestamp) <= w, Width(e.expire) <= w
  PROVE  Short(writeCborEnvelope(e, from), 28 + 2 * w)
  <1> DEFINE a1 == EncodeArrayOpen(9)
             a2 == EncodeInteger(Small(DTNEX_PROTOCOL_VERSION))
             a3 == EncodeText(<<e.kind>>)
             a4 == EncodeInteger(e.timestamp)
             a5 == EncodeInteger(e.expire)
             a6 == EncodeInteger(e.origin)
             a7 == EncodeInteger(from)
             a8 == EncodeBytes(e.nonce)
  <1>1. /\ e.kind \in Kinds /\ e.timestamp \in Vast /\ e.expire \in Vast /\ e.origin \in Vast
        /\ e.nonce \in Seq(Byte) /\ Len(e.nonce) = DTNEX_NONCE_SIZE
    BY EnvelopeTypes
  <1>2. Short(a1, 1)
    <2>1. 9 \in 0..23
      OBVIOUS
    <2> QED
      BY <2>1, ArrayIsShort
  <1>3. Short(a2, 1)
    <2>1. DTNEX_PROTOCOL_VERSION \in 0..23
      BY Parameters DEF CodeSizes, IsSize
    <2>a. /\ Small(DTNEX_PROTOCOL_VERSION) \in Vast
          /\ Width(Small(DTNEX_PROTOCOL_VERSION)) = 0
      BY <2>1, ArrayBytes
    <2>b. 0 \in Nat /\ 1 + 0 = 1 /\ 0 <= 0
      OBVIOUS
    <2>2. /\ Small(DTNEX_PROTOCOL_VERSION) \in Vast /\ Width(Small(DTNEX_PROTOCOL_VERSION)) <= 0
          /\ 0 \in Nat /\ 1 + 0 = 1
      BY <2>a, <2>b, Zenon
    <2>3. Short(a2, 1 + 0)
      BY <2>2, NumberIsShort
    <2> QED
      BY <2>2, <2>3
  <1>4. Short(a3, 2)
    <2> DEFINE k == <<e.kind>>
    <2>1. k \in Seq(Byte) /\ Len(k) = 1
      BY <1>1, KindBytes
    <2> HIDE DEF k
    <2>a. Len(k) <= 255
      BY <2>1
    <2>b. Short(EncodeText(k), HeadOf(Len(k)) + Len(k))
      BY <2>1, <2>a, StringIsShort
    <2>2. Short(EncodeText(k), HeadOf(1) + 1)
      BY <2>1, <2>b, Zenon
    <2>3. HeadOf(1) + 1 = 2
      BY DEF HeadOf
    <2> QED
      BY <2>2, <2>3 DEF k
  <1>5. Short(a4, 1 + w) /\ Short(a5, 1 + w) /\ Short(a6, 9) /\ Short(a7, 9)
    BY <1>1, NumberIsShort
  <1>6. Short(a8, 4)
    <2> DEFINE n == e.nonce
    <2>1. n \in Seq(Byte) /\ Len(n) <= 255 /\ Len(n) <= 3 /\ Len(n) \in Nat
      BY <1>1, Parameters DEF CodeSizes, IsSize
    <2> HIDE DEF n
    <2>2. Short(EncodeBytes(n), HeadOf(Len(n)) + Len(n))
      BY <2>1, StringIsShort
    <2>3. HeadOf(Len(n)) + Len(n) <= 4
      BY <2>1 DEF HeadOf
    <2>4. HeadOf(Len(n)) + Len(n) \in Nat
      BY <2>1 DEF HeadOf
    <2> QED
      BY <2>2, <2>3, <2>4 DEF Short, n
  <1>7. writeCborEnvelope(e, from) = a1 \o a2 \o a3 \o a4 \o a5 \o a6 \o a7 \o a8
    BY DEF writeCborEnvelope
  <1> HIDE DEF a1, a2, a3, a4, a5, a6, a7, a8
  <1>8. Short(a1 \o a2 \o a3 \o a4, 1 + 1 + 2 + (1 + w)) /\ 1 + 1 + 2 + (1 + w) \in Nat
        /\ 1 \in Nat /\ 2 \in Nat /\ 1 + w \in Nat /\ 9 \in Nat
    BY <1>2, <1>3, <1>4, <1>5, RowIsShort
  <1>9. Short(a1 \o a2 \o a3 \o a4 \o a5 \o a6 \o a7, 1 + 1 + 2 + (1 + w) + (1 + w) + 9 + 9)
        /\ 1 + 1 + 2 + (1 + w) + (1 + w) + 9 + 9 \in Nat
    BY <1>5, <1>8, RowIsShort
  <1>10. Short(a1 \o a2 \o a3 \o a4 \o a5 \o a6 \o a7 \o a8,
               1 + 1 + 2 + (1 + w) + (1 + w) + 9 + 9 + 4)
    BY <1>6, <1>9, JoinedShort
  <1>11. 1 + 1 + 2 + (1 + w) + (1 + w) + 9 + 9 + 4 = 28 + 2 * w
    OBVIOUS
  <1> QED
    BY <1>7, <1>10, <1>11

LEMMA ContactIsShort ==
  ASSUME NEW f \in ContactRecord
  PROVE  Short(ContactPayload(f), 64)
  <1> DEFINE a1 == EncodeArrayOpen(7)
             a2 == EncodeInteger(f.regionNbr)
             a3 == EncodeInteger(f.fromNode)
             a4 == EncodeInteger(f.toNode)
             a5 == EncodeInteger(f.fromTime)
             a6 == EncodeInteger(f.toTime)
             a7 == EncodeInteger(f.xmitRate)
             a8 == EncodeInteger(f.confidence)
  <1>1. Short(a1, 1)
    <2>1. 7 \in 0..23
      OBVIOUS
    <2> QED
      BY <2>1, ArrayIsShort
  <1>2. /\ Short(a2, 9) /\ Short(a3, 9) /\ Short(a4, 9) /\ Short(a5, 9) /\ Short(a6, 9)
        /\ Short(a7, 9) /\ Short(a8, 9)
    BY ContactTypes, NumberIsShort
  <1>3. ContactPayload(f) = a1 \o a2 \o a3 \o a4 \o a5 \o a6 \o a7 \o a8
    BY DEF ContactPayload
  <1> HIDE DEF a1, a2, a3, a4, a5, a6, a7, a8
  <1>4. 1 \in Nat /\ 9 \in Nat /\ 28 \in Nat /\ 55 \in Nat /\ 1 + 9 + 9 + 9 = 28
        /\ 28 + 9 + 9 + 9 = 55 /\ 55 + 9 = 64
    OBVIOUS
  <1>5. Short(a1 \o a2 \o a3 \o a4, 1 + 9 + 9 + 9)
    BY <1>1, <1>2, <1>4, RowIsShort
  <1>6. Short(a1 \o a2 \o a3 \o a4 \o a5 \o a6 \o a7, 28 + 9 + 9 + 9)
    BY <1>2, <1>4, <1>5, RowIsShort
  <1>7. Short(a1 \o a2 \o a3 \o a4 \o a5 \o a6 \o a7 \o a8, 55 + 9)
    BY <1>2, <1>4, <1>6, JoinedShort
  <1> QED
    BY <1>3, <1>4, <1>7

LEMMA RangeIsShort ==
  ASSUME NEW f \in RangeRecord
  PROVE  Short(RangePayload(f), 64)
  <1> DEFINE a1 == EncodeArrayOpen(5)
             a2 == EncodeInteger(f.fromNode)
             a3 == EncodeInteger(f.toNode)
             a4 == EncodeInteger(f.fromTime)
             a5 == EncodeInteger(f.toTime)
             a6 == EncodeInteger(f.owlt)
  <1>1. Short(a1, 1)
    <2>1. 5 \in 0..23
      OBVIOUS
    <2> QED
      BY <2>1, ArrayIsShort
  <1>2. /\ Short(a2, 9) /\ Short(a3, 9) /\ Short(a4, 9) /\ Short(a5, 9) /\ Short(a6, 9)
    BY RangeTypes, NumberIsShort
  <1>3. RangePayload(f) = a1 \o a2 \o a3 \o a4 \o a5 \o a6
    BY DEF RangePayload
  <1> HIDE DEF a1, a2, a3, a4, a5, a6
  <1>4. 1 \in Nat /\ 9 \in Nat /\ 28 \in Nat /\ 37 \in Nat /\ 1 + 9 + 9 + 9 = 28
        /\ 28 + 9 = 37 /\ 37 + 9 <= 64
    OBVIOUS
  <1>5. Short(a1 \o a2 \o a3 \o a4, 1 + 9 + 9 + 9)
    BY <1>1, <1>2, <1>4, RowIsShort
  <1>6. Short(a1 \o a2 \o a3 \o a4 \o a5, 28 + 9)
    BY <1>2, <1>4, <1>5, JoinedShort
  <1>7. Short(a1 \o a2 \o a3 \o a4 \o a5 \o a6, 37 + 9)
    BY <1>2, <1>4, <1>6, JoinedShort
  <1>8. Short(a1 \o a2 \o a3 \o a4 \o a5 \o a6, 64)
    BY <1>4, <1>7 DEF Short
  <1> QED
    BY <1>3, <1>8

\* Of three texts with fifty bytes in all, two at most need a head of two bytes.
LEMMA ThreeHeads ==
  ASSUME NEW i \in Nat, NEW j \in Nat, NEW k \in Nat, i + j + k <= 50
  PROVE  HeadOf(i) + HeadOf(j) + HeadOf(k) <= 5
  BY DEF HeadOf

LEMMA MetadataIsShort ==
  ASSUME NEW f \in MetadataRecord, TextsOf(f) <= 50
  PROVE  Short(MetadataPayload(f), 83)
  <1> DEFINE a1 == EncodeArrayOpen(MetadataElements(f))
             a2 == EncodeInteger(f.nodeId)
             a3 == EncodeText(f.name)
             a4 == EncodeText(f.contact)
             a5 == IF HasLocation(f) THEN EncodeText(f.location) ELSE <<>>
             a6 == IF HasGPS(f) THEN EncodeInteger(f.latitude) \o EncodeInteger(f.longitude)
                   ELSE <<>>
             i == Len(f.name)
             j == Len(f.contact)
             k == Len(f.location)
             b3 == HeadOf(i) + i
             b4 == HeadOf(j) + j
             b5 == HeadOf(k) + k
  <1>1. /\ f.nodeId \in Vast /\ f.latitude \in Vast /\ f.longitude \in Vast
        /\ f.name \in Seq(Byte) /\ f.contact \in Seq(Byte) /\ f.location \in Seq(Byte)
    BY MetadataTypes
  <1>a. i \in Nat /\ j \in Nat /\ k \in Nat
    BY <1>1, LengthIsNatural, Zenon
  <1>b. i + j + k <= 50
    BY DEF TextsOf
  <1> HIDE DEF i, j, k
  <1>2. i \in Nat /\ j \in Nat /\ k \in Nat /\ i + j + k <= 50
    BY <1>a, <1>b
  <1>3. i <= 255 /\ j <= 255 /\ k <= 255
    BY <1>2
  <1> USE DEF i, j, k
  <1>4. Short(a1, 1)
    <2>1. MetadataElements(f) \in 0..23
      BY DEF MetadataElements
    <2> QED
      BY <2>1, ArrayIsShort
  <1>5. Short(a2, 9)
    BY <1>1, NumberIsShort
  <1>6. /\ Short(a3, b3) /\ Short(a4, b4) /\ Short(EncodeText(f.location), b5)
        /\ b3 \in Nat /\ b4 \in Nat /\ b5 \in Nat
    BY <1>1, <1>3, StringIsShort
  <1>7. \A n \in Nat : Short(<<>>, n)
    BY DEF Short
  <1>8. Short(a5, b5)
    BY <1>6, <1>7
  <1>9. Short(a6, 18)
    <2> DEFINE p == EncodeInteger(f.latitude)
               q == EncodeInteger(f.longitude)
    <2>1. Short(p, 9) /\ Short(q, 9) /\ 9 \in Nat /\ 9 + 9 = 18 /\ 18 \in Nat
      BY <1>1, NumberIsShort
    <2> HIDE DEF p, q
    <2>2. Short(p \o q, 9 + 9)
      BY <2>1, JoinedShort
    <2> QED
      BY <1>7, <2>1, <2>2 DEF p, q
  <1>10. MetadataPayload(f) = a1 \o a2 \o a3 \o a4 \o a5 \o a6
    BY DEF MetadataPayload
  <1>11. b3 + b4 + b5 <= 55
    <2>1. HeadOf(i) + HeadOf(j) + HeadOf(k) <= 5
      BY <1>2, ThreeHeads
    <2>2. HeadOf(i) \in Nat /\ HeadOf(j) \in Nat /\ HeadOf(k) \in Nat
      BY DEF HeadOf
    <2> HIDE DEF i, j, k
    <2> QED
      BY <1>2, <2>1, <2>2
  <1> HIDE DEF a1, a2, a3, a4, a5, a6, i, j, k, b3, b4, b5
  <1>12. Short(a1 \o a2 \o a3 \o a4, 1 + 9 + b3 + b4) /\ 1 + 9 + b3 + b4 \in Nat
         /\ 18 \in Nat /\ 1 \in Nat /\ 9 \in Nat
    BY <1>4, <1>5, <1>6, RowIsShort
  <1>13. Short(a1 \o a2 \o a3 \o a4 \o a5, 1 + 9 + b3 + b4 + b5) /\ 1 + 9 + b3 + b4 + b5 \in Nat
    BY <1>6, <1>8, <1>12, JoinedShort
  <1>14. Short(a1 \o a2 \o a3 \o a4 \o a5 \o a6, 1 + 9 + b3 + b4 + b5 + 18)
    BY <1>9, <1>12, <1>13, JoinedShort
  <1>15. 1 + 9 + b3 + b4 + b5 + 18 <= 83
    BY <1>6, <1>11
  <1>16. 1 + 9 + b3 + b4 + b5 + 18 \in Nat
    BY <1>6
  <1>17. Short(a1 \o a2 \o a3 \o a4 \o a5 \o a6, 83)
    <2> DEFINE z == a1 \o a2 \o a3 \o a4 \o a5 \o a6
    <2>1. z \in Seq(Byte) /\ Len(z) \in Nat /\ Len(z) <= 1 + 9 + b3 + b4 + b5 + 18
      BY <1>14 DEF Short
    <2> HIDE DEF z
    <2>2. Len(z) <= 83
      BY <1>15, <1>16, <2>1
    <2>3. Short(z, 83)
      BY <2>1, <2>2 DEF Short
    <2> QED
      BY <2>3 DEF z
  <1> QED
    BY <1>10, <1>17

LEMMA PayloadOfKind ==
  ASSUME NEW f
  PROVE  /\ Payload(ContactType, f) = ContactPayload(f)
         /\ Payload(RangeType, f) = RangePayload(f)
         /\ Payload(MetadataType, f) = MetadataPayload(f)
  BY KindsDiffer, Zenon DEF Payload

LEMMA ThreeNaturals ==
  ASSUME NEW i \in Nat, NEW j \in Nat, NEW k \in Nat
  PROVE  i + j + k \in Nat
  OBVIOUS

LEMMA MessageIsShort ==
  ASSUME CodeSizes, HmacShape, NEW m, IsMessage(m), NEW from \in Vast, NEW computed \in BOOLEAN,
         ~MayOverrun(m.envelope, m.fields)
  PROVE  Short(Encode(m.envelope, m.fields, from, computed), MAX_CBOR_BUFFER)
  <1> DEFINE e == m.envelope
             x == writeCborEnvelope(e, from)
             y == Payload(e.kind, m.fields)
             h == HmacOf(m, from, computed)
             t == Tag(m, from, computed)
  <1>1. /\ e \in Envelope /\ e.kind \in Kinds /\ e.timestamp \in Vast /\ e.expire \in Vast
        /\ e.kind = ContactType => m.fields \in ContactRecord
        /\ e.kind = RangeType => m.fields \in RangeRecord
        /\ e.kind = MetadataType => m.fields \in MetadataRecord
    BY MessageTypes, EnvelopeTypes
  <1>2. Short(t, 9)
    <2>1. h \in Seq(Byte) /\ Len(h) = DTNEX_HMAC_SIZE /\ t = EncodeBytes(h)
      BY HmacTypes
    <2> HIDE DEF h, t
    <2>2. Len(h) \in Nat /\ Len(h) <= 8 /\ Len(h) <= 255
      BY <2>1, Parameters DEF CodeSizes, IsSize
    <2>3. Short(EncodeBytes(h), HeadOf(Len(h)) + Len(h))
      BY <2>1, <2>2, StringIsShort
    <2>4. HeadOf(Len(h)) + Len(h) <= 9 /\ HeadOf(Len(h)) + Len(h) \in Nat
      BY <2>2 DEF HeadOf
    <2> QED
      BY <2>1, <2>3, <2>4 DEF Short
  <1>3. Encode(e, m.fields, from, computed) = (x \o y) \o t
    BY MessageSpelt
  <1>4. Short(x, 44)
    <2>1. 8 \in Nat /\ 28 + 2 * 8 = 44
      OBVIOUS
    <2>2. Short(x, 28 + 2 * 8)
      BY <1>1, <2>1, NumberIsShort, EnvelopeIsShort
    <2> QED
      BY <2>1, <2>2
  <1>5. e.kind = MetadataType => Short(x, 36) /\ TextsOf(m.fields) <= 50
    <2> SUFFICES ASSUME e.kind = MetadataType PROVE Short(x, 36) /\ TextsOf(m.fields) <= 50
      OBVIOUS
    <2>1. /\ ~(TextsOf(m.fields) > TextBudget)
          /\ UInt32(e.timestamp) = e.timestamp /\ UInt32(e.expire) = e.expire
      BY DEF MayOverrun
    <2>2. TextBudget = 50
      BY DEF TextBudget, CodeSizes
    <2>3. TextsOf(m.fields) \in Nat
      <3>1. /\ m.fields.name \in Seq(Byte) /\ m.fields.contact \in Seq(Byte)
            /\ m.fields.location \in Seq(Byte)
        BY <1>1, MetadataTypes
      <3>2. /\ Len(m.fields.name) \in Nat /\ Len(m.fields.contact) \in Nat
            /\ Len(m.fields.location) \in Nat
        BY <3>1, LengthIsNatural, Zenon
      <3> QED
        BY <3>2, ThreeNaturals, Zenon DEF TextsOf
    <2>4. 4 \in Nat /\ 28 + 2 * 4 = 36
      OBVIOUS
    <2>5. Short(x, 28 + 2 * 4)
      BY <1>1, <2>1, <2>4, NumberIsShort, EnvelopeIsShort
    <2> QED
      BY <2>1, <2>2, <2>3, <2>4, <2>5
  <1>6. Short(x \o y, 119)
    <2>1. CASE e.kind = ContactType
      <3>1. y = ContactPayload(m.fields)
        BY <2>1, PayloadOfKind, Zenon
      <3>2. Short(y, 64) /\ 64 \in Nat /\ 44 \in Nat /\ 44 + 64 <= 119
        BY <1>1, <2>1, <3>1, ContactIsShort
      <3> HIDE DEF x, y
      <3>3. Short(x \o y, 44 + 64)
        BY <1>4, <3>2, JoinedShort
      <3> QED
        BY <3>2, <3>3 DEF Short
    <2>2. CASE e.kind = RangeType
      <3>1. y = RangePayload(m.fields)
        BY <2>2, PayloadOfKind, Zenon
      <3>2. Short(y, 64) /\ 64 \in Nat /\ 44 \in Nat /\ 44 + 64 <= 119
        BY <1>1, <2>2, <3>1, RangeIsShort
      <3> HIDE DEF x, y
      <3>3. Short(x \o y, 44 + 64)
        BY <1>4, <3>2, JoinedShort
      <3> QED
        BY <3>2, <3>3 DEF Short
    <2>3. CASE e.kind = MetadataType
      <3>1. y = MetadataPayload(m.fields)
        BY <2>3, PayloadOfKind, Zenon
      <3>2. Short(y, 83) /\ 83 \in Nat /\ 36 \in Nat /\ 36 + 83 = 119
        BY <1>1, <1>5, <2>3, <3>1, MetadataIsShort
      <3> HIDE DEF x, y
      <3>3. Short(x \o y, 36 + 83)
        BY <1>5, <2>3, <3>2, JoinedShort
      <3> QED
        BY <3>2, <3>3
    <2> QED
      BY <1>1, <2>1, <2>2, <2>3 DEF Kinds
  <1> HIDE DEF x, y, t
  <1>7. 119 \in Nat /\ 9 \in Nat /\ 119 + 9 = 128
    OBVIOUS
  <1>8. Short((x \o y) \o t, 119 + 9)
    BY <1>2, <1>6, <1>7, JoinedShort
  <1> QED
    BY <1>3, <1>7, <1>8 DEF CodeSizes

-----------------------------------------------------------------------------
(* The reception thread: a row is handed over and written before the       *)
(* thread passes the message on and takes the next.                        *)

Reached == {"envelope", "data", "fields", "hmac", "handler", "forward"}

ReceptionInv ==
  /\ stage # "forward" => call["reception"] = Idle
  /\ stage \in Reached => receiving
  /\ stage \in {"encoded", "flying"} /\ hop # 1 => receiving

WireInv == TableInv /\ ReceptionInv

LEMMA InitWire == Init => WireInv
  <1> SUFFICES ASSUME Init PROVE WireInv
    OBVIOUS
  <1>1. TableInv
    BY InitTable DEF Init
  <1>2. ReceptionInv
    BY DEF Init, TableInit, ReceptionInv, Reached, Thread
  <1> QED
    BY <1>1, <1>2 DEF WireInv

\* The steps that leave the table alone.
LEMMA OthersKeep ==
  ASSUME WireInv,
         \/ Announce \/ sendCborBundle \/ StrayArrives \/ Receive \/ ReadEnvelope
         \/ OpenData \/ ReadField \/ CheckHmac \/ Refuse \/ Forward \/ UNCHANGED vars
  PROVE  WireInv'
  <1>0. TableInv /\ ReceptionInv
    BY DEF WireInv
  <1>1. UNCHANGED tableVars
    BY DEF Announce, Encoded, sendCborBundle, StrayArrives, Receive, ReadEnvelope, OpenData,
           ReadField, CheckHmac, Refuse, Forward, vars
  <1>2. TableInv'
    BY <1>0, <1>1, TableStutters
  <1>3. call' = call /\ receiving' = receiving
    BY <1>1 DEF tableVars
  <1>4. CASE Announce
    <2>1. stage = "idle" /\ hop' = 1
      BY <1>4 DEF Announce
    <2>2. stage' \in {"encoded", "dead"}
      BY <1>4 DEF Announce, Encoded
    <2> QED
      BY <1>0, <1>2, <1>3, <2>1, <2>2 DEF WireInv, ReceptionInv, Reached
  <1>5. CASE StrayArrives
    BY <1>0, <1>2, <1>3, <1>5 DEF StrayArrives, WireInv, ReceptionInv, Reached
  <1>6. CASE sendCborBundle
    BY <1>0, <1>2, <1>3, <1>6 DEF sendCborBundle, WireInv, ReceptionInv, Reached
  <1>7. CASE Receive
    <2>1. stage = "flying" /\ (hop = 1 => receiving) /\ stage' \in {"envelope", "idle"}
      BY <1>7 DEF Receive
    <2> QED
      BY <1>0, <1>2, <1>3, <2>1 DEF WireInv, ReceptionInv, Reached
  <1>8. CASE ReadEnvelope \/ OpenData \/ ReadField \/ CheckHmac \/ Refuse
    <2>1. stage \in Reached \ {"forward"}
      BY <1>8 DEF ReadEnvelope, OpenData, ReadField, CheckHmac, Refuse, Reached
    <2>2. stage' \in (Reached \ {"forward"}) \cup {"idle"}
      BY <1>8, <2>1 DEF ReadEnvelope, OpenData, ReadField, CheckHmac, Refuse, Reached
    <2> QED
      BY <1>0, <1>2, <1>3, <2>1, <2>2 DEF WireInv, ReceptionInv, Reached
  <1>9. CASE Forward
    <2>1. stage = "forward" /\ call["reception"] = Idle
      BY <1>9 DEF Forward
    <2>2. stage' \in {"encoded", "dead", "idle"}
      BY <1>9 DEF Forward, Encoded
    <2> QED
      BY <1>0, <1>2, <1>3, <2>1, <2>2 DEF WireInv, ReceptionInv, Reached
  <1>10. CASE UNCHANGED vars
    BY <1>0, <1>2, <1>3, <1>10 DEF vars, WireInv, ReceptionInv
  <1> QED
    BY <1>4, <1>5, <1>6, <1>7, <1>8, <1>9, <1>10

\* A metadata message at the first receiver hands a row over.
LEMMA HandleKeeps == WireInv /\ Handle => WireInv'
  <1> SUFFICES ASSUME WireInv, Handle PROVE WireInv'
    OBVIOUS
  <1> DEFINE n == Decoded.nodeId
             text == RowText(Decoded)
  <1>0. TableInv /\ ReceptionInv /\ stage = "handler"
    BY DEF WireInv, Handle
  <1>1. receiving /\ call["reception"] = Idle
    BY <1>0 DEF ReceptionInv, Reached
  <1>2. /\ UNCHANGED <<nodeMetadataList, nodeMetadataCount, main, receiving, sharing, handed,
                       connects>>
        /\ stage' \in {"idle", "forward"}
        /\ \/ call' = call
           \/ stage' = "forward" /\ call' = [call EXCEPT !["reception"] = Calling(n, text)]
    BY DEF Handle
  <1> HIDE DEF n, text
  <1>3. CASE call' = call
    <2>1. TableInv'
      BY <1>0, <1>2, <1>3, TableStutters DEF tableVars
    <2>2. ReceptionInv'
      BY <1>1, <1>2, <1>3 DEF ReceptionInv, Reached
    <2> QED
      BY <2>1, <2>2 DEF WireInv
  <1>4. CASE stage' = "forward" /\ call' = [call EXCEPT !["reception"] = Calling(n, text)]
    <2>1. Hand(n, text)
      BY <1>1, <1>2, <1>4 DEF Hand
    <2>2. TableInv'
      BY <1>0, <2>1, HandKeeps
    <2>3. ReceptionInv'
      BY <1>1, <1>2, <1>4 DEF ReceptionInv, Reached
    <2> QED
      BY <2>2, <2>3 DEF WireInv
  <1> QED
    BY <1>2, <1>3, <1>4

\* The steps of the table itself.
LEMMA TableKeeps == WireInv /\ Table => WireInv'
  <1> SUFFICES ASSUME WireInv, Table PROVE WireInv'
    OBVIOUS
  <1>0. TableInv /\ ReceptionInv /\ UNCHANGED <<stage, hop>>
    BY DEF WireInv, Table
  <1>1. CASE ConnectToIon \/ ServicesStart \/ ConnectionLost
    <2>1. TableInv'
      BY <1>0, <1>1, MainKeeps
    <2>2. call'["reception"] = call["reception"] /\ (receiving => receiving')
      BY <1>0, <1>1 DEF ConnectToIon, ServicesStart, ConnectionLost, TableInv, CallsOK, Thread
    <2> QED
      BY <1>0, <2>1, <2>2 DEF WireInv, ReceptionInv
  <1>2. CASE Update("main") \/ Update("reception")
    <2>1. PICK t \in Thread : Update(t)
      BY <1>2 DEF Thread
    <2>2. TableInv'
      BY <1>0, <2>1, FindKeeps, OverwriteKeeps, AppendKeeps, CountKeeps DEF Update
    <2>3. UNCHANGED receiving
      BY <2>1 DEF Update, Find, Overwrite, AppendRow, CountRow
    <2>4. CASE t = "main"
      <3>1. call'["reception"] = call["reception"]
        BY <1>0, <2>1, <2>4
        DEF Update, Find, Overwrite, AppendRow, CountRow, TableInv, CallsOK, Thread
      <3> QED
        BY <1>0, <2>2, <2>3, <3>1 DEF WireInv, ReceptionInv
    <2>5. CASE t = "reception"
      <3>1. call["reception"].stage # "idle"
        BY <2>1, <2>5 DEF Update, Find, Overwrite, AppendRow, CountRow
      <3>2. stage = "forward"
        BY <1>0, <3>1 DEF ReceptionInv, Idle
      <3> QED
        BY <1>0, <2>2, <2>3, <3>2 DEF WireInv, ReceptionInv
    <2> QED
      BY <2>4, <2>5 DEF Thread
  <1> QED
    BY <1>1, <1>2 DEF Table, Main

\* Whatever bundles arrive and however often main connects, the rows that count are
\* whole, handed in, one per node and with the node's own first: TableIsSound of
\* MetadataTable, for every number of rows, chain of nodes and set of records.
THEOREM AddressBookIsSound == Spec => []TableIsSound
  <1>1. Init => WireInv
    BY InitWire
  <1>2. WireInv /\ [Next]_vars => WireInv'
    BY OthersKeep, HandleKeeps, TableKeeps DEF Next
  <1>3. WireInv => TableIsSound
    BY TableIsSoundThen DEF WireInv
  <1> QED
    BY <1>1, <1>2, <1>3, PTL DEF Spec

-----------------------------------------------------------------------------
(* The decoder.  That a bundle is a sequence of bytes is its C type, and   *)
(* the first conjunct of TypeOK.                                           *)

BytesOnly == buffer \in Bytes

DecoderInv ==
  /\ Reading => InBuffer(buffer, cursor)
  /\ extracting => extraction.left >= 0
  /\ WalksAgree

LEMMA InitDecoder == Init => DecoderInv
  BY DEF Init, DecoderInv, Reading, WalksAgree

\* Each item of the envelope is stepped over inside the buffer.
LEMMA EnvelopeInBuffer ==
  ASSUME buffer \in Seq(Byte), InBuffer(buffer, cursor), EnvelopeItem
  PROVE  InBuffer(buffer, AfterSkip(buffer, cursor))
  <1>1. \/ HeadAt(buffer, cursor, ArrayOpen, 0..27)
        \/ HeadAt(buffer, cursor, UnsignedInteger, 0..27)
        \/ Skippable(buffer, cursor)
    BY DEF EnvelopeItem, IntegerAt
  <1>2. CASE HeadAt(buffer, cursor, ArrayOpen, 0..27)
    <2>1. ArrayOpen \in 0..7 /\ ArrayOpen \notin {ByteString, TextString}
      BY DEF ArrayOpen, ByteString, TextString
    <2> QED
      BY <1>2, <2>1, SkipOfHead
  <1>3. CASE HeadAt(buffer, cursor, UnsignedInteger, 0..27)
    <2>1. UnsignedInteger \in 0..7 /\ UnsignedInteger \notin {ByteString, TextString}
      BY DEF UnsignedInteger, ByteString, TextString
    <2> QED
      BY <1>3, <2>1, SkipOfHead
  <1>4. CASE Skippable(buffer, cursor)
    BY <1>4, AfterSkipInBuffer
  <1> QED
    BY <1>1, <1>2, <1>3, <1>4

\* A field is read as far as it is skipped.
LEMMA FieldEndsWhereSkipped ==
  ASSUME buffer \in Seq(Byte), InBuffer(buffer, cursor), extraction = cursor,
         NEW field, FieldAt(field)
  PROVE  AfterField(field) = AfterSkip(buffer, cursor)
  <1>1. CASE field \in Texts
    <2>1. TextAt(buffer, cursor, Limit(field) - 1)
      BY <1>1 DEF FieldAt
    <2>2. AfterText(buffer, cursor) = AfterSkip(buffer, cursor)
      BY <2>1, SkipOfText
    <2> QED
      BY <1>1, <2>2 DEF AfterField
  <1>2. CASE field \notin Texts
    <2>1. HeadAt(buffer, cursor, UnsignedInteger, 0..27)
      BY <1>2 DEF FieldAt, IntegerAt
    <2>2. UnsignedInteger \in 0..7 /\ UnsignedInteger \notin {ByteString, TextString}
      BY DEF UnsignedInteger, ByteString, TextString
    <2>3. AfterSkip(buffer, cursor) = AfterHead(buffer, cursor)
      BY <2>1, <2>2, SkipOfHead
    <2> QED
      BY <1>2, <2>3 DEF AfterField, AfterInteger
  <1> QED
    BY <1>1, <1>2

LEMMA ReadFieldKeeps == DecoderInv /\ BytesOnly /\ ReadField => DecoderInv'
  <1> SUFFICES ASSUME DecoderInv, BytesOnly, ReadField PROVE DecoderInv'
    OBVIOUS
  <1>0. /\ buffer \in Seq(Byte) /\ buffer' = buffer
        /\ stage = "fields" /\ stage' \in {"fields", "hmac"}
        /\ Skippable(buffer, cursor) /\ cursor' = AfterSkip(buffer, cursor)
    BY DEF BytesOnly, Bytes, ReadField
  <1>1. InBuffer(buffer, cursor) /\ (extracting => extraction = cursor)
    BY <1>0 DEF DecoderInv, Reading, WalksAgree
  <1>2. InBuffer(buffer, cursor') /\ InBuffer(buffer', cursor')
    BY <1>0, <1>1, AfterSkipInBuffer
  <1>3. extracting' => extraction' = cursor'
    <2>1. CASE extracting /\ FieldAt(layout[index])
      <3>1. extraction' = AfterField(layout[index])
        BY <2>1 DEF ReadField, Extract
      <3>2. AfterField(layout[index]) = AfterSkip(buffer, cursor)
        BY <1>0, <1>1, <2>1, FieldEndsWhereSkipped
      <3> QED
        BY <1>0, <3>1, <3>2
    <2>2. CASE ~(extracting /\ FieldAt(layout[index]))
      BY <2>2 DEF ReadField, Extract
    <2> QED
      BY <2>1, <2>2
  <1>4. extracting' => extraction'.left >= 0
    <2>1. cursor'.left >= 0
      BY <1>2 DEF InBuffer
    <2> QED
      BY <1>3, <2>1
  <1> QED
    BY <1>0, <1>2, <1>3, <1>4 DEF DecoderInv, WalksAgree

LEMMA OpenDataKeeps == DecoderInv /\ BytesOnly /\ OpenData => DecoderInv'
  <1> SUFFICES ASSUME DecoderInv, BytesOnly, OpenData PROVE DecoderInv'
    OBVIOUS
  <1>0. /\ buffer \in Seq(Byte) /\ buffer' = buffer /\ stage = "data"
        /\ HeadAt(buffer, cursor, ArrayOpen, 0..23)
        /\ cursor' = AfterHead(buffer, cursor) /\ extraction' = AfterHead(buffer, cursor)
    BY DEF BytesOnly, Bytes, OpenData, DataHeader
  <1>1. InBuffer(buffer, cursor)
    BY <1>0 DEF DecoderInv, Reading
  <1>2. InBuffer(buffer, AfterHead(buffer, cursor))
    BY <1>0, <1>1, AfterHeadInBuffer DEF HeadAt
  <1>3. AfterHead(buffer, cursor).left >= 0
    BY <1>2 DEF InBuffer
  <1> QED
    BY <1>0, <1>2, <1>3 DEF DecoderInv, WalksAgree

LEMMA EnvelopeKeeps == DecoderInv /\ BytesOnly /\ (Receive \/ ReadEnvelope) => DecoderInv'
  <1> SUFFICES ASSUME DecoderInv, BytesOnly, Receive \/ ReadEnvelope PROVE DecoderInv'
    OBVIOUS
  <1>0. /\ buffer \in Seq(Byte) /\ buffer' = buffer /\ UNCHANGED <<extraction, extracting>>
        /\ stage' \in {"envelope", "data", "idle"}
    BY DEF BytesOnly, Bytes, Receive, ReadEnvelope
  <1>1. InBuffer(buffer, cursor')
    <2>1. CASE Receive
      BY <1>0, <2>1, StartInBuffer DEF Receive
    <2>2. CASE ReadEnvelope
      <3>1. stage = "envelope" /\ EnvelopeItem /\ cursor' = AfterSkip(buffer, cursor)
        BY <2>2 DEF ReadEnvelope
      <3>2. InBuffer(buffer, cursor)
        BY <3>1 DEF DecoderInv, Reading
      <3> QED
        BY <1>0, <3>1, <3>2, EnvelopeInBuffer
    <2> QED
      BY <2>1, <2>2
  <1> QED
    BY <1>0, <1>1 DEF DecoderInv, Reading, WalksAgree

\* The other steps move no cursor, and begin no reading.
LEMMA RestKeepsDecoder ==
  ASSUME DecoderInv,
         \/ Announce \/ sendCborBundle \/ StrayArrives \/ CheckHmac \/ Refuse \/ Handle
         \/ Forward \/ Table \/ UNCHANGED vars
  PROVE  DecoderInv'
  <1>0. UNCHANGED walk
    BY DEF Announce, Encoded, sendCborBundle, StrayArrives, CheckHmac, Refuse, Handle, Forward,
           Table, vars
  <1>1. CASE Announce \/ sendCborBundle \/ StrayArrives \/ Forward
    <2>1. stage' \in {"encoded", "dead", "flying", "idle"}
      BY <1>1 DEF Announce, Encoded, sendCborBundle, StrayArrives, Forward
    <2> QED
      BY <1>0, <2>1 DEF DecoderInv, Reading, WalksAgree, walk
  <1>2. CASE CheckHmac \/ Refuse \/ Handle
    <2>1. /\ stage' \in {"handler", "idle", "forward"}
          /\ stage' = "handler" => stage = "hmac"
      BY <1>2 DEF CheckHmac, Refuse, Handle
    <2> QED
      BY <1>0, <2>1 DEF DecoderInv, Reading, WalksAgree, walk
  <1>3. CASE Table \/ UNCHANGED vars
    <2>1. UNCHANGED <<buffer, stage>>
      BY <1>3 DEF Table, vars
    <2> QED
      BY <1>0, <2>1 DEF DecoderInv, Reading, WalksAgree, walk
  <1> QED
    BY <1>1, <1>2, <1>3

LEMMA NextDecoder == DecoderInv /\ BytesOnly /\ [Next]_vars => DecoderInv'
  BY ReadFieldKeeps, OpenDataKeeps, EnvelopeKeeps, RestKeepsDecoder DEF Next

-----------------------------------------------------------------------------
(* What a message says.  Told is the message under way as the last node    *)
(* that handled it has it: the origin's announcement or, from the first    *)
(* handler on, the last record applied.  A bundle from elsewhere says      *)
(* nothing until it is applied.                                            *)

IsTold == applied # <<>> \/ sent # Nothing

Told == IF applied = <<>> THEN [envelope |-> sent.envelope, fields |-> FieldsOf(sent.announced)]
        ELSE applied[Len(applied)]

From == IF stage \in {"encoded", "flying"} THEN Chain[hop] ELSE Chain[hop - 1]

\* Between a sender and the handler.
UnderWay == Reading \/ stage \in {"encoded", "flying", "handler"}

\* The item under the cursor.
Place == CASE stage = "envelope" -> index [] stage = "data" -> 9
           [] stage = "fields" -> 9 + index [] OTHER -> Size(Told)

\* What the head of a message says.
Says(m, name) ==
  CASE name = "kind" -> <<m.envelope.kind>>
    [] name = "timestamp" -> m.envelope.timestamp
    [] name = "expire" -> m.envelope.expire
    [] name = "origin" -> m.envelope.origin
    [] name = "nonce" -> m.envelope.nonce
    [] OTHER -> head[name]

\* What one hop makes of the fields: a position with one coordinate is none.
PassedFields(m) ==
  IF m.envelope.kind = MetadataType /\ ~HasGPS(m.fields)
    THEN [m.fields EXCEPT !.latitude = Zero, !.longitude = Zero]
    ELSE m.fields

Passed(m) == [envelope |-> m.envelope, fields |-> PassedFields(m)]

-----------------------------------------------------------------------------
(* The types, whatever bundles arrive.                                     *)

HeadValues(name) == CASE name = "kind" -> {s \in Bytes : Len(s) <= 1}
                      [] name = "nonce" -> [1..DTNEX_NONCE_SIZE -> Byte]
                      [] OTHER -> Vast

\* The first k items of the envelope have been read.
HeadHas(k) == \A j \in 1..k : /\ EnvelopeName[j] \in DOMAIN head
                              /\ head[EnvelopeName[j]] \in HeadValues(EnvelopeName[j])

MetadataLayouts ==
  {<<"name", "contact">>, <<"nodeId", "name", "contact">>,
   <<"nodeId", "name", "contact", "location">>, <<"name", "contact", "latitude", "longitude">>,
   <<"nodeId", "name", "contact", "latitude", "longitude">>,
   <<"nodeId", "name", "contact", "location", "latitude", "longitude">>}

Layouts(kind) ==
  CASE kind = ContactType ->
         {<<"regionNbr", "fromNode", "toNode", "fromTime", "toTime", "xmitRate", "confidence">>}
    [] kind = RangeType -> {<<"fromNode", "toNode", "fromTime", "toTime", "owlt">>}
    [] OTHER -> MetadataLayouts

FieldValues(field) == IF field \in Texts THEN {s \in Bytes : Len(s) <= Limit(field) - 2}
                      ELSE Vast

\* As far as the extraction has gone well, the values read so far are the first of
\* the layout.
ValuesOK ==
  extracting =>
    /\ layout \in Layouts(Kind) /\ Len(layout) = head["size"]
    /\ values = [field \in {layout[j] : j \in 1..(index - 1)} |-> values[field]]
    /\ \A j \in 1..(index - 1) : values[layout[j]] \in FieldValues(layout[j])

DecodingOK ==
  /\ stage = "envelope" => index \in 1..8 /\ HeadHas(index - 1)
  /\ stage \in {"data", "fields", "hmac", "handler", "forward"} => HeadHas(8)
  /\ stage \in {"fields", "hmac", "handler", "forward"} =>
       Kind \in Kinds /\ head["size"] \in 0..23
  /\ stage = "fields" => index \in 1..head["size"] /\ ValuesOK
  /\ stage \in {"hmac", "handler"} =>
       (extracting => index = head["size"] + 1) /\ ValuesOK
  /\ stage = "handler" => extracting

SentOK ==
  sent # Nothing => /\ sent.announced \in Announced /\ sent.envelope \in Envelope
                    /\ sent.envelope.kind = sent.announced.kind

AppliedOK ==
  /\ applied \in Seq({applied[i] : i \in 1..Len(applied)})
  /\ \A i \in 1..Len(applied) : IsMessage(applied[i]) /\ ~TooLong(applied[i])
  /\ stage = "forward" => applied # <<>> /\ applied[Len(applied)].envelope = EnvelopeOf

HopOK ==
  /\ hop \in 1..Len(Chain)
  /\ stage \in {"encoded", "flying"} => hop < Len(Chain)
  /\ Reading \/ stage \in {"handler", "forward"} => hop >= 2

CountersOK ==
  /\ stage \in {"idle", "encoded", "dead", "flying", "envelope", "data", "fields", "hmac",
                "handler", "forward"}
  /\ cursor \in [at: Nat, left: Int] /\ extraction \in [at: Nat, left: Int]
  /\ index \in 1..24 /\ extracting \in BOOLEAN /\ authentic \in BOOLEAN
  /\ seen \in [1..Len(Chain) -> SUBSET (Vast \X Bytes)]
  /\ bundles \in 0..MaxBundles /\ faults \in 0..MaxFaults

TypeInv ==
  /\ HmacShape /\ buffer \in Bytes
  /\ CountersOK /\ HopOK /\ DecodingOK /\ SentOK /\ AppliedOK

-----------------------------------------------------------------------------
(* The message under way and how far it is read.                           *)

\* The bytes are those of the message, or of a bundle from elsewhere.
BufferTold ==
  UnderWay => IF IsTold
                THEN buffer = Encode(Told.envelope, Told.fields, From, authentic)
                ELSE \E s \in Stray : buffer = s.bytes /\ authentic = s.signed

CursorTold ==
  Reading /\ IsTold => AtItem(buffer, Items(Told, From, authentic), Size(Told), cursor, Place)

HeadTold ==
  IsTold => /\ stage = "envelope" =>
                 \A j \in 1..(index - 1) : head[EnvelopeName[j]] = Says(Told, EnvelopeName[j])
            /\ stage \in {"data", "fields", "hmac", "handler"} =>
                 \A j \in 1..8 : head[EnvelopeName[j]] = Says(Told, EnvelopeName[j])

FieldsTold ==
  IsTold /\ stage \in {"fields", "hmac", "handler"} =>
    /\ layout = LayoutOf(Told) /\ head["size"] = Len(layout)
    /\ extracting => \A j \in 1..(index - 1) : values[layout[j]] = Told.fields[layout[j]]
    /\ ~extracting => TooLong(Told)

\* What the nodes have applied.
AppliedTold ==
  /\ applied # <<>> /\ sent # Nothing =>
       applied[1] = Passed([envelope |-> sent.envelope, fields |-> FieldsOf(sent.announced)])
  /\ \A i \in 2..Len(applied) : applied[i] = Passed(applied[1])
  /\ \A i \in 1..Len(applied) :
       applied[i] = [envelope |-> applied[i].envelope, fields |-> applied[i].fields]

ToldInv == BufferTold /\ CursorTold /\ HeadTold /\ FieldsTold /\ AppliedTold

-----------------------------------------------------------------------------
(* What the decoder hands over, whatever the bundle.                       *)

LEMMA CastTypes ==
  ASSUME NEW v \in Vast
  PROVE  /\ UInt32(v) \in Vast /\ UInt32(UInt32(v)) = UInt32(v)
         /\ Int32(v) \in Vast /\ Int32(Int32(v)) = Int32(v)
  <1>1. \A i \in 1..8 : v[i] \in Byte
    BY DEF Vast
  <1>2. 0 \in Byte /\ 255 \in Byte
    BY DEF Byte
  <1>3. UInt32(v) \in Vast /\ UInt32(UInt32(v)) = UInt32(v)
    BY <1>1, <1>2 DEF Vast, UInt32
  <1>4. Int32(v) \in Vast
    BY <1>1, <1>2 DEF Vast, Int32
  <1>5. Int32(Int32(v)) = Int32(v)
    <2>1. Int32(v)[5] = v[5]
      BY DEF Int32
    <2>2. \A i \in 5..8 : Int32(v)[i] = v[i]
      BY DEF Int32
    <2>3. Int32(v) = [i \in 1..8 |-> IF i > 4 THEN v[i] ELSE IF v[5] >= 128 THEN 255 ELSE 0]
      BY DEF Int32
    <2>4. Int32(Int32(v)) = [i \in 1..8 |-> IF i > 4 THEN Int32(v)[i]
                                              ELSE IF Int32(v)[5] >= 128 THEN 255 ELSE 0]
      BY DEF Int32
    <2> QED
      BY <2>1, <2>2, <2>3, <2>4
  <1> QED
    BY <1>3, <1>4, <1>5

LEMMA ZeroTypes == Zero \in Vast /\ Zero \in Degrees
  <1>1. 0 \in Byte
    BY DEF Byte
  <1>2. Zero \in Vast
    BY <1>1 DEF Zero, Vast
  <1>3. Int32(Zero) = Zero
    BY DEF Int32, Zero
  <1> QED
    BY <1>2, <1>3 DEF Degrees

\* The envelope.
LEMMA HeadParts ==
  ASSUME HeadHas(8)
  PROVE  /\ head["kind"] \in Bytes /\ Len(head["kind"]) <= 1
         /\ head["timestamp"] \in Vast /\ head["expire"] \in Vast /\ head["origin"] \in Vast
         /\ head["from"] \in Vast /\ head["nonce"] \in [1..DTNEX_NONCE_SIZE -> Byte]
         /\ head["nonce"] \in Bytes
  <1>1. \A j \in 1..8 : head[EnvelopeName[j]] \in HeadValues(EnvelopeName[j])
    BY DEF HeadHas
  <1>2. /\ EnvelopeName[3] = "kind" /\ EnvelopeName[4] = "timestamp" /\ EnvelopeName[5] = "expire"
        /\ EnvelopeName[6] = "origin" /\ EnvelopeName[7] = "from" /\ EnvelopeName[8] = "nonce"
    BY DEF EnvelopeName
  <1>3. /\ head["kind"] \in HeadValues("kind") /\ head["timestamp"] \in HeadValues("timestamp")
        /\ head["expire"] \in HeadValues("expire") /\ head["origin"] \in HeadValues("origin")
        /\ head["from"] \in HeadValues("from") /\ head["nonce"] \in HeadValues("nonce")
    BY <1>1, <1>2
  <1>4. /\ head["kind"] \in Bytes /\ Len(head["kind"]) <= 1
        /\ head["timestamp"] \in Vast /\ head["expire"] \in Vast /\ head["origin"] \in Vast
        /\ head["from"] \in Vast /\ head["nonce"] \in [1..DTNEX_NONCE_SIZE -> Byte]
    BY <1>3 DEF HeadValues
  <1>5. DTNEX_NONCE_SIZE \in Nat
    BY Parameters DEF IsSize
  <1>6. head["nonce"] \in Seq(Byte)
    BY <1>4, <1>5, FixedBytes
  <1> QED
    BY <1>4, <1>6 DEF Bytes

LEMMA EnvelopeOfTypes ==
  ASSUME HeadHas(8), Kind \in Kinds
  PROVE  EnvelopeOf \in Envelope /\ EnvelopeOf.kind = Kind
  BY HeadParts DEF EnvelopeOf, Envelope

\* The values of a whole extraction are those of the layout.
LEMMA ValueTypes ==
  ASSUME ValuesOK, extracting, index = head["size"] + 1
  PROVE  /\ layout \in Layouts(Kind)
         /\ DOMAIN values = {layout[j] : j \in 1..Len(layout)}
         /\ values = [field \in DOMAIN values |-> values[field]]
         /\ \A field \in DOMAIN values : values[field] \in FieldValues(field)
         /\ \A j \in 1..Len(layout) : layout[j] \in DOMAIN values
  <1>1. layout \in Layouts(Kind) /\ Len(layout) = head["size"]
    BY DEF ValuesOK
  <1>2. Len(layout) \in Nat
    BY <1>1 DEF Layouts, MetadataLayouts
  <1>3. index - 1 = Len(layout)
    BY <1>1, <1>2
  <1>4. values = [field \in {layout[j] : j \in 1..Len(layout)} |-> values[field]]
    BY <1>3 DEF ValuesOK
  <1>5. \A j \in 1..Len(layout) : values[layout[j]] \in FieldValues(layout[j])
    BY <1>3 DEF ValuesOK
  <1> QED
    BY <1>1, <1>4, <1>5

LEMMA ContactDecoded ==
  ASSUME ValuesOK, extracting, index = head["size"] + 1, Kind = ContactType
  PROVE  /\ values \in ContactFields
         /\ Decoded = [values EXCEPT !["regionNbr"] = UInt32(@), !["confidence"] = UInt32(@)]
         /\ Decoded \in ContactRecord
  <1> DEFINE d == [values EXCEPT !["regionNbr"] = UInt32(@), !["confidence"] = UInt32(@)]
  <1>0. ContactType # RangeType /\ ContactType # MetadataType
    BY DEF ContactType, RangeType, MetadataType
  <1>1. layout = <<"regionNbr", "fromNode", "toNode", "fromTime", "toTime", "xmitRate", "confidence">>
    BY <1>0, ValueTypes DEF Layouts
  <1>2. DOMAIN values = {"regionNbr", "fromNode", "toNode", "fromTime", "toTime", "xmitRate",
                         "confidence"}
    BY <1>1, ValueTypes
  <1>3. values = [field \in {"regionNbr", "fromNode", "toNode", "fromTime", "toTime", "xmitRate",
                             "confidence"} |-> values[field]]
    BY <1>2, ValueTypes
  <1>4. /\ values["regionNbr"] \in Vast /\ values["fromNode"] \in Vast /\ values["toNode"] \in Vast
        /\ values["fromTime"] \in Vast /\ values["toTime"] \in Vast /\ values["xmitRate"] \in Vast
        /\ values["confidence"] \in Vast
    BY <1>2, ValueTypes DEF FieldValues, Texts
  <1>5. values \in ContactFields
    BY <1>3, <1>4 DEF ContactFields
  <1>6. Decoded = d
    BY <1>0 DEF Decoded
  <1>7. /\ UInt32(values["regionNbr"]) \in Vast /\ UInt32(values["confidence"]) \in Vast
        /\ UInt32(UInt32(values["regionNbr"])) = UInt32(values["regionNbr"])
        /\ UInt32(UInt32(values["confidence"])) = UInt32(values["confidence"])
    BY <1>4, CastTypes
  <1>8. d \in ContactFields /\ d["regionNbr"] = UInt32(values["regionNbr"])
        /\ d["confidence"] = UInt32(values["confidence"])
    BY <1>3, <1>4, <1>7 DEF ContactFields
  <1> HIDE DEF d
  <1>9. d \in ContactRecord
    BY <1>7, <1>8 DEF ContactRecord
  <1> QED
    BY <1>5, <1>6, <1>9 DEF d

LEMMA RangeDecoded ==
  ASSUME ValuesOK, extracting, index = head["size"] + 1, Kind = RangeType
  PROVE  /\ values \in RangeFields
         /\ Decoded = [values EXCEPT !["owlt"] = UInt32(@)]
         /\ Decoded \in RangeRecord
  <1> DEFINE d == [values EXCEPT !["owlt"] = UInt32(@)]
  <1>0. RangeType # ContactType
    BY DEF RangeType, ContactType
  <1>1. layout = <<"fromNode", "toNode", "fromTime", "toTime", "owlt">>
    BY <1>0, ValueTypes DEF Layouts
  <1>2. DOMAIN values = {"fromNode", "toNode", "fromTime", "toTime", "owlt"}
    BY <1>1, ValueTypes
  <1>3. values = [field \in {"fromNode", "toNode", "fromTime", "toTime", "owlt"} |-> values[field]]
    BY <1>2, ValueTypes
  <1>4. /\ values["fromNode"] \in Vast /\ values["toNode"] \in Vast
        /\ values["fromTime"] \in Vast /\ values["toTime"] \in Vast /\ values["owlt"] \in Vast
    BY <1>2, ValueTypes DEF FieldValues, Texts
  <1>5. values \in RangeFields
    BY <1>3, <1>4 DEF RangeFields
  <1>6. Decoded = d
    BY <1>0 DEF Decoded
  <1>7. UInt32(values["owlt"]) \in Vast /\ UInt32(UInt32(values["owlt"])) = UInt32(values["owlt"])
    BY <1>4, CastTypes
  <1>8. d \in RangeFields /\ d["owlt"] = UInt32(values["owlt"])
    BY <1>3, <1>4, <1>7 DEF RangeFields
  <1> HIDE DEF d
  <1>9. d \in RangeRecord
    BY <1>7, <1>8 DEF RangeRecord
  <1> QED
    BY <1>5, <1>6, <1>9 DEF d

LEMMA MetadataLayoutHas ==
  ASSUME NEW l \in MetadataLayouts
  PROVE  \E i, j \in 1..Len(l) : l[i] = "name" /\ l[j] = "contact"
  <1> DEFINE Has(i, j) == i \in 1..Len(l) /\ j \in 1..Len(l) /\ l[i] = "name" /\ l[j] = "contact"
  <1>1. CASE l = <<"name", "contact">>
    <2>1. Has(1, 2)
      BY <1>1
    <2> QED
      BY <2>1
  <1>2. CASE l = <<"nodeId", "name", "contact">>
    <2>1. Has(2, 3)
      BY <1>2
    <2> QED
      BY <2>1
  <1>3. CASE l = <<"nodeId", "name", "contact", "location">>
    <2>1. Has(2, 3)
      BY <1>3
    <2> QED
      BY <2>1
  <1>4. CASE l = <<"name", "contact", "latitude", "longitude">>
    <2>1. Has(1, 2)
      BY <1>4
    <2> QED
      BY <2>1
  <1>5. CASE l = <<"nodeId", "name", "contact", "latitude", "longitude">>
    <2>1. Has(2, 3)
      BY <1>5
    <2> QED
      BY <2>1
  <1>6. CASE l = <<"nodeId", "name", "contact", "location", "latitude", "longitude">>
    <2>1. Has(2, 3)
      BY <1>6
    <2> QED
      BY <2>1
  <1> QED
    BY <1>1, <1>2, <1>3, <1>4, <1>5, <1>6 DEF MetadataLayouts

LEMMA MetadataDecoded ==
  ASSUME HeadHas(8), ValuesOK, extracting, index = head["size"] + 1, Kind = MetadataType
  PROVE  /\ Decoded = [nodeId |-> Value("nodeId", head["origin"]), name |-> CString(values["name"]),
                       contact |-> CString(values["contact"]),
                       location |-> CString(Value("location", <<>>)),
                       latitude |-> Int32(Value("latitude", Zero)),
                       longitude |-> Int32(Value("longitude", Zero))]
         /\ Decoded \in MetadataRecord
         /\ \A t \in Texts : Len(Decoded[t]) <= Limit(t) - 2
  <1> DEFINE d == [nodeId |-> Value("nodeId", head["origin"]), name |-> CString(values["name"]),
                   contact |-> CString(values["contact"]),
                   location |-> CString(Value("location", <<>>)),
                   latitude |-> Int32(Value("latitude", Zero)),
                   longitude |-> Int32(Value("longitude", Zero))]
             loc == Value("location", <<>>)
  <1>0. MetadataType # ContactType /\ MetadataType # RangeType
    BY DEF RangeType, ContactType, MetadataType
  <1>1. \A field \in DOMAIN values : values[field] \in FieldValues(field)
    BY ValueTypes
  <1>2. "name" \in DOMAIN values /\ "contact" \in DOMAIN values
    <2>1. layout \in MetadataLayouts
      BY <1>0, ValueTypes DEF Layouts
    <2> QED
      BY <2>1, MetadataLayoutHas, ValueTypes
  <1>3. Decoded = d
    BY <1>0 DEF Decoded, Coordinate
  <1>4. head["origin"] \in Vast /\ Zero \in Vast
    BY HeadParts, ZeroTypes
  <1>5. \A field : field \notin Texts /\ field \in DOMAIN values => values[field] \in Vast
    BY <1>1 DEF FieldValues
  <1>6. /\ Value("nodeId", head["origin"]) \in Vast
        /\ Value("latitude", Zero) \in Vast /\ Value("longitude", Zero) \in Vast
    BY <1>4, <1>5 DEF Value, Texts
  <1>7. \A t \in Texts : t \in DOMAIN values =>
          values[t] \in Seq(Byte) /\ Len(values[t]) <= Limit(t) - 2
    BY <1>1 DEF FieldValues, Bytes
  <1>8. \A t \in Texts : Limit(t) \in Nat /\ 0 <= Limit(t) - 2
    BY Parameters DEF IsSize
  <1>9. "name" \in Texts /\ "contact" \in Texts /\ "location" \in Texts
        /\ \A t \in Texts : t = "name" \/ t = "contact" \/ t = "location"
    BY DEF Texts
  <1>10. loc \in Seq(Byte) /\ Len(loc) <= Limit("location") - 2
    <2>1. CASE "location" \in DOMAIN values
      BY <1>7, <1>9, <2>1 DEF Value
    <2>2. CASE "location" \notin DOMAIN values
      <3>1. <<>> \in Seq(Byte) /\ Len(<<>>) = 0 /\ loc = <<>>
        BY <2>2 DEF Value
      <3> QED
        BY <1>8, <1>9, <3>1
    <2> QED
      BY <2>1, <2>2
  <1> HIDE DEF loc
  <1>11. ASSUME NEW s \in Seq(Byte), NEW t \in Texts, Len(s) <= Limit(t) - 2
         PROVE  /\ CString(s) \in Text /\ Len(CString(s)) <= Limit(t) - 2
                /\ Len(CString(s)) <= Limit(t) - 1 /\ CString(s) \in Bytes
    <2>1. CString(s) \in Text /\ Len(CString(s)) <= Len(s)
      BY CStringTypes
    <2>2. CString(s) \in Seq(Byte)
      BY <2>1, TextTypes
    <2>3. Len(CString(s)) \in Nat /\ Len(s) \in Nat
      BY <2>2
    <2> QED
      BY <1>8, <1>11, <2>1, <2>2, <2>3 DEF Bytes
  <1>12. /\ CString(values["name"]) \in Bytes /\ CString(values["contact"]) \in Bytes
         /\ CString(loc) \in Bytes
    BY <1>2, <1>7, <1>9, <1>10, <1>11
  <1>13. /\ Int32(Value("latitude", Zero)) \in Degrees /\ Int32(Value("longitude", Zero)) \in Degrees
    BY <1>6, CastTypes DEF Degrees
  <1>14. d \in MetadataFields
    <2>1. Int32(Value("latitude", Zero)) \in Vast /\ Int32(Value("longitude", Zero)) \in Vast
      BY <1>13 DEF Degrees
    <2> QED
      BY <1>6, <1>12, <2>1 DEF MetadataFields, loc
  <1>15. /\ d.latitude \in Degrees /\ d.longitude \in Degrees
         /\ d["name"] = CString(values["name"]) /\ d["contact"] = CString(values["contact"])
         /\ d["location"] = CString(loc)
    BY <1>13 DEF loc
  <1> HIDE DEF d
  <1>16. \A t \in Texts : d[t] \in Text /\ Len(d[t]) <= Limit(t) - 1 /\ Len(d[t]) <= Limit(t) - 2
    <2> SUFFICES ASSUME NEW t \in Texts
                 PROVE  d[t] \in Text /\ Len(d[t]) <= Limit(t) - 1 /\ Len(d[t]) <= Limit(t) - 2
      OBVIOUS
    <2>1. CASE t = "name"
      BY <1>2, <1>7, <1>11, <1>15, <2>1
    <2>2. CASE t = "contact"
      BY <1>2, <1>7, <1>11, <1>15, <2>2
    <2>3. CASE t = "location"
      BY <1>10, <1>11, <1>15, <2>3
    <2> QED
      BY <1>9, <2>1, <2>2, <2>3
  <1>17. d \in MetadataRecord
    BY <1>14, <1>15, <1>16 DEF MetadataRecord
  <1> QED
    BY <1>3, <1>16, <1>17 DEF d

\* A message comes out, with texts that its receivers have room for.
LEMMA DecodedTypes ==
  ASSUME HeadHas(8), Kind \in Kinds, ValuesOK, extracting, index = head["size"] + 1
  PROVE  LET m == [envelope |-> EnvelopeOf, fields |-> Decoded]
         IN IsMessage(m) /\ ~TooLong(m)
  <1> DEFINE m == [envelope |-> EnvelopeOf, fields |-> Decoded]
  <1>1. m.envelope \in Envelope /\ m.envelope.kind = Kind /\ m.fields = Decoded
    BY EnvelopeOfTypes
  <1> HIDE DEF m
  <1>2. CASE Kind = ContactType
    <2>1. Kind # MetadataType /\ Record(Kind) = ContactRecord
      BY <1>2 DEF ContactType, RangeType, MetadataType, Record
    <2> QED
      BY <1>1, <1>2, <2>1, ContactDecoded DEF IsMessage, TooLong, m
  <1>3. CASE Kind = RangeType
    <2>1. Kind # MetadataType /\ Record(Kind) = RangeRecord
      BY <1>3 DEF ContactType, RangeType, MetadataType, Record
    <2> QED
      BY <1>1, <1>3, <2>1, RangeDecoded DEF IsMessage, TooLong, m
  <1>4. CASE Kind = MetadataType
    <2>1. Record(Kind) = MetadataRecord
      BY <1>4 DEF ContactType, RangeType, MetadataType, Record
    <2>2. /\ Decoded \in MetadataRecord
          /\ \A t \in Texts : Len(Decoded[t]) <= Limit(t) - 2
      BY <1>4, MetadataDecoded
    <2>3. \A t \in Texts : Len(Decoded[t]) # Limit(t) - 1
      <3> SUFFICES ASSUME NEW t \in Texts PROVE Len(Decoded[t]) # Limit(t) - 1
        OBVIOUS
      <3>1. Limit(t) \in Nat
        BY Parameters DEF IsSize
      <3>2. Decoded[t] \in Text
        BY <2>2 DEF MetadataRecord
      <3>3. Len(Decoded[t]) \in Nat
        BY <3>2, TextTypes
      <3> QED
        BY <2>2, <3>1, <3>3
    <2> QED
      BY <1>1, <2>1, <2>2, <2>3 DEF IsMessage, TooLong, m
  <1> QED
    BY <1>2, <1>3, <1>4 DEF Kinds, m

-----------------------------------------------------------------------------
(* The types are kept.                                                     *)

\* Values and cursors, as far as the buffer reaches.
LEMMA CursorTypes ==
  ASSUME NEW buf \in Seq(Byte), NEW c, InBuffer(buf, c)
  PROVE  c \in [at: Nat, left: Int]
  BY DEF InBuffer

LEMMA StringValueTypes ==
  ASSUME buffer \in Seq(Byte), InBuffer(buffer, cursor), Skippable(buffer, cursor)
  PROVE  StringValue \in Seq(Byte) /\ Len(StringValue) = SkipLength(buffer, cursor)
  <1> DEFINE l == SkipLength(buffer, cursor)
             c == AfterHead(buffer, cursor)
  <1>1. /\ cursor.left >= 1 /\ cursor.left - 1 >= Follows(InfoAt(buffer, cursor)) /\ c.left >= l
    BY DEF Skippable
  <1>2. l \in Nat /\ InBuffer(buffer, c)
    BY <1>1, SkipLengthTypes, AfterHeadInBuffer
  <1>3. StringValue = [i \in 1..l |-> buffer[c.at + i - 1]]
    BY DEF StringValue
  <1> HIDE DEF l, c
  <1>4. \A i \in 1..l : buffer[c.at + i - 1] \in Byte
    <2> SUFFICES ASSUME NEW i \in 1..l PROVE buffer[c.at + i - 1] \in Byte
      OBVIOUS
    <2>1. c.at + i - 1 \in 1..Len(buffer)
      BY <1>1, <1>2 DEF InBuffer
    <2> QED
      BY <2>1
  <1>5. StringValue \in [1..l -> Byte]
    BY <1>3, <1>4
  <1> QED
    BY <1>2, <1>5, FixedBytes DEF l

LEMMA FieldValueTypes ==
  ASSUME buffer \in Seq(Byte), InBuffer(buffer, extraction), NEW field, FieldAt(field)
  PROVE  FieldValue(field) \in FieldValues(field)
  <1> DEFINE c == AfterHead(buffer, extraction)
             l == TextLength(buffer, extraction)
             s == TextValue(buffer, extraction)
  <1>1. CASE field \notin Texts
    <2>1. /\ extraction.left >= 1 /\ extraction.left - 1 >= Follows(InfoAt(buffer, extraction))
      BY <1>1 DEF FieldAt, IntegerAt, HeadAt
    <2>2. Argument(buffer, extraction) \in Vast
      BY <2>1, ArgumentTypes
    <2> QED
      BY <1>1, <2>2 DEF FieldValue, FieldValues, IntegerValue
  <1>2. CASE field \in Texts
    <2>1. TextAt(buffer, extraction, Limit(field) - 1)
      BY <1>2 DEF FieldAt
    <2>2. /\ extraction.left >= 1 /\ extraction.left - 1 >= Follows(InfoAt(buffer, extraction))
          /\ c.left >= l /\ l <= Limit(field) - 1 - 1
      BY <2>1 DEF TextAt, HeadAt
    <2>3. Argument(buffer, extraction) \in Vast /\ InBuffer(buffer, c)
      BY <2>2, ArgumentTypes, AfterHeadInBuffer
    <2>4. l \in Nat
      BY <2>3, LowBytes DEF TextLength
    <2>5. s = [i \in 1..l |-> buffer[c.at + i - 1]]
      BY DEF TextValue
    <2>6. FieldValue(field) = s /\ FieldValues(field) = {t \in Bytes : Len(t) <= Limit(field) - 2}
      BY <1>2 DEF FieldValue, FieldValues
    <2>7. Limit(field) \in Nat
      BY Parameters DEF IsSize
    <2> HIDE DEF c, l, s
    <2>8. \A i \in 1..l : buffer[c.at + i - 1] \in Byte
      <3> SUFFICES ASSUME NEW i \in 1..l PROVE buffer[c.at + i - 1] \in Byte
        OBVIOUS
      <3>1. c.at + i - 1 \in 1..Len(buffer)
        BY <2>2, <2>3, <2>4 DEF InBuffer
      <3> QED
        BY <3>1
    <2>9. s \in [1..l -> Byte]
      BY <2>5, <2>8
    <2>10. s \in Seq(Byte) /\ Len(s) = l
      BY <2>4, <2>9, FixedBytes
    <2>11. Len(s) <= Limit(field) - 2
      BY <2>2, <2>4, <2>7, <2>10
    <2> QED
      BY <2>6, <2>10, <2>11 DEF Bytes
  <1> QED
    BY <1>1, <1>2

LEMMA StartTypes == Start(<<>>) \in [at: Nat, left: Int]
  BY DEF Start

LEMMA ChainTypes ==
  /\ Len(Chain) \in Nat /\ Len(Chain) >= 2 /\ \A i \in 1..Len(Chain) : Chain[i] \in Vast
  /\ MaxBundles \in Nat /\ MaxFaults \in Nat
  BY WireAssumption

LEMMA InitTypes == HmacShape /\ Init => TypeInv
  <1> SUFFICES ASSUME HmacShape, Init PROVE TypeInv
    OBVIOUS
  <1>1. buffer \in Bytes
    BY DEF Init, Bytes
  <1>2. CountersOK
    <2>1. seen = [i \in 1..Len(Chain) |-> {}] /\ {} \in SUBSET (Vast \X Bytes)
      BY DEF Init
    <2>2. seen \in [1..Len(Chain) -> SUBSET (Vast \X Bytes)]
      BY <2>1
    <2>3. /\ stage = "idle" /\ cursor = Start(<<>>) /\ extraction = Start(<<>>) /\ index = 1
          /\ extracting = FALSE /\ authentic = FALSE /\ bundles = 0 /\ faults = 0
      BY DEF Init
    <2>4. extracting \in BOOLEAN /\ authentic \in BOOLEAN
      BY <2>3
    <2>5. 0 \in 0..MaxBundles /\ 0 \in 0..MaxFaults /\ 1 \in 1..24
      BY ChainTypes
    <2> QED
      BY <2>2, <2>3, <2>4, <2>5, StartTypes DEF CountersOK
  <1>3. HopOK
    BY ChainTypes DEF Init, HopOK, Reading
  <1>4. DecodingOK
    BY DEF Init, DecodingOK
  <1>5. SentOK /\ AppliedOK
    BY DEF Init, SentOK, AppliedOK
  <1> QED
    BY <1>1, <1>2, <1>3, <1>4, <1>5 DEF TypeInv

\* What the decoder holds is of no account before it starts.
LEMMA NotReading ==
  ASSUME stage' \in {"idle", "encoded", "dead", "flying"}
  PROVE  DecodingOK' /\ ~Reading'
  BY DEF DecodingOK, Reading

LEMMA WalkStands ==
  ASSUME CountersOK, UNCHANGED walk
  PROVE  /\ cursor' \in [at: Nat, left: Int] /\ extraction' \in [at: Nat, left: Int]
         /\ index' \in 1..24 /\ extracting' \in BOOLEAN
  BY DEF CountersOK, walk

LEMMA FaultsStay ==
  ASSUME CountersOK, NEW ok \in BOOLEAN, Faulty(ok)
  PROVE  faults' \in 0..MaxFaults
  BY ChainTypes DEF CountersOK, Faulty

LEMMA NothingIsNoMessage ==
  ASSUME NEW e, NEW a
  PROVE  [envelope |-> e, announced |-> a] # Nothing
  BY DEF Nothing

\* The message that an announcement makes.
LEMMA AnnouncedIsMessage ==
  ASSUME NEW a \in Announced, NEW n \in Nonce
  PROVE  LET e == [kind |-> a.kind, timestamp |-> Now, expire |-> ExpireOf(a),
                   origin |-> Chain[1], nonce |-> n]
         IN /\ e \in Envelope /\ e.kind = a.kind
            /\ IsMessage([envelope |-> e, fields |-> FieldsOf(a)])
  <1> DEFINE e == [kind |-> a.kind, timestamp |-> Now, expire |-> ExpireOf(a),
                   origin |-> Chain[1], nonce |-> n]
  <1>1. /\ a.kind \in Kinds /\ FieldsOf(a) \in Record(a.kind) /\ ExpireOf(a) \in Vast
    BY AnnouncedTypes
  <1>2. Now \in Vast /\ n \in [1..DTNEX_NONCE_SIZE -> Byte]
    BY WireAssumption
  <1>3. Chain[1] \in Vast
    BY ChainTypes
  <1>4. e \in Envelope /\ e.kind = a.kind
    BY <1>1, <1>2, <1>3 DEF Envelope
  <1> QED
    BY <1>1, <1>4 DEF IsMessage

LEMMA AnnounceTypes == TypeInv /\ Announce => TypeInv'
  <1> SUFFICES ASSUME TypeInv, Announce PROVE TypeInv'
    OBVIOUS
  <1>0. HmacShape /\ CountersOK
    BY DEF TypeInv
  <1>1. PICK a \in (IF bundles = 0 THEN Announced ELSE Later), n \in Nonce, computed \in BOOLEAN :
          LET e == [kind |-> a.kind, timestamp |-> Now, expire |-> ExpireOf(a),
                    origin |-> Chain[1], nonce |-> n]
          IN /\ Encoded(Encode(e, FieldsOf(a), Chain[1], computed), computed)
             /\ Faulty(computed)
             /\ sent' = [envelope |-> e, announced |-> a]
    BY DEF Announce
  <1>2. a \in Announced
    BY WireAssumption
  <1> DEFINE e == [kind |-> a.kind, timestamp |-> Now, expire |-> ExpireOf(a),
                   origin |-> Chain[1], nonce |-> n]
             m == [envelope |-> e, fields |-> FieldsOf(a)]
  <1>3. e \in Envelope /\ e.kind = a.kind /\ IsMessage(m)
    BY <1>2, AnnouncedIsMessage
  <1>4. m.envelope = e /\ m.fields = FieldsOf(a) /\ sent' = [envelope |-> e, announced |-> a]
    BY <1>1
  <1> HIDE DEF e, m
  <1>5. /\ Encoded(Encode(m.envelope, m.fields, Chain[1], computed), computed)
        /\ Faulty(computed)
    BY <1>1, <1>4 DEF e
  <1>6. Chain[1] \in Vast
    BY ChainTypes
  <1>7. Encode(m.envelope, m.fields, Chain[1], computed) \in Seq(Byte)
    BY <1>0, <1>3, <1>6, MessageSpelt
  <1>8. buffer' \in Bytes /\ authentic' \in BOOLEAN /\ stage' \in {"encoded", "dead"} /\ UNCHANGED walk
    BY <1>5, <1>7 DEF Encoded, Bytes
  <1>9. /\ hop' = 1 /\ applied' = <<>> /\ bundles' = bundles + 1 /\ bundles < MaxBundles
        /\ UNCHANGED seen
    BY DEF Announce
  <1>10. DecodingOK' /\ ~Reading'
    BY <1>8, NotReading
  <1>11. HopOK'
    BY <1>8, <1>9, <1>10, ChainTypes DEF HopOK
  <1>12. faults' \in 0..MaxFaults
    BY <1>0, <1>5, FaultsStay
  <1>13. bundles' \in 0..MaxBundles
    BY <1>0, <1>9, ChainTypes DEF CountersOK
  <1>14. CountersOK'
    <2>1. /\ cursor' \in [at: Nat, left: Int] /\ extraction' \in [at: Nat, left: Int]
          /\ index' \in 1..24 /\ extracting' \in BOOLEAN
      BY <1>0, <1>8, WalkStands
    <2>2. seen' \in [1..Len(Chain) -> SUBSET (Vast \X Bytes)]
      BY <1>0, <1>9 DEF CountersOK
    <2> QED
      BY <1>8, <1>12, <1>13, <2>1, <2>2 DEF CountersOK
  <1>15. SentOK'
    BY <1>2, <1>3, <1>4 DEF SentOK
  <1>16. AppliedOK'
    BY <1>8, <1>9 DEF AppliedOK
  <1> QED
    BY <1>0, <1>8, <1>10, <1>11, <1>14, <1>15, <1>16 DEF TypeInv

LEMMA TransportTypes == TypeInv /\ (sendCborBundle \/ StrayArrives \/ Refuse) => TypeInv'
  <1> SUFFICES ASSUME TypeInv, sendCborBundle \/ StrayArrives \/ Refuse PROVE TypeInv'
    OBVIOUS
  <1>0. HmacShape /\ CountersOK /\ HopOK /\ SentOK /\ AppliedOK /\ buffer \in Bytes
    BY DEF TypeInv
  <1>1. /\ stage' \in {"flying", "idle"} /\ UNCHANGED walk /\ UNCHANGED seen
        /\ buffer' \in Bytes /\ authentic' \in BOOLEAN
        /\ hop' \in {1, hop} /\ (stage' = "flying" => hop' < Len(Chain))
        /\ bundles' \in 0..MaxBundles
        /\ (sent' = Nothing \/ sent' = sent) /\ (applied' = <<>> \/ applied' = applied)
    <2>1. CASE sendCborBundle
      BY <1>0, <2>1 DEF sendCborBundle, histories, HopOK, CountersOK
    <2>2. CASE StrayArrives
      BY <1>0, <2>2, WireAssumption, ChainTypes DEF StrayArrives, CountersOK
    <2>3. CASE Refuse
      BY <1>0, <2>3 DEF Refuse, histories, CountersOK
    <2> QED
      BY <2>1, <2>2, <2>3
  <1>2. faults' \in 0..MaxFaults
    <2>1. CASE sendCborBundle
      <3>1. PICK ok \in BOOLEAN : Faulty(ok)
        BY <2>1 DEF sendCborBundle
      <3> QED
        BY <1>0, <3>1, FaultsStay
    <2>2. CASE StrayArrives \/ Refuse
      BY <1>0, <2>2 DEF StrayArrives, Refuse, CountersOK
    <2> QED
      BY <2>1, <2>2
  <1>3. DecodingOK' /\ ~Reading'
    BY <1>1, NotReading
  <1>4. HopOK'
    BY <1>0, <1>1, <1>3, ChainTypes DEF HopOK
  <1>5. CountersOK'
    <2>1. /\ cursor' \in [at: Nat, left: Int] /\ extraction' \in [at: Nat, left: Int]
          /\ index' \in 1..24 /\ extracting' \in BOOLEAN
      BY <1>0, <1>1, WalkStands
    <2>2. seen' \in [1..Len(Chain) -> SUBSET (Vast \X Bytes)]
      BY <1>0, <1>1 DEF CountersOK
    <2> QED
      BY <1>1, <1>2, <2>1, <2>2 DEF CountersOK
  <1>6. SentOK'
    BY <1>0, <1>1 DEF SentOK
  <1>7. AppliedOK'
    <2>1. stage' # "forward"
      BY <1>1
    <2>2. CASE applied' = <<>>
      BY <2>1, <2>2 DEF AppliedOK
    <2>3. CASE applied' = applied
      BY <1>0, <2>1, <2>3 DEF AppliedOK
    <2> QED
      BY <1>1, <2>2, <2>3
  <1> QED
    BY <1>0, <1>1, <1>3, <1>4, <1>5, <1>6, <1>7 DEF TypeInv

LEMMA ReceiveTypes == TypeInv /\ Receive => TypeInv'
  <1> SUFFICES ASSUME TypeInv, Receive PROVE TypeInv'
    OBVIOUS
  <1>0. HmacShape /\ CountersOK /\ HopOK /\ SentOK /\ AppliedOK /\ buffer \in Bytes
    BY DEF TypeInv
  <1>1. /\ stage = "flying" /\ stage' \in {"envelope", "idle"} /\ hop' = hop + 1
        /\ cursor' = Start(buffer) /\ index' = 1
        /\ UNCHANGED <<buffer, extraction, extracting, seen, sent, authentic, applied, bundles, faults>>
    BY DEF Receive, histories
  <1>2. DecodingOK'
    BY <1>1 DEF DecodingOK, HeadHas
  <1>3. HopOK'
    BY <1>0, <1>1, ChainTypes DEF HopOK, Reading
  <1>4. cursor' \in [at: Nat, left: Int]
    BY <1>0, <1>1, StartInBuffer, CursorTypes DEF Bytes
  <1>5. CountersOK'
    BY <1>0, <1>1, <1>4 DEF CountersOK
  <1>6. SentOK' /\ AppliedOK'
    BY <1>0, <1>1 DEF SentOK, AppliedOK
  <1> QED
    BY <1>0, <1>1, <1>2, <1>3, <1>5, <1>6 DEF TypeInv

\* Each item of the envelope is of its type.
LEMMA EnvelopeValueTypes ==
  ASSUME buffer \in Seq(Byte), InBuffer(buffer, cursor), EnvelopeItem, index \in 1..8
  PROVE  EnvelopeValue \in HeadValues(EnvelopeName[index])
  <1> DEFINE name == EnvelopeName[index]
  <1>1. name \in {"array", "version", "kind", "timestamp", "expire", "origin", "from", "nonce"}
    BY DEF EnvelopeName
  <1>2. CASE name = "kind"
    <2>1. Skippable(buffer, cursor) /\ SkipLength(buffer, cursor) <= 1
      BY <1>2 DEF EnvelopeItem
    <2>2. StringValue \in Seq(Byte) /\ Len(StringValue) <= 1
      BY <2>1, StringValueTypes
    <2> QED
      BY <1>2, <2>2 DEF EnvelopeValue, HeadValues, Bytes
  <1>3. CASE name = "nonce"
    <2>1. Skippable(buffer, cursor) /\ SkipLength(buffer, cursor) = DTNEX_NONCE_SIZE
      BY <1>3 DEF EnvelopeItem
    <2>2. StringValue \in Seq(Byte) /\ Len(StringValue) = DTNEX_NONCE_SIZE
      BY <2>1, StringValueTypes
    <2>3. StringValue \in [1..DTNEX_NONCE_SIZE -> Byte]
      BY <2>2
    <2> QED
      BY <1>3, <2>3 DEF EnvelopeValue, HeadValues
  <1>4. CASE name \notin {"kind", "nonce"}
    <2>1. HeadAt(buffer, cursor, ArrayOpen, 0..27) \/ HeadAt(buffer, cursor, UnsignedInteger, 0..27)
      BY <1>4 DEF EnvelopeItem, IntegerAt
    <2>2. cursor.left >= 1 /\ cursor.left - 1 >= Follows(InfoAt(buffer, cursor))
      BY <2>1 DEF HeadAt
    <2>3. Argument(buffer, cursor) \in Vast
      BY <2>2, ArgumentTypes
    <2> QED
      BY <1>4, <2>3 DEF EnvelopeValue, HeadValues, IntegerValue
  <1> QED
    BY <1>2, <1>3, <1>4

LEMMA EnvelopeNamesDiffer ==
  \A i, j \in 1..8 : EnvelopeName[i] = EnvelopeName[j] => i = j
  BY DEF EnvelopeName

LEMMA ReadEnvelopeTypes == TypeInv /\ DecoderInv /\ ReadEnvelope => TypeInv'
  <1> SUFFICES ASSUME TypeInv, DecoderInv, ReadEnvelope PROVE TypeInv'
    OBVIOUS
  <1>0. /\ HmacShape /\ CountersOK /\ HopOK /\ SentOK /\ AppliedOK /\ buffer \in Bytes
        /\ buffer \in Seq(Byte) /\ DecodingOK
    BY DEF TypeInv, Bytes
  <1>1. /\ stage = "envelope" /\ EnvelopeItem
        /\ cursor' = AfterSkip(buffer, cursor) /\ index' = index + 1
        /\ head' = [name \in {EnvelopeName[i] : i \in 1..index} |->
                      IF name = EnvelopeName[index] THEN EnvelopeValue ELSE head[name]]
        /\ stage' = IF index = 8 THEN "data" ELSE "envelope"
        /\ UNCHANGED <<buffer, hop, extraction, extracting, seen, sent, authentic, applied, bundles,
                       faults>>
    BY DEF ReadEnvelope, histories, EnvelopeName
  <1>2. index \in 1..8 /\ HeadHas(index - 1) /\ InBuffer(buffer, cursor)
    BY <1>0, <1>1 DEF DecodingOK, DecoderInv, Reading
  <1>3. ASSUME NEW j \in 1..index
        PROVE  /\ EnvelopeName[j] \in DOMAIN head'
               /\ head'[EnvelopeName[j]] \in HeadValues(EnvelopeName[j])
    <2>1. EnvelopeName[j] \in {EnvelopeName[i] : i \in 1..index}
      OBVIOUS
    <2>2. CASE j = index
      <3>1. head'[EnvelopeName[j]] = EnvelopeValue
        BY <1>1, <2>1, <2>2
      <3> QED
        BY <1>0, <1>1, <1>2, <2>1, <2>2, <3>1, EnvelopeValueTypes
    <2>3. CASE j # index
      <3>1. EnvelopeName[j] # EnvelopeName[index] /\ j \in 1..(index - 1)
        BY <1>2, <2>3, EnvelopeNamesDiffer
      <3>2. head'[EnvelopeName[j]] = head[EnvelopeName[j]]
        BY <1>1, <2>1, <3>1
      <3> QED
        BY <1>1, <1>2, <2>1, <3>1, <3>2 DEF HeadHas
    <2> QED
      BY <2>2, <2>3
  <1>4. \A k \in {index} : HeadHas(k)'
    BY <1>3 DEF HeadHas
  <1>5. index' \in 1..24 /\ (index # 8 => index' \in 1..8) /\ index' - 1 = index
    BY <1>1, <1>2
  <1>6. DecodingOK'
    <2>1. CASE index = 8
      <3>1. stage' = "data" /\ HeadHas(8)'
        BY <1>1, <1>4, <2>1
      <3> QED
        BY <3>1 DEF DecodingOK
    <2>2. CASE index # 8
      <3>1. stage' = "envelope" /\ index' \in 1..8
        BY <1>1, <1>5, <2>2
      <3>2. HeadHas(index - 1)'
        BY <1>3, <1>5 DEF HeadHas
      <3> QED
        BY <3>1, <3>2 DEF DecodingOK
    <2> QED
      BY <2>1, <2>2
  <1>7. HopOK'
    BY <1>0, <1>1 DEF HopOK, Reading
  <1>8. cursor' \in [at: Nat, left: Int]
    BY <1>0, <1>1, <1>2, EnvelopeInBuffer, CursorTypes
  <1>9. CountersOK'
    BY <1>0, <1>1, <1>5, <1>8 DEF CountersOK
  <1>10. SentOK' /\ AppliedOK'
    BY <1>0, <1>1 DEF SentOK, AppliedOK
  <1> QED
    BY <1>0, <1>1, <1>6, <1>7, <1>9, <1>10 DEF TypeInv

\* A layout fits the size and the kind it was chosen by.
LEMMA LayoutFits ==
  ASSUME NEW size, Layout(size) # <<>>, Kind \in Kinds,
         Kind = ContactType => size = 7, Kind = RangeType => size = 5
  PROVE  Layout(size) \in Layouts(Kind) /\ Len(Layout(size)) = size /\ size \in 2..7
  <1>0. /\ ContactType # RangeType /\ ContactType # MetadataType /\ RangeType # MetadataType
    BY DEF ContactType, RangeType, MetadataType
  <1>1. CASE Kind = ContactType
    <2>1. /\ Layout(size) = <<"regionNbr", "fromNode", "toNode", "fromTime", "toTime", "xmitRate",
                              "confidence">>
          /\ Layouts(Kind) = {<<"regionNbr", "fromNode", "toNode", "fromTime", "toTime", "xmitRate",
                                "confidence">>}
      BY <1>0, <1>1 DEF Layout, Layouts
    <2> QED
      BY <1>1, <2>1
  <1>2. CASE Kind = RangeType
    <2>1. /\ Layout(size) = <<"fromNode", "toNode", "fromTime", "toTime", "owlt">>
          /\ Layouts(Kind) = {<<"fromNode", "toNode", "fromTime", "toTime", "owlt">>}
      BY <1>0, <1>2 DEF Layout, Layouts
    <2> QED
      BY <1>2, <2>1
  <1>3. CASE Kind = MetadataType
    <2>1. Layouts(Kind) = MetadataLayouts
      BY <1>0, <1>3 DEF Layouts
    <2>2. size \in {2, 3, 4, 5, 6}
      BY <1>0, <1>3 DEF Layout
    <2>3. CASE size = 2
      <3>1. Layout(size) = <<"name", "contact">>
        BY <1>0, <1>3, <2>3 DEF Layout
      <3> QED
        BY <2>1, <2>3, <3>1 DEF MetadataLayouts
    <2>4. CASE size = 3
      <3>1. Layout(size) = <<"nodeId", "name", "contact">>
        BY <1>0, <1>3, <2>4 DEF Layout
      <3> QED
        BY <2>1, <2>4, <3>1 DEF MetadataLayouts
    <2>5. CASE size = 4
      <3>1. \/ Layout(size) = <<"nodeId", "name", "contact", "location">>
            \/ Layout(size) = <<"name", "contact", "latitude", "longitude">>
        BY <1>0, <1>3, <2>5 DEF Layout
      <3> QED
        BY <2>1, <2>5, <3>1 DEF MetadataLayouts
    <2>6. CASE size = 5
      <3>1. Layout(size) = <<"nodeId", "name", "contact", "latitude", "longitude">>
        BY <1>0, <1>3, <2>6 DEF Layout
      <3> QED
        BY <2>1, <2>6, <3>1 DEF MetadataLayouts
    <2>7. CASE size = 6
      <3>1. Layout(size) = <<"nodeId", "name", "contact", "location", "latitude", "longitude">>
        BY <1>0, <1>3, <2>7 DEF Layout
      <3> QED
        BY <2>1, <2>7, <3>1 DEF MetadataLayouts
    <2> QED
      BY <2>2, <2>3, <2>4, <2>5, <2>6, <2>7
  <1> QED
    BY <1>1, <1>2, <1>3 DEF Kinds

\* What is added to the head leaves the envelope.
LEMMA HeadGrows ==
  ASSUME HeadHas(8), NEW size,
         head' = [name \in DOMAIN head \cup {"size"} |-> IF name = "size" THEN size ELSE head[name]]
  PROVE  HeadHas(8)' /\ Kind' = Kind /\ head'["size"] = size
         /\ \A j \in 1..8 : head'[EnvelopeName[j]] = head[EnvelopeName[j]]
  <1>1. \A j \in 1..8 : EnvelopeName[j] # "size"
    BY DEF EnvelopeName
  <1>2. \A j \in 1..8 : EnvelopeName[j] \in DOMAIN head /\ EnvelopeName[j] \in DOMAIN head'
                        /\ head'[EnvelopeName[j]] = head[EnvelopeName[j]]
    BY <1>1 DEF HeadHas
  <1>3. HeadHas(8)'
    BY <1>2 DEF HeadHas
  <1>4. head'["kind"] = head["kind"]
    <2>1. EnvelopeName[3] = "kind"
      BY DEF EnvelopeName
    <2> QED
      BY <1>2, <2>1
  <1> QED
    BY <1>2, <1>3, <1>4 DEF Kind

LEMMA OpenDataTypes == TypeInv /\ DecoderInv /\ OpenData => TypeInv'
  <1> SUFFICES ASSUME TypeInv, DecoderInv, OpenData PROVE TypeInv'
    OBVIOUS
  <1> DEFINE size == InfoAt(buffer, cursor)
  <1>0. /\ HmacShape /\ CountersOK /\ HopOK /\ SentOK /\ AppliedOK /\ buffer \in Bytes
        /\ buffer \in Seq(Byte) /\ DecodingOK
    BY DEF TypeInv, Bytes
  <1>1. /\ stage = "data" /\ HeadAt(buffer, cursor, ArrayOpen, 0..23)
        /\ layout' = Layout(size) /\ extracting' = (Layout(size) # <<>>)
        /\ head' = [name \in DOMAIN head \cup {"size"} |-> IF name = "size" THEN size ELSE head[name]]
        /\ stage' = IF size = 0 THEN "hmac" ELSE "fields"
        /\ cursor' = AfterHead(buffer, cursor) /\ extraction' = AfterHead(buffer, cursor)
        /\ index' = 1 /\ values' = [name \in {} |-> Zero]
        /\ UNCHANGED <<buffer, hop, seen, sent, authentic, applied, bundles, faults>>
    BY DEF OpenData, DataHeader, histories
  <1>2. HeadHas(8) /\ InBuffer(buffer, cursor)
    BY <1>0, <1>1 DEF DecodingOK, DecoderInv, Reading
  <1>3. size \in 0..23 /\ cursor.left >= 1 /\ cursor.left - 1 >= Follows(size)
    BY <1>1 DEF HeadAt
  <1>4. Kind \in Kinds /\ (Kind = ContactType => size = 7) /\ (Kind = RangeType => size = 5)
    <2>1. CASE Kind = ContactType \/ Kind = RangeType
      BY <2>1 DEF OpenData, DataHeader, Kinds, ContactType, RangeType, MetadataType
    <2>2. CASE Kind # ContactType /\ Kind # RangeType
      BY <2>2 DEF OpenData, DataHeader, Kinds
    <2> QED
      BY <2>1, <2>2
  <1>5. HeadHas(8)' /\ Kind' = Kind /\ head'["size"] = size
    BY <1>1, <1>2, HeadGrows
  <1>6. extracting' => layout' \in Layouts(Kind) /\ Len(layout') = size /\ size >= 2
    <2> SUFFICES ASSUME extracting'
                 PROVE  layout' \in Layouts(Kind) /\ Len(layout') = size /\ size >= 2
      OBVIOUS
    <2>1. Layout(size) # <<>>
      BY <1>1, Zenon
    <2>2. Layout(size) \in Layouts(Kind) /\ Len(Layout(size)) = size /\ size \in 2..7
      BY <1>4, <2>1, LayoutFits
    <2>3. layout' = Layout(size)
      BY <1>1
    <2> HIDE DEF size
    <2> QED
      BY <2>2, <2>3
  <1> HIDE DEF size
  <1>7. ValuesOK'
    <2>1. SUFFICES ASSUME extracting'
                   PROVE  /\ layout' \in Layouts(Kind') /\ Len(layout') = head'["size"]
                          /\ values' = [field \in {layout'[j] : j \in 1..(index' - 1)} |-> values'[field]]
                          /\ \A j \in 1..(index' - 1) : values'[layout'[j]] \in FieldValues(layout'[j])
      BY DEF ValuesOK, Layouts
    <2>2. layout' \in Layouts(Kind') /\ Len(layout') = head'["size"]
      BY <1>5, <1>6, <2>1
    <2>3. 1..(index' - 1) = {}
      BY <1>1
    <2>4. {layout'[j] : j \in 1..(index' - 1)} = {}
      BY <2>3
    <2>5. values' = [field \in {} |-> values'[field]]
      BY <1>1
    <2> QED
      BY <2>2, <2>3, <2>4, <2>5
  <1>8. DecodingOK'
    <2>1. CASE size = 0
      <3>1. stage' = "hmac" /\ ~extracting'
        BY <1>1, <1>6, <2>1
      <3> QED
        BY <1>3, <1>4, <1>5, <1>7, <3>1 DEF DecodingOK
    <2>2. CASE size # 0
      <3>1. stage' = "fields" /\ index' \in 1..size
        BY <1>1, <1>3, <2>2
      <3> QED
        BY <1>3, <1>4, <1>5, <1>7, <3>1 DEF DecodingOK
    <2> QED
      BY <2>1, <2>2
  <1>9. HopOK'
    BY <1>0, <1>1 DEF HopOK, Reading
  <1>10. cursor' \in [at: Nat, left: Int] /\ extraction' \in [at: Nat, left: Int]
    <2>1. InBuffer(buffer, AfterHead(buffer, cursor))
      BY <1>0, <1>2, <1>3, AfterHeadInBuffer DEF size
    <2> QED
      BY <1>0, <1>1, <2>1, CursorTypes
  <1>11. CountersOK'
    <2>1. stage' \in {"hmac", "fields"} /\ index' \in 1..24 /\ extracting' \in BOOLEAN
      BY <1>1
    <2> QED
      BY <1>0, <1>1, <1>10, <2>1 DEF CountersOK
  <1>12. SentOK' /\ AppliedOK'
    BY <1>0, <1>1 DEF SentOK, AppliedOK
  <1> QED
    BY <1>0, <1>1, <1>8, <1>9, <1>11, <1>12 DEF TypeInv

\* The fields of a layout are different ones.
LEMMA LayoutsDiffer ==
  ASSUME NEW l \in Layouts(Kind), NEW i \in 1..Len(l), NEW j \in 1..Len(l), l[i] = l[j]
  PROVE  i = j
  <1>1. CASE l = <<"regionNbr", "fromNode", "toNode", "fromTime", "toTime", "xmitRate", "confidence">>
    BY <1>1
  <1>2. CASE l = <<"fromNode", "toNode", "fromTime", "toTime", "owlt">>
    BY <1>2
  <1>3. CASE l = <<"name", "contact">>
    BY <1>3
  <1>4. CASE l = <<"nodeId", "name", "contact">>
    BY <1>4
  <1>5. CASE l = <<"nodeId", "name", "contact", "location">>
    BY <1>5
  <1>6. CASE l = <<"name", "contact", "latitude", "longitude">>
    BY <1>6
  <1>7. CASE l = <<"nodeId", "name", "contact", "latitude", "longitude">>
    BY <1>7
  <1>8. CASE l = <<"nodeId", "name", "contact", "location", "latitude", "longitude">>
    BY <1>8
  <1>9. \/ l = <<"regionNbr", "fromNode", "toNode", "fromTime", "toTime", "xmitRate", "confidence">>
        \/ l = <<"fromNode", "toNode", "fromTime", "toTime", "owlt">>
        \/ l \in MetadataLayouts
    <2>1. ContactType # RangeType /\ ContactType # MetadataType /\ RangeType # MetadataType
      BY DEF ContactType, RangeType, MetadataType
    <2>2. CASE Kind = ContactType
      BY <2>1, <2>2 DEF Layouts
    <2>3. CASE Kind = RangeType
      BY <2>1, <2>3 DEF Layouts
    <2>4. CASE Kind # ContactType /\ Kind # RangeType
      BY <2>4 DEF Layouts
    <2> QED
      BY <2>2, <2>3, <2>4
  <1> QED
    BY <1>1, <1>2, <1>3, <1>4, <1>5, <1>6, <1>7, <1>8, <1>9 DEF MetadataLayouts

LEMMA ReadFieldTypes == TypeInv /\ DecoderInv /\ ReadField => TypeInv'
  <1> SUFFICES ASSUME TypeInv, DecoderInv, ReadField PROVE TypeInv'
    OBVIOUS
  <1> DEFINE name == layout[index]
             size == head["size"]
  <1>0. /\ HmacShape /\ CountersOK /\ HopOK /\ SentOK /\ AppliedOK /\ buffer \in Bytes
        /\ buffer \in Seq(Byte) /\ DecodingOK
    BY DEF TypeInv, Bytes
  <1>1. /\ stage = "fields" /\ Skippable(buffer, cursor) /\ Extract
        /\ cursor' = AfterSkip(buffer, cursor) /\ index' = index + 1
        /\ stage' = IF index = size THEN "hmac" ELSE "fields"
        /\ UNCHANGED <<buffer, hop, head, layout, seen, sent, authentic, applied, bundles, faults>>
    BY DEF ReadField, histories
  <1>2. /\ HeadHas(8) /\ Kind \in Kinds /\ size \in 0..23 /\ index \in 1..size /\ ValuesOK
        /\ InBuffer(buffer, cursor) /\ (extracting => extraction = cursor)
    BY <1>0, <1>1 DEF DecodingOK, DecoderInv, Reading, WalksAgree
  <1>3. HeadHas(8)' /\ Kind' = Kind /\ head'["size"] = size
    BY <1>1, <1>2 DEF HeadHas, Kind
  <1>4. InBuffer(buffer, cursor') /\ InBuffer(buffer, AfterSkip(buffer, cursor))
    BY <1>0, <1>1, <1>2, AfterSkipInBuffer
  <1>5. ASSUME extracting, FieldAt(name)
        PROVE  ValuesOK' /\ extraction' \in [at: Nat, left: Int] /\ extracting' \in BOOLEAN
    <2>1. /\ values' = [f \in DOMAIN values \cup {name} |->
                          IF f = name THEN FieldValue(f) ELSE values[f]]
          /\ extraction' = AfterField(name) /\ extracting' = TRUE
      BY <1>1, <1>5 DEF Extract
    <2>2. FieldValue(name) \in FieldValues(name)
      BY <1>0, <1>2, <1>5, FieldValueTypes
    <2>3. AfterField(name) = AfterSkip(buffer, cursor)
      BY <1>0, <1>2, <1>5, FieldEndsWhereSkipped
    <2>4. extraction' \in [at: Nat, left: Int]
      BY <1>0, <1>4, <2>1, <2>3, CursorTypes
    <2>5. /\ layout \in Layouts(Kind) /\ Len(layout) = size
          /\ values = [field \in {layout[j] : j \in 1..(index - 1)} |-> values[field]]
          /\ \A j \in 1..(index - 1) : values[layout[j]] \in FieldValues(layout[j])
      BY <1>2, <1>5 DEF ValuesOK
    <2>6. DOMAIN values \cup {name} = {layout[j] : j \in 1..index}
      <3>1. DOMAIN values = {layout[j] : j \in 1..(index - 1)}
        BY <2>5
      <3>2. \A j : j \in 1..index <=> j \in 1..(index - 1) \/ j = index
        BY <1>2
      <3> QED
        BY <3>1, <3>2
    <2>7. ASSUME NEW j \in 1..index PROVE values'[layout[j]] \in FieldValues(layout[j])
      <3>1. layout[j] \in DOMAIN values \cup {name}
        BY <2>6
      <3>2. CASE j = index
        BY <2>1, <2>2, <3>1, <3>2
      <3>3. CASE j # index
        <4>1. j \in 1..Len(layout) /\ index \in 1..Len(layout) /\ j \in 1..(index - 1)
          BY <1>2, <2>5, <3>3
        <4>2. layout[j] # name
          BY <2>5, <3>3, <4>1, LayoutsDiffer
        <4>3. values'[layout[j]] = values[layout[j]]
          BY <2>1, <3>1, <4>2
        <4> QED
          BY <2>5, <4>1, <4>3
      <3> QED
        BY <3>2, <3>3
    <2>8. values' = [field \in {layout[j] : j \in 1..index} |-> values'[field]]
      BY <2>1, <2>6
    <2>9. index' - 1 = index
      BY <1>1, <1>2
    <2>10. ValuesOK'
      <3>1. layout' \in Layouts(Kind') /\ Len(layout') = head'["size"] /\ layout' = layout
        BY <1>1, <1>3, <2>5
      <3>2. values' = [field \in {layout'[j] : j \in 1..(index' - 1)} |-> values'[field]]
        BY <2>8, <2>9, <3>1
      <3>3. \A j \in 1..(index' - 1) : values'[layout'[j]] \in FieldValues(layout'[j])
        BY <2>7, <2>9, <3>1
      <3> QED
        BY <3>1, <3>2, <3>3 DEF ValuesOK, Layouts
    <2> QED
      BY <2>1, <2>4, <2>10
  <1>6. ASSUME ~(extracting /\ FieldAt(name))
        PROVE  ValuesOK' /\ extraction' \in [at: Nat, left: Int] /\ extracting' \in BOOLEAN
    <2>1. extracting' = FALSE /\ extraction' = extraction
      BY <1>1, <1>6 DEF Extract
    <2>2. ValuesOK'
      BY <2>1 DEF ValuesOK
    <2> QED
      BY <1>0, <2>1, <2>2 DEF CountersOK
  <1>7. ValuesOK' /\ extraction' \in [at: Nat, left: Int] /\ extracting' \in BOOLEAN
    BY <1>5, <1>6
  <1>8. index' \in 1..24 /\ (index # size => index' \in 1..size) /\ (index = size => index' = size + 1)
    BY <1>1, <1>2
  <1> HIDE DEF size
  <1>9. DecodingOK'
    <2>1. CASE index = size
      <3>1. stage' = "hmac"
        BY <1>1, <2>1
      <3> QED
        BY <1>2, <1>3, <1>7, <1>8, <2>1, <3>1 DEF DecodingOK
    <2>2. CASE index # size
      <3>1. stage' = "fields"
        BY <1>1, <2>2
      <3> QED
        BY <1>2, <1>3, <1>7, <1>8, <2>2, <3>1 DEF DecodingOK
    <2> QED
      BY <2>1, <2>2
  <1>10. HopOK'
    BY <1>0, <1>1 DEF HopOK, Reading
  <1>11. CountersOK'
    <2>1. cursor' \in [at: Nat, left: Int]
      BY <1>0, <1>4, CursorTypes
    <2>2. stage' \in {"hmac", "fields"}
      BY <1>1
    <2> QED
      BY <1>0, <1>1, <1>7, <1>8, <2>1, <2>2 DEF CountersOK
  <1>12. SentOK' /\ AppliedOK'
    BY <1>0, <1>1 DEF SentOK, AppliedOK
  <1> QED
    BY <1>0, <1>1, <1>9, <1>10, <1>11, <1>12 DEF TypeInv

LEMMA CheckHmacTypes == TypeInv /\ DecoderInv /\ CheckHmac => TypeInv'
  <1> SUFFICES ASSUME TypeInv, DecoderInv, CheckHmac PROVE TypeInv'
    OBVIOUS
  <1>0. /\ HmacShape /\ CountersOK /\ HopOK /\ SentOK /\ AppliedOK /\ buffer \in Bytes /\ DecodingOK
    BY DEF TypeInv
  <1>1. PICK computed \in BOOLEAN :
          /\ Faulty(computed)
          /\ IF verifyHmac(computed)
               THEN /\ seen' = [seen EXCEPT ![hop] = @ \cup {NonceOf}]
                    /\ stage' = IF extracting THEN "handler" ELSE "idle"
               ELSE stage' = "idle" /\ UNCHANGED seen
    BY DEF CheckHmac
  <1>2. /\ stage = "hmac" /\ UNCHANGED walk
        /\ UNCHANGED <<buffer, hop, sent, authentic, applied, bundles>>
        /\ UNCHANGED <<head, layout, extracting, values, index>>
    BY DEF CheckHmac, histories, walk
  <1>3. stage' \in {"handler", "idle"} /\ (stage' = "handler" => extracting)
    BY <1>1
  <1>4. HeadHas(8) /\ Kind \in Kinds /\ head["size"] \in 0..23 /\ ValuesOK
        /\ (extracting => index = head["size"] + 1)
    BY <1>0, <1>2 DEF DecodingOK
  <1>5. NonceOf \in Vast \X Bytes
    BY <1>4, HeadParts DEF NonceOf
  <1>6. seen' \in [1..Len(Chain) -> SUBSET (Vast \X Bytes)]
    <2>1. seen \in [1..Len(Chain) -> SUBSET (Vast \X Bytes)] /\ hop \in 1..Len(Chain)
      BY <1>0 DEF CountersOK, HopOK
    <2>2. CASE seen' = [seen EXCEPT ![hop] = @ \cup {NonceOf}]
      BY <1>5, <2>1, <2>2
    <2>3. CASE UNCHANGED seen
      BY <2>1, <2>3
    <2> QED
      BY <1>1, <2>2, <2>3
  <1>7. faults' \in 0..MaxFaults
    BY <1>0, <1>1, FaultsStay
  <1>8. HeadHas(8)' /\ Kind' = Kind /\ ValuesOK'
    BY <1>2, <1>4 DEF HeadHas, ValuesOK, Kind, Layouts
  <1>9. DecodingOK'
    BY <1>2, <1>3, <1>4, <1>8 DEF DecodingOK
  <1>10. CountersOK'
    <2>1. /\ cursor' \in [at: Nat, left: Int] /\ extraction' \in [at: Nat, left: Int]
          /\ index' \in 1..24 /\ extracting' \in BOOLEAN
      BY <1>0, <1>2, WalkStands
    <2> QED
      BY <1>0, <1>2, <1>3, <1>6, <1>7, <2>1 DEF CountersOK
  <1>11. HopOK'
    BY <1>0, <1>2, <1>3 DEF HopOK, Reading
  <1>12. SentOK' /\ AppliedOK'
    BY <1>0, <1>2, <1>3 DEF SentOK, AppliedOK
  <1> QED
    BY <1>0, <1>2, <1>9, <1>10, <1>11, <1>12 DEF TypeInv

\* One more record is applied.
LEMMA AppliedGrows ==
  ASSUME AppliedOK, NEW STATE m
  PROVE  /\ Append(applied, m) # <<>> /\ Len(Append(applied, m)) = Len(applied) + 1
         /\ Append(applied, m)[Len(applied) + 1] = m /\ Len(applied) \in Nat
         /\ \A i \in 1..Len(applied) : Append(applied, m)[i] = applied[i]
         /\ Append(applied, m) \in
              Seq({Append(applied, m)[i] : i \in 1..Len(Append(applied, m))})
  <1> DEFINE S == {applied[i] : i \in 1..Len(applied)} \cup {m}
             p == Append(applied, m)
  <1>1. applied \in Seq(S)
    <2>1. applied \in Seq({applied[i] : i \in 1..Len(applied)})
      BY DEF AppliedOK
    <2> QED
      BY <2>1
  <1>2. m \in S
    OBVIOUS
  <1> HIDE DEF S
  <1>3. /\ p \in Seq(S) /\ Len(p) = Len(applied) + 1 /\ Len(applied) \in Nat
        /\ p[Len(applied) + 1] = m /\ \A i \in 1..Len(applied) : p[i] = applied[i]
    BY <1>1, <1>2
  <1>4. p # <<>>
    BY <1>3
  <1>5. p \in Seq({p[i] : i \in 1..Len(p)})
    <2> HIDE DEF p
    <2>1. p = [i \in 1..Len(p) |-> p[i]] /\ Len(p) \in Nat
      BY <1>3
    <2> QED
      BY <2>1
  <1> QED
    BY <1>3, <1>4, <1>5

LEMMA HandleTypes == TypeInv /\ DecoderInv /\ Handle => TypeInv'
  <1> SUFFICES ASSUME TypeInv, DecoderInv, Handle PROVE TypeInv'
    OBVIOUS
  <1> DEFINE m == [envelope |-> EnvelopeOf, fields |-> Decoded]
  <1>0. /\ HmacShape /\ CountersOK /\ HopOK /\ SentOK /\ AppliedOK /\ buffer \in Bytes /\ DecodingOK
    BY DEF TypeInv
  <1>1. /\ stage = "handler" /\ UNCHANGED walk
        /\ UNCHANGED <<buffer, hop, seen, sent, authentic, bundles, faults>>
        /\ UNCHANGED <<head, layout, extracting, values, index>>
    BY DEF Handle, walk
  <1>2. \/ stage' = "idle" /\ applied' = applied
        \/ stage' = "forward" /\ applied' = Append(applied, m)
    BY DEF Handle
  <1>3. /\ HeadHas(8) /\ Kind \in Kinds /\ head["size"] \in 0..23 /\ ValuesOK /\ extracting
        /\ index = head["size"] + 1
    BY <1>0, <1>1 DEF DecodingOK
  <1>4. IsMessage(m) /\ ~TooLong(m)
    BY <1>3, DecodedTypes
  <1>5. m.envelope = EnvelopeOf
    OBVIOUS
  <1> HIDE DEF m
  <1>6. EnvelopeOf' = EnvelopeOf /\ HeadHas(8)' /\ Kind' = Kind
    BY <1>1, <1>3 DEF EnvelopeOf, HeadHas, Kind
  <1>7. AppliedOK'
    <2>1. CASE stage' = "idle" /\ applied' = applied
      BY <1>0, <2>1 DEF AppliedOK
    <2>2. CASE stage' = "forward" /\ applied' = Append(applied, m)
      <3>0. AppliedOK /\ applied' = Append(applied, m)
        BY <1>0, <2>2
      <3>1. /\ applied' # <<>> /\ Len(applied') = Len(applied) + 1
            /\ applied'[Len(applied) + 1] = m /\ Len(applied) \in Nat
            /\ \A i \in 1..Len(applied) : applied'[i] = applied[i]
            /\ applied' \in Seq({applied'[i] : i \in 1..Len(applied')})
        <4> DEFINE p == Append(applied, m)
        <4>1. /\ p # <<>> /\ Len(p) = Len(applied) + 1
              /\ p[Len(applied) + 1] = m /\ Len(applied) \in Nat
              /\ \A i \in 1..Len(applied) : p[i] = applied[i]
              /\ p \in Seq({p[i] : i \in 1..Len(p)})
          BY <3>0, AppliedGrows, Zenon
        <4>2. applied' = p
          BY <3>0
        <4> HIDE DEF p
        <4> QED
          BY <4>1, <4>2
      <3>2. \A i \in 1..Len(applied') : i \in 1..Len(applied) \/ i = Len(applied) + 1
        BY <3>1
      <3>3. \A i \in 1..Len(applied) : IsMessage(applied[i]) /\ ~TooLong(applied[i])
        BY <1>0 DEF AppliedOK
      <3>4. \A i \in 1..Len(applied') : IsMessage(applied'[i]) /\ ~TooLong(applied'[i])
        BY <1>4, <3>1, <3>2, <3>3
      <3>5. applied'[Len(applied')].envelope = EnvelopeOf'
        BY <1>5, <1>6, <3>1
      <3> HIDE DEF m
      <3> QED
        BY <3>1, <3>4, <3>5 DEF AppliedOK, IsMessage, TooLong
    <2> QED
      BY <1>2, <2>1, <2>2
  <1>8. DecodingOK'
    BY <1>1, <1>2, <1>3, <1>6 DEF DecodingOK
  <1>9. CountersOK'
    <2>1. /\ cursor' \in [at: Nat, left: Int] /\ extraction' \in [at: Nat, left: Int]
          /\ index' \in 1..24 /\ extracting' \in BOOLEAN
      BY <1>0, <1>1, WalkStands
    <2> QED
      BY <1>0, <1>1, <1>2, <2>1 DEF CountersOK
  <1>10. HopOK'
    BY <1>0, <1>1, <1>2 DEF HopOK, Reading
  <1>11. SentOK'
    BY <1>0, <1>1 DEF SentOK
  <1> QED
    BY <1>0, <1>1, <1>7, <1>8, <1>9, <1>10, <1>11 DEF TypeInv

LEMMA ForwardTypes == TypeInv /\ Forward => TypeInv'
  <1> SUFFICES ASSUME TypeInv, Forward PROVE TypeInv'
    OBVIOUS
  <1> DEFINE m == applied[Len(applied)]
  <1>0. /\ HmacShape /\ CountersOK /\ HopOK /\ SentOK /\ AppliedOK /\ buffer \in Bytes /\ DecodingOK
    BY DEF TypeInv
  <1>1. stage = "forward" /\ UNCHANGED <<hop, seen, sent, applied, bundles>>
    BY DEF Forward
  <1>2. IsMessage(m) /\ m.envelope = EnvelopeOf
    <2>1. applied # <<>> /\ Len(applied) \in 1..Len(applied)
      BY <1>0, <1>1 DEF AppliedOK
    <2> QED
      BY <1>0, <1>1, <2>1 DEF AppliedOK
  <1> HIDE DEF m
  <1>3. /\ buffer' \in Bytes /\ authentic' \in BOOLEAN /\ UNCHANGED walk
        /\ stage' \in {"encoded", "dead", "idle"} /\ (stage' = "encoded" => hop < Len(Chain))
        /\ faults' \in 0..MaxFaults
    <2>1. CASE hop < Len(Chain)
      <3>1. PICK computed \in BOOLEAN :
              /\ Encoded(Encode(m.envelope, m.fields, Chain[hop], computed), computed)
              /\ Faulty(computed)
        BY <1>2, <2>1 DEF Forward, m
      <3>2. Chain[hop] \in Vast
        BY <1>0, ChainTypes DEF HopOK
      <3>3. Encode(m.envelope, m.fields, Chain[hop], computed) \in Seq(Byte)
        BY <1>0, <1>2, <3>2, MessageSpelt
      <3>4. faults' \in 0..MaxFaults
        BY <1>0, <3>1, FaultsStay
      <3>5. /\ buffer' = Encode(m.envelope, m.fields, Chain[hop], computed) /\ authentic' = computed
            /\ stage' \in {"encoded", "dead"} /\ UNCHANGED walk
        BY <3>1 DEF Encoded
      <3> QED
        BY <2>1, <3>3, <3>4, <3>5 DEF Bytes
    <2>2. CASE ~(hop < Len(Chain))
      BY <1>0, <2>2 DEF Forward, CountersOK
    <2> QED
      BY <2>1, <2>2
  <1>4. DecodingOK' /\ ~Reading'
    BY <1>3, NotReading
  <1>5. HopOK'
    BY <1>0, <1>1, <1>3, <1>4 DEF HopOK
  <1>6. CountersOK'
    <2>1. /\ cursor' \in [at: Nat, left: Int] /\ extraction' \in [at: Nat, left: Int]
          /\ index' \in 1..24 /\ extracting' \in BOOLEAN
      BY <1>0, <1>3, WalkStands
    <2> QED
      BY <1>0, <1>1, <1>3, <2>1 DEF CountersOK
  <1>7. SentOK' /\ AppliedOK'
    BY <1>0, <1>1, <1>3 DEF SentOK, AppliedOK
  <1> QED
    BY <1>0, <1>3, <1>4, <1>5, <1>6, <1>7 DEF TypeInv

LEMMA TypesStand ==
  ASSUME TypeInv, UNCHANGED <<buffer, hop, stage, walk, seen, histories, bundles, faults>>
  PROVE  TypeInv'
  <1>0. /\ HmacShape /\ CountersOK /\ HopOK /\ SentOK /\ AppliedOK /\ buffer \in Bytes /\ DecodingOK
    BY DEF TypeInv
  <1>1. UNCHANGED <<buffer, hop, stage, cursor, extraction, index, head, layout, extracting, values,
                    seen, sent, authentic, applied, bundles, faults>>
    BY DEF walk, histories
  <1>2. Kind' = Kind /\ EnvelopeOf' = EnvelopeOf /\ \A k : HeadHas(k)' = HeadHas(k)
    BY <1>1 DEF Kind, EnvelopeOf, HeadHas
  <1>3. ValuesOK' = ValuesOK
    BY <1>1, <1>2 DEF ValuesOK, Layouts
  <1>4. DecodingOK'
    <2>1. HeadHas(index - 1)' = HeadHas(index - 1) /\ HeadHas(8)' = HeadHas(8)
      BY <1>1 DEF HeadHas
    <2> QED
      BY <1>0, <1>1, <1>2, <1>3, <2>1 DEF DecodingOK
  <1>5. CountersOK' /\ HopOK' /\ SentOK'
    BY <1>0, <1>1 DEF CountersOK, HopOK, SentOK, Reading
  <1>6. AppliedOK'
    BY <1>0, <1>1, <1>2 DEF AppliedOK
  <1> QED
    BY <1>0, <1>1, <1>4, <1>5, <1>6 DEF TypeInv

LEMMA BufferIsBytes == TypeInv => BytesOnly
  BY DEF TypeInv, BytesOnly

LEMMA NextTypes == TypeInv /\ DecoderInv /\ [Next]_vars => TypeInv' /\ DecoderInv'
  <1> SUFFICES ASSUME TypeInv, DecoderInv, [Next]_vars PROVE TypeInv' /\ DecoderInv'
    OBVIOUS
  <1>1. DecoderInv'
    BY BufferIsBytes, NextDecoder
  <1>2. CASE Table \/ UNCHANGED vars
    BY <1>1, <1>2, TypesStand DEF Table, vars
  <1>3. CASE Announce \/ sendCborBundle \/ StrayArrives \/ Receive \/ Refuse \/ Forward
    BY <1>1, <1>3, AnnounceTypes, TransportTypes, ReceiveTypes, ForwardTypes
  <1>4. CASE ReadEnvelope \/ OpenData \/ ReadField \/ CheckHmac \/ Handle
    BY <1>1, <1>4, ReadEnvelopeTypes, OpenDataTypes, ReadFieldTypes, CheckHmacTypes, HandleTypes
  <1> QED
    BY <1>1, <1>2, <1>3, <1>4 DEF Next

LEMMA TypeInvThen == TypeInv => TypeOK
  <1> SUFFICES ASSUME TypeInv PROVE TypeOK
    OBVIOUS
  <1>0. CountersOK /\ HopOK /\ AppliedOK /\ buffer \in Bytes
    BY DEF TypeInv
  <1>1. ASSUME NEW i \in 1..Len(applied)
        PROVE  /\ applied[i].fields \in Fields(applied[i].envelope.kind)
               /\ \A t \in DOMAIN applied[i].fields \cap Texts : Len(applied[i].fields[t]) < Limit(t)
    <2> DEFINE f == applied[i].fields
               k == applied[i].envelope.kind
    <2>1. /\ k \in Kinds
          /\ k = ContactType => f \in ContactRecord
          /\ k = RangeType => f \in RangeRecord
          /\ k = MetadataType => f \in MetadataRecord
      BY <1>0, MessageTypes DEF AppliedOK
    <2>2. ContactType # RangeType /\ ContactType # MetadataType /\ RangeType # MetadataType
      BY DEF ContactType, RangeType, MetadataType
    <2> HIDE DEF f, k
    <2>3. CASE k = ContactType
      <3>1. f \in ContactFields /\ Fields(k) = ContactFields
        BY <2>1, <2>2, <2>3, ContactTypes DEF Fields
      <3>2. DOMAIN f \cap Texts = {}
        BY <3>1 DEF ContactFields, Texts
      <3> QED
        BY <3>1, <3>2 DEF f, k
    <2>4. CASE k = RangeType
      <3>1. f \in RangeFields /\ Fields(k) = RangeFields
        BY <2>1, <2>2, <2>4, RangeTypes DEF Fields
      <3>2. DOMAIN f \cap Texts = {}
        BY <3>1 DEF RangeFields, Texts
      <3> QED
        BY <3>1, <3>2 DEF f, k
    <2>5. CASE k = MetadataType
      <3>1. f \in MetadataFields /\ Fields(k) = MetadataFields
        BY <2>1, <2>2, <2>5, MetadataTypes DEF Fields
      <3>2. \A t \in Texts : f[t] \in Text /\ Len(f[t]) <= Limit(t) - 1
        BY <2>1, <2>5 DEF MetadataRecord
      <3>3. \A t \in Texts : Len(f[t]) < Limit(t)
        <4> SUFFICES ASSUME NEW t \in Texts PROVE Len(f[t]) < Limit(t)
          OBVIOUS
        <4>1. Limit(t) \in Nat
          BY Parameters DEF IsSize
        <4>2. Len(f[t]) \in Nat
          BY <3>2, TextTypes
        <4> QED
          BY <3>2, <4>1, <4>2
      <3> QED
        BY <3>1, <3>3 DEF f, k
    <2> QED
      BY <2>1, <2>3, <2>4, <2>5 DEF Kinds
  <1> QED
    BY <1>0, <1>1 DEF TypeOK, CountersOK, HopOK

\* The types of the bundle, the decoder's variables and the records applied: TypeOK of
\* Wire, for any chain, records, bundles and sizes, as long as an HMAC has its length.
THEOREM WireTypes == Spec /\ HmacShape => []TypeOK
  <1>1. HmacShape /\ Init => TypeInv /\ DecoderInv
    BY InitTypes, InitDecoder
  <1>2. TypeInv => TypeOK
    BY TypeInvThen
  <1> QED
    BY <1>1, <1>2, NextTypes, PTL DEF Spec

LEMMA BytesAlways == Spec /\ HmacShape => []BytesOnly
  <1>1. HmacShape /\ Init => TypeInv /\ DecoderInv
    BY InitTypes, InitDecoder
  <1> QED
    BY <1>1, BufferIsBytes, NextTypes, PTL DEF Spec

\* The two counters of the decoder never part and neither walk leaves the buffer:
\* CursorsInBuffer of Wire, for bundles of any length and content.
THEOREM DecoderStaysInside == Spec /\ HmacShape => []CursorsInBuffer
  <1>1. BytesOnly /\ DecoderInv => CursorsInBuffer
    <2> SUFFICES ASSUME BytesOnly, DecoderInv, Reading
                 PROVE  /\ cursor.left \in 0..Len(buffer)
                        /\ cursor.at + cursor.left = Len(buffer) + 1
                        /\ extracting => extraction.left >= 0
      BY DEF CursorsInBuffer
    <2>1. InBuffer(buffer, cursor) /\ Len(buffer) \in Nat
      BY DEF DecoderInv, BytesOnly, Bytes
    <2> QED
      BY <2>1 DEF InBuffer, DecoderInv
  <1> QED
    BY <1>1, InitDecoder, NextDecoder, BytesAlways, PTL DEF Spec

\* As long as the extraction goes well it stands where the walk stands that finds the
\* HMAC: what is applied is what was signed.  WalksAgree of Wire, for any bundle.
THEOREM WalksStayTogether == Spec /\ HmacShape => []WalksAgree
  <1>1. DecoderInv => WalksAgree
    BY DEF DecoderInv
  <1> QED
    BY <1>1, InitDecoder, NextDecoder, BytesAlways, PTL DEF Spec

-----------------------------------------------------------------------------
(* The message under way, item by item.                                    *)

LEMMA ToldTypes ==
  ASSUME TypeInv, IsTold
  PROVE  IsMessage(Told)
  <1>1. CASE applied # <<>>
    <2>1. Len(applied) \in 1..Len(applied)
      BY <1>1 DEF TypeInv, AppliedOK
    <2>2. IsMessage(applied[Len(applied)])
      BY <2>1 DEF TypeInv, AppliedOK
    <2> QED
      BY <1>1, <2>2 DEF Told
  <1>2. CASE applied = <<>>
    <2>1. /\ sent.announced \in Announced /\ sent.envelope \in Envelope
          /\ sent.envelope.kind = sent.announced.kind
      BY <1>2 DEF IsTold, TypeInv, SentOK
    <2>2. FieldsOf(sent.announced) \in Record(sent.envelope.kind)
      BY <2>1, AnnouncedTypes
    <2> QED
      BY <1>2, <2>1, <2>2 DEF Told, IsMessage
  <1> QED
    BY <1>1, <1>2

LEMMA FromTypes ==
  ASSUME TypeInv, UnderWay
  PROVE  From \in Vast
  <1>1. HopOK
    BY DEF TypeInv
  <1>2. CASE stage \in {"encoded", "flying"}
    BY <1>1, <1>2, ChainTypes DEF From, HopOK
  <1>3. CASE stage \notin {"encoded", "flying"}
    <2>1. Reading \/ stage = "handler"
      BY <1>3 DEF UnderWay
    <2>2. hop - 1 \in 1..Len(Chain)
      BY <1>1, <2>1, ChainTypes DEF HopOK
    <2> QED
      BY <1>3, <2>2, ChainTypes DEF From
  <1> QED
    BY <1>2, <1>3

LEMMA HeadAtMore ==
  ASSUME NEW buf, NEW c, NEW major, HeadAt(buf, c, major, 0..25)
  PROVE  HeadAt(buf, c, major, 0..27)
  BY DEF HeadAt

\* A string is what it was, when its bytes and its length are.
LEMMA StringIs ==
  ASSUME NEW s \in Seq(Byte), SkipLength(buffer, cursor) = Len(s),
         \A i \in 1..Len(s) : buffer[AfterHead(buffer, cursor).at + i - 1] = s[i]
  PROVE  StringValue = s
  <1>1. StringValue = [i \in 1..Len(s) |-> s[i]]
    BY DEF StringValue
  <1> QED
    BY <1>1

LEMMA EnvelopeItemsAre ==
  ASSUME NEW env, NEW sender
  PROVE  /\ EnvelopeItems(env, sender)[1] = EncodeHead(ArrayOpen, Small(9))
         /\ EnvelopeItems(env, sender)[2] = EncodeHead(UnsignedInteger, Small(DTNEX_PROTOCOL_VERSION))
         /\ EnvelopeItems(env, sender)[3] = EncodeText(<<env.kind>>)
         /\ EnvelopeItems(env, sender)[4] = EncodeHead(UnsignedInteger, env.timestamp)
         /\ EnvelopeItems(env, sender)[5] = EncodeHead(UnsignedInteger, env.expire)
         /\ EnvelopeItems(env, sender)[6] = EncodeHead(UnsignedInteger, env.origin)
         /\ EnvelopeItems(env, sender)[7] = EncodeHead(UnsignedInteger, sender)
         /\ EnvelopeItems(env, sender)[8] = EncodeBytes(env.nonce)
  BY DEF EnvelopeItems, EncodeInteger, EncodeArrayOpen

LEMMA ReadAsWritten ==
  ASSUME TypeInv, IsTold, stage = "envelope", CursorTold
  PROVE  /\ AtItem(buffer, Items(Told, From, authentic), Size(Told), AfterSkip(buffer, cursor),
                   index + 1)
         /\ EnvelopeItem \/ Precedes(Told.envelope.expire, Now)
         /\ EnvelopeName[index] \in {"kind", "timestamp", "expire", "origin", "nonce"} =>
              EnvelopeValue = Says(Told, EnvelopeName[index])
  <1> DEFINE e == Told.envelope
             z == Items(Told, From, authentic)
             size == Size(Told)
             name == EnvelopeName[index]
             k == <<e.kind>>
  <1>0. /\ HmacShape /\ buffer \in Seq(Byte) /\ index \in 1..8 /\ authentic \in BOOLEAN
        /\ Reading /\ UnderWay
    BY DEF TypeInv, DecodingOK, CountersOK, Bytes, Reading, UnderWay
  <1>1. IsMessage(Told) /\ From \in Vast
    BY <1>0, ToldTypes, FromTypes
  <1>2. AtItem(buffer, z, size, cursor, index)
    BY <1>0 DEF CursorTold, Place
  <1>3. /\ size \in Nat /\ index \in 1..size /\ z[index] = EnvelopeItems(e, From)[index]
    <2>1. /\ size = 10 + Len(LayoutOf(Told)) /\ Len(LayoutOf(Told)) \in 3..7
          /\ \A i \in 1..8 : z[i] = EnvelopeItems(e, From)[i]
      BY <1>0, <1>1, ItemsAre
    <2> QED
      BY <1>0, <2>1
  <1>4. /\ e \in Envelope /\ e.kind \in Kinds /\ e.timestamp \in Vast /\ e.expire \in Vast
        /\ e.origin \in Vast /\ e.nonce \in Seq(Byte) /\ Len(e.nonce) = DTNEX_NONCE_SIZE
        /\ Len(e.nonce) < 65536
    BY <1>1, MessageTypes, EnvelopeTypes
  <1>5. k \in Seq(Byte) /\ Len(k) < 65536
    BY <1>4, KindBytes
  <1>18. Len(k) = 1
    BY <1>4, KindBytes
  <1>6. Small(9) \in Vast /\ Small(DTNEX_PROTOCOL_VERSION) \in Vast
    BY Parameters, SmallNumbers DEF IsSize
  <1>7. UnsignedInteger \in {UnsignedInteger, ArrayOpen} /\ ArrayOpen \in {UnsignedInteger, ArrayOpen}
        /\ ByteString \in {ByteString, TextString} /\ TextString \in {ByteString, TextString}
    OBVIOUS
  <1> HIDE DEF e, z, size, k
  <1>8. ASSUME NEW major \in {UnsignedInteger, ArrayOpen}, NEW v \in Vast,
               EnvelopeItems(e, From)[index] = EncodeHead(major, v)
        PROVE  /\ HeadAt(buffer, cursor, major, 0..27) /\ Argument(buffer, cursor) = v
               /\ AtItem(buffer, z, size, AfterSkip(buffer, cursor), index + 1)
    <2>1. z[index] = EncodeHead(major, v)
      BY <1>3, <1>8
    <2> QED
      BY <1>0, <1>2, <1>3, <2>1, HeadItem
  <1>9. ASSUME NEW major \in {ByteString, TextString}, NEW s \in Seq(Byte), Len(s) < 65536,
               EnvelopeItems(e, From)[index] = EncodeString(major, s)
        PROVE  /\ HeadAt(buffer, cursor, major, 0..27) /\ Skippable(buffer, cursor)
               /\ SkipLength(buffer, cursor) = Len(s) /\ StringValue = s
               /\ AtItem(buffer, z, size, AfterSkip(buffer, cursor), index + 1)
    <2>1. z[index] = EncodeString(major, s)
      BY <1>3, <1>9
    <2>2. /\ HeadAt(buffer, cursor, major, 0..25) /\ Skippable(buffer, cursor)
          /\ SkipLength(buffer, cursor) = Len(s)
          /\ \A i \in 1..Len(s) : buffer[AfterHead(buffer, cursor).at + i - 1] = s[i]
          /\ AtItem(buffer, z, size, AfterSkip(buffer, cursor), index + 1)
      BY <1>0, <1>2, <1>3, <1>9, <2>1, StringItem
    <2> QED
      BY <2>2, HeadAtMore, StringIs
  <1>10. CASE index = 1
    <2>1. name = "array"
      BY <1>10 DEF EnvelopeName
    <2>0. EnvelopeItems(e, From)[index] = EncodeHead(ArrayOpen, Small(9))
      BY <1>10, EnvelopeItemsAre
    <2>2. /\ HeadAt(buffer, cursor, ArrayOpen, 0..27) /\ Argument(buffer, cursor) = Small(9)
          /\ AtItem(buffer, z, size, AfterSkip(buffer, cursor), index + 1)
      BY <1>1, <1>4, <1>6, <1>7, <1>8, <2>0
    <2>3. EnvelopeItem
      BY <2>1, <2>2 DEF EnvelopeItem
    <2> QED
      BY <2>1, <2>2, <2>3 DEF z, size
  <1>11. CASE index = 2
    <2>1. name = "version"
      BY <1>11 DEF EnvelopeName
    <2>0. EnvelopeItems(e, From)[index] = EncodeHead(UnsignedInteger, Small(DTNEX_PROTOCOL_VERSION))
      BY <1>11, EnvelopeItemsAre
    <2>2. /\ HeadAt(buffer, cursor, UnsignedInteger, 0..27)
          /\ Argument(buffer, cursor) = Small(DTNEX_PROTOCOL_VERSION)
          /\ AtItem(buffer, z, size, AfterSkip(buffer, cursor), index + 1)
      BY <1>1, <1>4, <1>6, <1>7, <1>8, <2>0
    <2>3. EnvelopeItem
      BY <2>1, <2>2 DEF EnvelopeItem, IntegerAt, IntegerValue
    <2> QED
      BY <2>1, <2>2, <2>3 DEF z, size
  <1>12. CASE index = 3
    <2>1. name = "kind"
      BY <1>12 DEF EnvelopeName
    <2>2. EncodeText(k) = EncodeString(TextString, k)
      BY <1>5, TextBytes
    <2>3. EnvelopeItems(e, From)[index] = EncodeString(TextString, k)
      <3>1. EnvelopeItems(e, From)[3] = EncodeText(k)
        BY EnvelopeItemsAre DEF k
      <3> QED
        BY <1>12, <2>2, <3>1
    <2>4. /\ HeadAt(buffer, cursor, TextString, 0..27) /\ Skippable(buffer, cursor)
          /\ SkipLength(buffer, cursor) = Len(k) /\ StringValue = k
          /\ AtItem(buffer, z, size, AfterSkip(buffer, cursor), index + 1)
      BY <1>5, <1>7, <1>9, <2>3
    <2>5. EnvelopeItem
      BY <1>18, <2>1, <2>4 DEF EnvelopeItem
    <2>6. EnvelopeValue = Says(Told, name)
      BY <2>1, <2>4 DEF EnvelopeValue, Says, e, k
    <2> QED
      BY <2>4, <2>5, <2>6 DEF z, size
  <1>13. CASE index = 4
    <2>1. name = "timestamp"
      BY <1>13 DEF EnvelopeName
    <2>0. EnvelopeItems(e, From)[index] = EncodeHead(UnsignedInteger, e.timestamp)
      BY <1>13, EnvelopeItemsAre
    <2>3. /\ HeadAt(buffer, cursor, UnsignedInteger, 0..27) /\ Argument(buffer, cursor) = e.timestamp
          /\ AtItem(buffer, z, size, AfterSkip(buffer, cursor), index + 1)
      BY <1>4, <1>7, <1>8, <2>0
    <2>4. EnvelopeItem
      BY <2>1, <2>3 DEF EnvelopeItem, IntegerAt
    <2>5. EnvelopeValue = Says(Told, name)
      BY <2>1, <2>3 DEF EnvelopeValue, IntegerValue, Says, e
    <2> QED
      BY <2>3, <2>4, <2>5 DEF z, size
  <1>17. CASE index = 6
    <2>1. name = "origin"
      BY <1>17 DEF EnvelopeName
    <2>0. EnvelopeItems(e, From)[index] = EncodeHead(UnsignedInteger, e.origin)
      BY <1>17, EnvelopeItemsAre
    <2>3. /\ HeadAt(buffer, cursor, UnsignedInteger, 0..27) /\ Argument(buffer, cursor) = e.origin
          /\ AtItem(buffer, z, size, AfterSkip(buffer, cursor), index + 1)
      BY <1>4, <1>7, <1>8, <2>0
    <2>4. EnvelopeItem
      BY <2>1, <2>3 DEF EnvelopeItem, IntegerAt
    <2>5. EnvelopeValue = Says(Told, name)
      BY <2>1, <2>3 DEF EnvelopeValue, IntegerValue, Says, e
    <2> QED
      BY <2>3, <2>4, <2>5 DEF z, size
  <1>14. CASE index = 5
    <2>1. name = "expire"
      BY <1>14 DEF EnvelopeName
    <2>0. EnvelopeItems(e, From)[index] = EncodeHead(UnsignedInteger, e.expire)
      BY <1>14, EnvelopeItemsAre
    <2>2. /\ HeadAt(buffer, cursor, UnsignedInteger, 0..27) /\ Argument(buffer, cursor) = e.expire
          /\ AtItem(buffer, z, size, AfterSkip(buffer, cursor), index + 1)
      BY <1>1, <1>4, <1>6, <1>7, <1>8, <2>0
    <2>3. EnvelopeItem \/ Precedes(e.expire, Now)
      BY <2>1, <2>2 DEF EnvelopeItem, IntegerAt, IntegerValue
    <2>4. EnvelopeValue = Says(Told, name)
      BY <2>1, <2>2 DEF EnvelopeValue, IntegerValue, Says, e
    <2> QED
      BY <2>2, <2>3, <2>4 DEF z, size, e
  <1>15. CASE index = 7
    <2>1. name = "from"
      BY <1>15 DEF EnvelopeName
    <2>0. EnvelopeItems(e, From)[index] = EncodeHead(UnsignedInteger, From)
      BY <1>15, EnvelopeItemsAre
    <2>2. /\ HeadAt(buffer, cursor, UnsignedInteger, 0..27)
          /\ AtItem(buffer, z, size, AfterSkip(buffer, cursor), index + 1)
      BY <1>1, <1>4, <1>6, <1>7, <1>8, <2>0
    <2>3. EnvelopeItem
      BY <2>1, <2>2 DEF EnvelopeItem, IntegerAt
    <2> QED
      BY <2>1, <2>2, <2>3 DEF z, size
  <1>16. CASE index = 8
    <2>1. name = "nonce"
      BY <1>16 DEF EnvelopeName
    <2>2. EncodeBytes(e.nonce) = EncodeString(ByteString, e.nonce)
      BY <1>4, TextBytes
    <2>3. EnvelopeItems(e, From)[index] = EncodeString(ByteString, e.nonce)
      BY <1>16, <2>2, EnvelopeItemsAre
    <2>4. /\ HeadAt(buffer, cursor, ByteString, 0..27) /\ Skippable(buffer, cursor)
          /\ SkipLength(buffer, cursor) = DTNEX_NONCE_SIZE /\ StringValue = e.nonce
          /\ AtItem(buffer, z, size, AfterSkip(buffer, cursor), index + 1)
      BY <1>4, <1>7, <1>9, <2>3
    <2>5. EnvelopeItem
      BY <2>1, <2>4 DEF EnvelopeItem
    <2>6. EnvelopeValue = Says(Told, name)
      BY <2>1, <2>4 DEF EnvelopeValue, Says, e
    <2> QED
      BY <2>4, <2>5, <2>6 DEF z, size
  <1> QED
    BY <1>0, <1>10, <1>11, <1>12, <1>13, <1>14, <1>15, <1>16, <1>17

\* The envelope, once it is read, is the message's.
LEMMA EnvelopeIsTold ==
  ASSUME TypeInv, IsTold, HeadTold, stage \in {"data", "fields", "hmac", "handler"}
  PROVE  EnvelopeOf = Told.envelope /\ Kind = Told.envelope.kind
         /\ NonceOf = <<Told.envelope.origin, Told.envelope.nonce>>
  <1> DEFINE e == Told.envelope
  <1>1. \A j \in 1..8 : head[EnvelopeName[j]] = Says(Told, EnvelopeName[j])
    BY DEF HeadTold
  <1>2. /\ EnvelopeName[3] = "kind" /\ EnvelopeName[4] = "timestamp" /\ EnvelopeName[5] = "expire"
        /\ EnvelopeName[6] = "origin" /\ EnvelopeName[8] = "nonce"
    BY DEF EnvelopeName
  <1>3. /\ head["kind"] = Says(Told, "kind") /\ head["timestamp"] = Says(Told, "timestamp")
        /\ head["expire"] = Says(Told, "expire") /\ head["origin"] = Says(Told, "origin")
        /\ head["nonce"] = Says(Told, "nonce")
    BY <1>1, <1>2
  <1>4. /\ head["kind"] = <<e.kind>> /\ head["timestamp"] = e.timestamp
        /\ head["expire"] = e.expire /\ head["origin"] = e.origin /\ head["nonce"] = e.nonce
    BY <1>3 DEF Says
  <1>5. Kind = e.kind
    BY <1>4 DEF Kind
  <1>6. e \in Envelope
    BY ToldTypes, MessageTypes
  <1> HIDE DEF e
  <1>7. e = [kind |-> e.kind, timestamp |-> e.timestamp, expire |-> e.expire, origin |-> e.origin,
             nonce |-> e.nonce]
    BY <1>6 DEF Envelope
  <1>8. EnvelopeOf = e
    BY <1>4, <1>5, <1>7 DEF EnvelopeOf
  <1> QED
    BY <1>4, <1>5, <1>8 DEF NonceOf, e

\* The fields of a layout are the record's, by their types.
LEMMA LayoutFields ==
  ASSUME NEW m, IsMessage(m), NEW j \in 1..Len(LayoutOf(m)), NEW f, f = LayoutOf(m)[j]
  PROVE  /\ f \in Texts => /\ m.envelope.kind = MetadataType /\ m.fields[f] \in Text
                           /\ Len(m.fields[f]) <= Limit(f) - 1
         /\ f \notin Texts => m.fields[f] \in Vast
  <1> DEFINE l == LayoutOf(m)
  <1>1. /\ m.envelope.kind \in Kinds
        /\ m.envelope.kind = ContactType => m.fields \in ContactRecord
        /\ m.envelope.kind = RangeType => m.fields \in RangeRecord
        /\ m.envelope.kind = MetadataType => m.fields \in MetadataRecord
    BY MessageTypes
  <1>2. CASE m.envelope.kind = ContactType
    <2>1. l = <<"regionNbr", "fromNode", "toNode", "fromTime", "toTime", "xmitRate", "confidence">>
      BY <1>2 DEF LayoutOf
    <2>2. f \in {"regionNbr", "fromNode", "toNode", "fromTime", "toTime", "xmitRate", "confidence"}
      BY <2>1
    <2>3. f \notin Texts
      BY <2>2 DEF Texts
    <2>4. m.fields[f] \in Vast
      BY <1>1, <1>2, <2>2, ContactTypes
    <2> QED
      BY <2>3, <2>4
  <1>3. CASE m.envelope.kind = RangeType
    <2>1. l = <<"fromNode", "toNode", "fromTime", "toTime", "owlt">>
      BY <1>3, KindsDiffer DEF LayoutOf
    <2>2. f \in {"fromNode", "toNode", "fromTime", "toTime", "owlt"}
      BY <2>1
    <2>3. f \notin Texts
      BY <2>2 DEF Texts
    <2>4. m.fields[f] \in Vast
      BY <1>1, <1>3, <2>2, RangeTypes
    <2> QED
      BY <2>3, <2>4
  <1>4. CASE m.envelope.kind = MetadataType
    <2>1. f \in {"nodeId", "name", "contact", "location", "latitude", "longitude"}
      <3>1. CASE l = <<"nodeId", "name", "contact", "location", "latitude", "longitude">>
        BY <3>1
      <3>2. CASE l = <<"nodeId", "name", "contact", "location">>
        BY <3>2
      <3>3. CASE l = <<"nodeId", "name", "contact", "latitude", "longitude">>
        BY <3>3
      <3>4. CASE l = <<"nodeId", "name", "contact">>
        BY <3>4
      <3> QED
        BY <1>4, <3>1, <3>2, <3>3, <3>4, KindsDiffer DEF LayoutOf
    <2>2. /\ m.fields.nodeId \in Vast /\ m.fields.latitude \in Vast /\ m.fields.longitude \in Vast
          /\ m.fields.name \in Text /\ m.fields.contact \in Text /\ m.fields.location \in Text
          /\ \A t \in Texts : Len(m.fields[t]) <= Limit(t) - 1
      BY <1>1, <1>4, MetadataTypes
    <2>3. f \notin Texts => m.fields[f] \in Vast
      BY <2>1, <2>2 DEF Texts
    <2>4. f \in Texts => m.fields[f] \in Text
      BY <2>2 DEF Texts
    <2> QED
      BY <1>4, <2>2, <2>3, <2>4
  <1> QED
    BY <1>1, <1>2, <1>3, <1>4 DEF Kinds

LEMMA TextIsShort ==
  ASSUME NEW m, IsMessage(m), NEW j \in 1..Len(LayoutOf(m)), LayoutOf(m)[j] \in Texts
  PROVE  /\ m.fields[LayoutOf(m)[j]] \in Seq(Byte) /\ Len(m.fields[LayoutOf(m)[j]]) < 65536
         /\ Len(m.fields[LayoutOf(m)[j]]) \in Nat
  <1> DEFINE f == LayoutOf(m)[j]
  <1>1. m.fields[f] \in Text /\ Len(m.fields[f]) <= Limit(f) - 1
    BY LayoutFields
  <1>2. m.fields[f] \in Seq(Byte) /\ Len(m.fields[f]) \in Nat
    BY <1>1, TextTypes
  <1>3. Limit(f) \in Nat /\ Limit(f) < 65536
    BY Parameters DEF IsSize
  <1> HIDE DEF f
  <1>4. Len(m.fields[f]) < 65536
    BY <1>1, <1>2, <1>3
  <1> QED
    BY <1>2, <1>4 DEF f

\* The message and the cursor, at the data and behind it.
LEMMA Standing ==
  ASSUME TypeInv, IsTold, CursorTold, Reading
  PROVE  /\ HmacShape /\ buffer \in Seq(Byte) /\ authentic \in BOOLEAN /\ UnderWay
         /\ IsMessage(Told) /\ From \in Vast
         /\ AtItem(buffer, Items(Told, From, authentic), Size(Told), cursor, Place)
         /\ Size(Told) = 10 + Len(LayoutOf(Told)) /\ Len(LayoutOf(Told)) \in 3..7
         /\ Size(Told) \in Nat /\ Len(LayoutOf(Told)) \in Nat
         /\ Items(Told, From, authentic)[9] = EncodeArrayOpen(Len(LayoutOf(Told)))
         /\ \A j \in 1..Len(LayoutOf(Told)) :
              Items(Told, From, authentic)[9 + j] = FieldItem(Told, LayoutOf(Told)[j])
         /\ Items(Told, From, authentic)[Size(Told)] = EncodeBytes(HmacOf(Told, From, authentic))
         /\ Items(Told, From, authentic)[Size(Told)] \in Seq(Byte)
  <1>1. HmacShape /\ buffer \in Seq(Byte) /\ authentic \in BOOLEAN /\ UnderWay
    BY DEF TypeInv, CountersOK, Bytes, UnderWay
  <1>2. IsMessage(Told) /\ From \in Vast
    BY <1>1, ToldTypes, FromTypes
  <1>3. AtItem(buffer, Items(Told, From, authentic), Size(Told), cursor, Place)
    BY DEF CursorTold
  <1>4. /\ Size(Told) = 10 + Len(LayoutOf(Told)) /\ Len(LayoutOf(Told)) \in 3..7
        /\ Items(Told, From, authentic)[9] = EncodeArrayOpen(Len(LayoutOf(Told)))
        /\ \A j \in 1..Len(LayoutOf(Told)) :
             Items(Told, From, authentic)[9 + j] = FieldItem(Told, LayoutOf(Told)[j])
        /\ Items(Told, From, authentic)[Size(Told)] = EncodeBytes(HmacOf(Told, From, authentic))
        /\ Items(Told, From, authentic)[Size(Told)] \in Seq(Byte)
    BY <1>1, <1>2, ItemsAre
  <1>5. Size(Told) \in Nat /\ Len(LayoutOf(Told)) \in Nat
    BY <1>4
  <1> QED
    BY <1>1, <1>2, <1>3, <1>4, <1>5

\* The data array's head, and the layout that the receiver takes it for.
LEMMA OpenAsWritten ==
  ASSUME TypeInv, IsTold, stage = "data", CursorTold, HeadTold
  PROVE  /\ HeadAt(buffer, cursor, ArrayOpen, 0..23)
         /\ InfoAt(buffer, cursor) = Len(LayoutOf(Told))
         /\ Layout(InfoAt(buffer, cursor)) = LayoutOf(Told)
         /\ AtItem(buffer, Items(Told, From, authentic), Size(Told), AfterHead(buffer, cursor), 10)
         /\ NonceOf \notin seen[hop] => DataHeader
  <1> DEFINE z == Items(Told, From, authentic)
             size == Size(Told)
             l == LayoutOf(Told)
             n == Len(LayoutOf(Told))
             c == AfterHead(buffer, cursor)
             k == Told.envelope.kind
             f == Told.fields
  <1>0. Reading
    BY DEF Reading
  <1>1. /\ buffer \in Seq(Byte) /\ IsMessage(Told)
        /\ AtItem(buffer, z, size, cursor, 9) /\ size = 10 + n /\ n \in 3..7 /\ size \in Nat
        /\ z[9] = EncodeArrayOpen(n) /\ \A j \in 1..n : z[9 + j] = FieldItem(Told, l[j])
    BY <1>0, Standing DEF Place
  <1>2. Small(n) \in Vast /\ Info(Small(n)) = n
    <2>1. n \in 0..23
      BY <1>1
    <2> QED
      BY <2>1, ArrayBytes
  <1>3. Kind = k /\ k \in Kinds
    BY <1>1, EnvelopeIsTold, MessageTypes
  <1>4. IsMessage(Told)
    BY <1>1
  <1> HIDE DEF z, size, n, k
  <1>5. /\ HeadAt(buffer, cursor, ArrayOpen, 0..27) /\ InfoAt(buffer, cursor) = n
        /\ AtItem(buffer, z, size, c, 10)
    <2>1. /\ 9 \in 1..size /\ ArrayOpen \in {UnsignedInteger, ArrayOpen} /\ 9 + 1 = 10
          /\ z[9] = EncodeHead(ArrayOpen, Small(n))
      BY <1>1 DEF EncodeArrayOpen
    <2>2. /\ HeadAt(buffer, cursor, ArrayOpen, 0..27) /\ InfoAt(buffer, cursor) = Info(Small(n))
          /\ AtItem(buffer, z, size, AfterHead(buffer, cursor), 9 + 1)
      BY <1>1, <1>2, <2>1, HeadItem
    <2> QED
      BY <1>2, <2>1, <2>2
  <1>6. HeadAt(buffer, cursor, ArrayOpen, 0..23)
    <2>1. n \in 0..23
      BY <1>1
    <2> QED
      BY <1>5, <2>1 DEF HeadAt
  <1>7. l[1] = "nodeId" /\ n >= 1 => IntegerAt(buffer, c)
    <2> SUFFICES ASSUME l[1] = "nodeId" PROVE IntegerAt(buffer, c)
      OBVIOUS
    <2>1. /\ 1 \in 1..n /\ 9 + 1 = 10 /\ 10 \in 1..size
          /\ UnsignedInteger \in {UnsignedInteger, ArrayOpen}
      BY <1>1
    <2>2. f["nodeId"] \in Vast
      <3>1. l[1] \notin Texts
        BY DEF Texts
      <3> QED
        BY <1>4, <2>1, <3>1, LayoutFields DEF n
    <2>3. z[10] = EncodeHead(UnsignedInteger, f["nodeId"])
      <3>1. z[9 + 1] = FieldItem(Told, l[1])
        BY <1>1, <2>1
      <3>2. FieldItem(Told, l[1]) = EncodeHead(UnsignedInteger, f["nodeId"])
        BY DEF FieldItem, Texts, EncodeInteger
      <3> QED
        BY <2>1, <3>1, <3>2
    <2> QED
      BY <1>1, <1>5, <2>1, <2>2, <2>3, HeadItem DEF IntegerAt
  <1>8. /\ Layout(n) = l /\ (k = ContactType => n = 7) /\ (k = RangeType => n = 5)
    <2>1. CASE k = ContactType
      <3>1. l = <<"regionNbr", "fromNode", "toNode", "fromTime", "toTime", "xmitRate", "confidence">>
        BY <2>1 DEF LayoutOf, k
      <3>2. n = 7
        BY <3>1 DEF n
      <3> QED
        BY <1>3, <2>1, <3>1, <3>2, KindsDiffer DEF Layout
    <2>2. CASE k = RangeType
      <3>1. l = <<"fromNode", "toNode", "fromTime", "toTime", "owlt">>
        BY <2>2, KindsDiffer DEF LayoutOf, k
      <3>2. n = 5
        BY <3>1 DEF n
      <3> QED
        BY <1>3, <2>2, <3>1, <3>2, KindsDiffer DEF Layout
    <2>3. CASE k = MetadataType
      <3>1. CASE HasLocation(f) /\ HasGPS(f)
        <4>1. l = <<"nodeId", "name", "contact", "location", "latitude", "longitude">>
          BY <2>3, <3>1, KindsDiffer DEF LayoutOf, k
        <4>2. n = 6
          BY <4>1 DEF n
        <4> QED
          BY <1>3, <2>3, <4>1, <4>2, KindsDiffer DEF Layout
      <3>2. CASE HasLocation(f) /\ ~HasGPS(f)
        <4>1. l = <<"nodeId", "name", "contact", "location">>
          BY <2>3, <3>2, KindsDiffer DEF LayoutOf, k
        <4>2. n = 4 /\ l[1] = "nodeId"
          BY <4>1 DEF n
        <4>3. IntegerAt(buffer, c)
          BY <1>7, <4>2
        <4> QED
          BY <1>3, <2>3, <4>1, <4>2, <4>3, KindsDiffer DEF Layout
      <3>3. CASE ~HasLocation(f) /\ HasGPS(f)
        <4>1. l = <<"nodeId", "name", "contact", "latitude", "longitude">>
          BY <2>3, <3>3, KindsDiffer DEF LayoutOf, k
        <4>2. n = 5
          BY <4>1 DEF n
        <4> QED
          BY <1>3, <2>3, <4>1, <4>2, KindsDiffer DEF Layout
      <3>4. CASE ~HasLocation(f) /\ ~HasGPS(f)
        <4>1. l = <<"nodeId", "name", "contact">>
          BY <2>3, <3>4, KindsDiffer DEF LayoutOf, k
        <4>2. n = 3
          BY <4>1 DEF n
        <4> QED
          BY <1>3, <2>3, <4>1, <4>2, KindsDiffer DEF Layout
      <3> QED
        BY <2>3, <3>1, <3>2, <3>3, <3>4, KindsDiffer
    <2> QED
      BY <1>3, <2>1, <2>2, <2>3 DEF Kinds
  <1>9. NonceOf \notin seen[hop] => DataHeader
    <2>1. CASE k = ContactType
      BY <1>3, <1>5, <1>6, <1>8, <2>1, KindsDiffer DEF DataHeader
    <2>2. CASE k = RangeType
      BY <1>3, <1>5, <1>6, <1>8, <2>2, KindsDiffer DEF DataHeader
    <2>3. CASE k = MetadataType
      BY <1>3, <1>6, <2>3, KindsDiffer DEF DataHeader
    <2> QED
      BY <1>3, <2>1, <2>2, <2>3 DEF Kinds
  <1> QED
    BY <1>5, <1>6, <1>8, <1>9 DEF z, size, n

\* A field is skipped as it was written, and read unless it has no room.
LEMMA FieldAsWritten ==
  ASSUME TypeInv, DecoderInv, IsTold, stage = "fields", CursorTold, FieldsTold
  PROVE  /\ Skippable(buffer, cursor)
         /\ AtItem(buffer, Items(Told, From, authentic), Size(Told), AfterSkip(buffer, cursor),
                   10 + index)
         /\ extracting /\ FieldAt(layout[index]) =>
              FieldValue(layout[index]) = Told.fields[layout[index]]
         /\ extracting /\ ~FieldAt(layout[index]) => TooLong(Told)
  <1> DEFINE z == Items(Told, From, authentic)
             size == Size(Told)
             l == LayoutOf(Told)
             n == Len(LayoutOf(Told))
             f == LayoutOf(Told)[index]
             v == Told.fields[f]
             m == Told
  <1>0. Reading
    BY DEF Reading
  <1>1. /\ buffer \in Seq(Byte) /\ IsMessage(m)
        /\ AtItem(buffer, z, size, cursor, 9 + index) /\ size = 10 + n /\ n \in 3..7 /\ size \in Nat
        /\ \A j \in 1..n : z[9 + j] = FieldItem(m, l[j])
    BY <1>0, Standing DEF Place
  <1>2. layout = l /\ head["size"] = n
    BY DEF FieldsTold
  <1>3. index \in 1..n /\ (extracting => extraction = cursor)
    BY <1>2 DEF TypeInv, DecodingOK, DecoderInv, WalksAgree
  <1>4. layout[index] = f
    BY <1>2
  <1>5. /\ f \in Texts => m.envelope.kind = MetadataType /\ Len(v) <= Limit(f) - 1
                          /\ v \in Seq(Byte) /\ Len(v) < 65536 /\ Len(v) \in Nat
        /\ f \notin Texts => v \in Vast
    <2>1. IsMessage(m) /\ index \in 1..Len(LayoutOf(m)) /\ f = LayoutOf(m)[index]
      BY <1>1, <1>3
    <2> HIDE DEF m, f, l, n, size, z
    <2>2. /\ f \in Texts => m.envelope.kind = MetadataType /\ Len(v) <= Limit(f) - 1
          /\ f \notin Texts => v \in Vast
      BY <2>1, LayoutFields DEF m
    <2>3. f \in Texts => v \in Seq(Byte) /\ Len(v) < 65536 /\ Len(v) \in Nat
      <3> SUFFICES ASSUME f \in Texts PROVE v \in Seq(Byte) /\ Len(v) < 65536 /\ Len(v) \in Nat
        OBVIOUS
      <3>1. LayoutOf(m)[index] \in Texts
        BY <2>1
      <3>2. /\ m.fields[LayoutOf(m)[index]] \in Seq(Byte)
            /\ Len(m.fields[LayoutOf(m)[index]]) < 65536
            /\ Len(m.fields[LayoutOf(m)[index]]) \in Nat
        BY <2>1, <3>1, TextIsShort
      <3>3. v = m.fields[LayoutOf(m)[index]]
        BY <2>1 DEF v, m
      <3> QED
        BY <3>2, <3>3
    <2> QED
      BY <2>2, <2>3
  <1>6. z[9 + index] = FieldItem(m, f)
    BY <1>1, <1>3
  <1>7. FieldItem(m, f) = IF f \in Texts THEN EncodeText(v) ELSE EncodeInteger(v)
    BY DEF FieldItem
  <1> HIDE DEF z, size, l, n, f, v, m
  <1>8. 9 + index \in 1..size /\ 9 + index + 1 = 10 + index
        /\ UnsignedInteger \in {UnsignedInteger, ArrayOpen}
    BY <1>1, <1>3
  <1>9. CASE f \in Texts
    <2>1. z[9 + index] = EncodeText(v) /\ v \in Seq(Byte) /\ Len(v) < 65536 /\ Len(v) \in Nat
      BY <1>5, <1>6, <1>7, <1>9
    <2>2. /\ \A max \in Int : TextAt(buffer, cursor, max) <=> Len(v) <= max - 1
          /\ TextValue(buffer, cursor) = v /\ Skippable(buffer, cursor)
          /\ AtItem(buffer, z, size, AfterSkip(buffer, cursor), 9 + index + 1)
      BY <1>1, <1>8, <2>1, TextItem
    <2>3. Limit(f) \in Nat /\ Limit(f) - 1 \in Int
      BY Parameters DEF IsSize
    <2>4. extracting => /\ FieldAt(f) <=> Len(v) <= Limit(f) - 1 - 1
                        /\ FieldValue(f) = v
      BY <1>3, <1>9, <2>2, <2>3 DEF FieldAt, FieldValue
    <2>5. extracting /\ ~FieldAt(f) => TooLong(m)
      <3> SUFFICES ASSUME extracting, ~FieldAt(f) PROVE TooLong(m)
        OBVIOUS
      <3>1. ~(Len(v) <= Limit(f) - 1 - 1)
        BY <2>4
      <3>2. Len(v) = Limit(f) - 1
        BY <1>5, <1>9, <2>1, <2>3, <3>1
      <3> QED
        BY <1>5, <1>9, <3>2 DEF TooLong, v, m
    <2> QED
      BY <1>4, <1>8, <2>2, <2>4, <2>5 DEF z, size, v, m
  <1>10. CASE f \notin Texts
    <2>1. z[9 + index] = EncodeHead(UnsignedInteger, v) /\ v \in Vast
      BY <1>5, <1>6, <1>7, <1>10 DEF EncodeInteger
    <2>2. /\ HeadAt(buffer, cursor, UnsignedInteger, 0..27) /\ Argument(buffer, cursor) = v
          /\ Skippable(buffer, cursor) /\ AfterSkip(buffer, cursor) = AfterHead(buffer, cursor)
          /\ AtItem(buffer, z, size, AfterHead(buffer, cursor), 9 + index + 1)
      BY <1>1, <1>8, <2>1, HeadItem
    <2>3. extracting => FieldAt(f) /\ FieldValue(f) = v
      BY <1>3, <1>10, <2>2 DEF FieldAt, FieldValue, IntegerAt, IntegerValue
    <2> QED
      BY <1>4, <1>8, <2>2, <2>3 DEF z, size, v, m
  <1> QED
    BY <1>9, <1>10

\* The HMAC is where the sender has put it, behind the bytes it was computed over.
LEMMA HmacAsWritten ==
  ASSUME TypeInv, IsTold, stage = "hmac", BufferTold, CursorTold
  PROVE  /\ HmacItem
         /\ SubSeq(buffer, cursor.at + 1, cursor.at + DTNEX_HMAC_SIZE)
              = HmacOf(Told, From, authentic)
         /\ SubSeq(buffer, 1, cursor.at - 1)
              = writeCborEnvelope(Told.envelope, From) \o Payload(Told.envelope.kind, Told.fields)
  <1> DEFINE z == Items(Told, From, authentic)
             size == Size(Told)
             h == HmacOf(Told, From, authentic)
             t == EncodeBytes(h)
             x == writeCborEnvelope(Told.envelope, From) \o Payload(Told.envelope.kind, Told.fields)
             width == DTNEX_HMAC_SIZE
  <1>0. Reading
    BY DEF Reading
  <1>1. /\ HmacShape /\ buffer \in Seq(Byte) /\ authentic \in BOOLEAN /\ IsMessage(Told) /\ From \in Vast
        /\ AtItem(buffer, z, size, cursor, size) /\ size \in Nat /\ z[size] = t /\ z[size] \in Seq(Byte)
        /\ UnderWay /\ size >= 1
    BY <1>0, Standing DEF Place
  <1>2. h \in Seq(Byte) /\ Len(h) = width /\ x \in Seq(Byte) /\ t \in Seq(Byte)
    BY <1>1, HmacTypes DEF Bytes
  <1>3. width \in 0..23 /\ Len(h) < 65536
    BY <1>2, Parameters DEF IsSize
  <1>4. buffer = x \o t
    <2>1. buffer = Encode(Told.envelope, Told.fields, From, authentic)
      BY <1>1 DEF BufferTold
    <2> QED
      BY <1>1, <2>1, MessageSpelt, HmacTypes
  <1> HIDE DEF h
  <1>5. t = EncodeString(ByteString, h) /\ Info(Small(width)) = width
    <2>1. h \in Seq(Byte) /\ Len(h) < 65536
      BY <1>2, <1>3
    <2>2. t = EncodeString(ByteString, h)
      BY <2>1, TextBytes
    <2>3. width \in 0..23
      BY <1>3
    <2> HIDE DEF width
    <2>4. Info(Small(width)) = width
      BY <2>3, ArrayBytes
    <2> QED
      BY <2>2, <2>4
  <1> HIDE DEF z, size, t, x, width
  <1>6. cursor.left = Len(t) /\ InBuffer(buffer, cursor)
    BY <1>1, LastItem DEF AtItem
  <1>7. /\ HeadAt(buffer, cursor, ByteString, 0..25) /\ InfoAt(buffer, cursor) = width
        /\ AfterHead(buffer, cursor).left >= width
        /\ \A i \in 1..width : buffer[AfterHead(buffer, cursor).at + i - 1] = h[i]
    <2>1. /\ ByteString \in {ByteString, TextString} /\ size \in 1..size /\ size \in Nat
          /\ z[size] = EncodeString(ByteString, h) /\ AtItem(buffer, z, size, cursor, size)
          /\ h \in Seq(Byte) /\ Len(h) < 65536 /\ buffer \in Seq(Byte)
      BY <1>1, <1>2, <1>3, <1>5
    <2>2. /\ HeadAt(buffer, cursor, ByteString, 0..25)
          /\ InfoAt(buffer, cursor) = Info(Small(Len(h)))
          /\ AfterHead(buffer, cursor).left >= Len(h)
          /\ \A i \in 1..Len(h) : buffer[AfterHead(buffer, cursor).at + i - 1] = h[i]
      BY <2>1, StringItem
    <2> QED
      BY <1>2, <1>5, <2>2
  <1>8. /\ AfterHead(buffer, cursor).at = cursor.at + 1
        /\ AfterHead(buffer, cursor).left = cursor.left - 1
    <2>1. Follows(InfoAt(buffer, cursor)) = 0
      <3>1. width # 24 /\ width # 25 /\ width # 26 /\ width # 27
        BY <1>3
      <3> QED
        BY <1>7, <3>1, Zenon DEF Follows
    <2>2. AfterHead(buffer, cursor) = [at |-> cursor.at + (1 + 0), left |-> cursor.left - (1 + 0)]
      BY <2>1 DEF AfterHead, Advance
    <2>3. cursor.at \in Nat /\ cursor.left \in Nat
      BY <1>6 DEF InBuffer
    <2> QED
      BY <2>2, <2>3
  <1>9. HmacItem
    BY <1>7 DEF HmacItem, HeadAt, width
  <1>10. /\ cursor.at \in Nat /\ cursor.at >= 1 /\ cursor.left \in Nat
         /\ cursor.at + cursor.left = Len(buffer) + 1 /\ width \in Nat /\ Len(buffer) \in Nat
    <2>1. buffer \in Seq(Byte)
      BY <1>1 DEF TypeInv, Bytes
    <2>2. Len(buffer) \in Nat
      BY <2>1
    <2>3. width \in Nat
      BY <1>3
    <2> QED
      BY <1>6, <2>2, <2>3 DEF InBuffer
  <1>11. SubSeq(buffer, cursor.at + 1, cursor.at + width) = h
    <2>1. width <= cursor.left - 1
      BY <1>7, <1>8, <1>10
    <2>2. cursor.at + width <= Len(buffer)
      BY <1>10, <2>1
    <2> DEFINE a == cursor.at
               s == SubSeq(buffer, a + 1, a + width)
    <2>3. \A i \in 1..width : buffer[a + i] = h[i]
      <3> SUFFICES ASSUME NEW i \in 1..width PROVE buffer[a + i] = h[i]
        OBVIOUS
      <3>1. (a + 1) + i - 1 = a + i
        BY <1>3, <1>10
      <3> QED
        BY <1>7, <1>8, <3>1
    <2>4. a \in Nat /\ a >= 1 /\ a + width <= Len(buffer)
      BY <1>10, <2>2
    <2> HIDE DEF a
    <2>5. s \in Seq(Byte) /\ Len(s) = width /\ \A i \in 1..width : s[i] = buffer[a + i]
      BY <1>1, <1>10, <2>4
    <2> HIDE DEF s
    <2>6. s = h
      BY <1>2, <2>3, <2>5
    <2> QED
      BY <2>6 DEF s, a
  <1>12. SubSeq(buffer, 1, cursor.at - 1) = x
    <2>1. Len(buffer) = Len(x) + Len(t) /\ Len(x) \in Nat /\ Len(t) \in Nat
      BY <1>2, <1>4
    <2>2. cursor.at - 1 = Len(x)
      BY <1>6, <1>10, <2>1
    <2>3. SubSeq(x \o t, 1, Len(x)) = x
      BY <1>2, <2>1
    <2> QED
      BY <1>4, <2>2, <2>3
  <1> QED
    BY <1>9, <1>11, <1>12 DEF h, x, width

\* A whole extraction holds the fields of the message.
LEMMA ExtractedFields ==
  ASSUME TypeInv, IsTold, stage = "handler", FieldsTold
  PROVE  /\ ValuesOK /\ extracting /\ index = head["size"] + 1 /\ HeadHas(8)
         /\ layout = LayoutOf(Told)
         /\ DOMAIN values = {LayoutOf(Told)[j] : j \in 1..Len(LayoutOf(Told))}
         /\ \A f \in DOMAIN values : values[f] = Told.fields[f]
  <1>1. /\ ValuesOK /\ extracting /\ index = head["size"] + 1 /\ HeadHas(8)
        /\ head["size"] \in 0..23
    BY DEF TypeInv, DecodingOK
  <1>2. /\ layout = LayoutOf(Told) /\ head["size"] = Len(layout)
        /\ \A j \in 1..(index - 1) : values[layout[j]] = Told.fields[layout[j]]
    BY <1>1 DEF FieldsTold
  <1>3. DOMAIN values = {layout[j] : j \in 1..Len(layout)}
    BY <1>1, ValueTypes
  <1>4. \A j \in 1..Len(layout) : values[layout[j]] = Told.fields[layout[j]]
    <2>1. index - 1 = Len(layout)
      BY <1>1, <1>2
    <2> QED
      BY <1>2, <2>1
  <1> QED
    BY <1>1, <1>2, <1>3, <1>4

LEMMA ContactIsTold ==
  ASSUME TypeInv, IsTold, stage = "handler", HeadTold, FieldsTold,
         Told.envelope.kind = ContactType
  PROVE  Decoded = Told.fields
  <1> DEFINE f == Told.fields
  <1>1. Kind = ContactType
    BY EnvelopeIsTold
  <1>2. /\ ValuesOK /\ extracting /\ index = head["size"] + 1
        /\ \A x \in DOMAIN values : values[x] = f[x]
    BY ExtractedFields
  <1>3. f \in ContactRecord
    BY ToldTypes, MessageTypes
  <1>4. values \in ContactFields
        /\ Decoded = [values EXCEPT !["regionNbr"] = UInt32(@), !["confidence"] = UInt32(@)]
    BY <1>1, <1>2, ContactDecoded
  <1> HIDE DEF f
  <1>5. f \in ContactFields /\ UInt32(f.regionNbr) = f.regionNbr
        /\ UInt32(f.confidence) = f.confidence
    BY <1>3, ContactTypes
  <1>6. values = f
    BY <1>2, <1>4, <1>5 DEF ContactFields
  <1>7. [f EXCEPT !["regionNbr"] = UInt32(@), !["confidence"] = UInt32(@)] = f
    BY <1>5 DEF ContactFields
  <1> QED
    BY <1>4, <1>6, <1>7 DEF f

LEMMA RangeIsTold ==
  ASSUME TypeInv, IsTold, stage = "handler", HeadTold, FieldsTold,
         Told.envelope.kind = RangeType
  PROVE  Decoded = Told.fields
  <1> DEFINE f == Told.fields
  <1>1. Kind = RangeType
    BY EnvelopeIsTold
  <1>2. /\ ValuesOK /\ extracting /\ index = head["size"] + 1
        /\ \A x \in DOMAIN values : values[x] = f[x]
    BY ExtractedFields
  <1>3. f \in RangeRecord
    BY ToldTypes, MessageTypes
  <1>4. values \in RangeFields /\ Decoded = [values EXCEPT !["owlt"] = UInt32(@)]
    BY <1>1, <1>2, RangeDecoded
  <1> HIDE DEF f
  <1>5. f \in RangeFields /\ UInt32(f.owlt) = f.owlt
    BY <1>3, RangeTypes
  <1>6. values = f
    BY <1>2, <1>4, <1>5 DEF RangeFields
  <1>7. [f EXCEPT !["owlt"] = UInt32(@)] = f
    BY <1>5 DEF RangeFields
  <1> QED
    BY <1>4, <1>6, <1>7 DEF f

\* The fields that a metadata message has.
NamesOf(m) == {LayoutOf(m)[j] : j \in 1..Len(LayoutOf(m))}

LEMMA MetadataNames ==
  ASSUME NEW m, m.envelope.kind = MetadataType
  PROVE  /\ "nodeId" \in NamesOf(m) /\ "name" \in NamesOf(m) /\ "contact" \in NamesOf(m)
         /\ "location" \in NamesOf(m) <=> HasLocation(m.fields)
         /\ "latitude" \in NamesOf(m) <=> HasGPS(m.fields)
         /\ "longitude" \in NamesOf(m) <=> HasGPS(m.fields)
  <1> DEFINE l == LayoutOf(m)
             names == {l[j] : j \in 1..Len(l)}
             f == m.fields
  <1>1. CASE HasLocation(f) /\ HasGPS(f)
    <2>1. l = <<"nodeId", "name", "contact", "location", "latitude", "longitude">>
      BY <1>1, KindsDiffer DEF LayoutOf
    <2>2. names = {"nodeId", "name", "contact", "location", "latitude", "longitude"}
      BY <2>1
    <2> HIDE DEF names, NamesOf
    <2>3. /\ "nodeId" \in names /\ "name" \in names /\ "contact" \in names
          /\ "location" \in names /\ "latitude" \in names /\ "longitude" \in names
      BY <2>2
    <2> QED
      BY <1>1, <2>3 DEF names, NamesOf
  <1>2. CASE HasLocation(f) /\ ~HasGPS(f)
    <2>1. l = <<"nodeId", "name", "contact", "location">>
      BY <1>2, KindsDiffer DEF LayoutOf
    <2>2. names = {"nodeId", "name", "contact", "location"}
      BY <2>1
    <2> HIDE DEF names, NamesOf
    <2>3. /\ "nodeId" \in names /\ "name" \in names /\ "contact" \in names
          /\ "location" \in names /\ "latitude" \notin names /\ "longitude" \notin names
      BY <2>2
    <2> QED
      BY <1>2, <2>3 DEF names, NamesOf
  <1>3. CASE ~HasLocation(f) /\ HasGPS(f)
    <2>1. l = <<"nodeId", "name", "contact", "latitude", "longitude">>
      BY <1>3, KindsDiffer DEF LayoutOf
    <2>2. names = {"nodeId", "name", "contact", "latitude", "longitude"}
      BY <2>1
    <2> HIDE DEF names, NamesOf
    <2>3. /\ "nodeId" \in names /\ "name" \in names /\ "contact" \in names
          /\ "location" \notin names /\ "latitude" \in names /\ "longitude" \in names
      BY <2>2
    <2> QED
      BY <1>3, <2>3 DEF names, NamesOf
  <1>4. CASE ~HasLocation(f) /\ ~HasGPS(f)
    <2>1. l = <<"nodeId", "name", "contact">>
      BY <1>4, KindsDiffer DEF LayoutOf
    <2>2. names = {"nodeId", "name", "contact"}
      BY <2>1
    <2> HIDE DEF names, NamesOf
    <2>3. /\ "nodeId" \in names /\ "name" \in names /\ "contact" \in names
          /\ "location" \notin names /\ "latitude" \notin names /\ "longitude" \notin names
      BY <2>2
    <2> QED
      BY <1>4, <2>3 DEF names, NamesOf
  <1> QED
    BY <1>1, <1>2, <1>3, <1>4

LEMMA MetadataIsTold ==
  ASSUME TypeInv, IsTold, stage = "handler", HeadTold, FieldsTold,
         Told.envelope.kind = MetadataType
  PROVE  Decoded = PassedFields(Told)
  <1> DEFINE f == Told.fields
             names == NamesOf(Told)
  <1>1. Kind = MetadataType
    BY EnvelopeIsTold
  <1>2. /\ ValuesOK /\ extracting /\ index = head["size"] + 1 /\ HeadHas(8)
        /\ DOMAIN values = names /\ \A x \in DOMAIN values : values[x] = f[x]
    BY ExtractedFields DEF NamesOf
  <1>3. f \in MetadataRecord
    BY ToldTypes, MessageTypes
  <1>4. Decoded = [nodeId |-> Value("nodeId", head["origin"]), name |-> CString(values["name"]),
                   contact |-> CString(values["contact"]),
                   location |-> CString(Value("location", <<>>)),
                   latitude |-> Int32(Value("latitude", Zero)),
                   longitude |-> Int32(Value("longitude", Zero))]
    BY <1>1, <1>2, MetadataDecoded
  <1>5. /\ "nodeId" \in names /\ "name" \in names /\ "contact" \in names
        /\ "location" \in names <=> HasLocation(f)
        /\ "latitude" \in names <=> HasGPS(f)
        /\ "longitude" \in names <=> HasGPS(f)
    BY MetadataNames
  <1>6. /\ f.name \in Text /\ f.contact \in Text /\ f.location \in Text
        /\ f.name \in Seq(Byte) /\ f.contact \in Seq(Byte) /\ f.location \in Seq(Byte)
        /\ Int32(f.latitude) = f.latitude /\ Int32(f.longitude) = f.longitude
        /\ f \in MetadataFields
    BY <1>3, MetadataTypes
  <1>7. Int32(Zero) = Zero
    BY ZeroTypes DEF Degrees
  <1>11. PassedFields(Told) = IF ~HasGPS(f)
                              THEN [f EXCEPT !.latitude = Zero, !.longitude = Zero] ELSE f
    BY <1>1 DEF PassedFields
  <1> HIDE DEF f, names
  <1>8. /\ Value("nodeId", head["origin"]) = f.nodeId
        /\ values["name"] = f.name /\ values["contact"] = f.contact
        /\ Value("location", <<>>) = f.location
        /\ Value("latitude", Zero) = IF HasGPS(f) THEN f.latitude ELSE Zero
        /\ Value("longitude", Zero) = IF HasGPS(f) THEN f.longitude ELSE Zero
    <2>1. "nodeId" \in DOMAIN values /\ "name" \in DOMAIN values /\ "contact" \in DOMAIN values
      BY <1>2, <1>5
    <2>2. /\ Value("nodeId", head["origin"]) = f.nodeId
          /\ values["name"] = f.name /\ values["contact"] = f.contact
      BY <1>2, <2>1 DEF Value
    <2>3. Value("location", <<>>) = f.location
      BY <1>2, <1>5 DEF Value, HasLocation
    <2>4. Value("latitude", Zero) = IF HasGPS(f) THEN f.latitude ELSE Zero
      BY <1>2, <1>5 DEF Value
    <2>5. Value("longitude", Zero) = IF HasGPS(f) THEN f.longitude ELSE Zero
      BY <1>2, <1>5 DEF Value
    <2> QED
      BY <2>2, <2>3, <2>4, <2>5
  <1>9. /\ CString(f.name) = f.name /\ CString(f.contact) = f.contact
        /\ CString(f.location) = f.location
    BY <1>6, CStringTypes
  <1>10. Decoded = [nodeId |-> f.nodeId, name |-> f.name, contact |-> f.contact,
                    location |-> f.location,
                    latitude |-> IF HasGPS(f) THEN f.latitude ELSE Zero,
                    longitude |-> IF HasGPS(f) THEN f.longitude ELSE Zero]
    BY <1>4, <1>6, <1>7, <1>8, <1>9
  <1>12. f = [nodeId |-> f.nodeId, name |-> f.name, contact |-> f.contact,
              location |-> f.location, latitude |-> f.latitude, longitude |-> f.longitude]
    BY <1>6 DEF MetadataFields
  <1>13. CASE HasGPS(f)
    BY <1>10, <1>11, <1>12, <1>13
  <1>14. CASE ~HasGPS(f)
    <2>1. [f EXCEPT !.latitude = Zero, !.longitude = Zero]
            = [nodeId |-> f.nodeId, name |-> f.name, contact |-> f.contact,
               location |-> f.location, latitude |-> Zero, longitude |-> Zero]
      <3> DEFINE g == [f EXCEPT !.latitude = Zero, !.longitude = Zero]
      <3>1. /\ g \in MetadataFields /\ g.nodeId = f.nodeId /\ g.name = f.name
            /\ g.contact = f.contact /\ g.location = f.location
            /\ g.latitude = Zero /\ g.longitude = Zero
        BY <1>6, ZeroTypes DEF MetadataFields
      <3> HIDE DEF g
      <3>2. g = [nodeId |-> g.nodeId, name |-> g.name, contact |-> g.contact,
                 location |-> g.location, latitude |-> g.latitude, longitude |-> g.longitude]
        BY <3>1 DEF MetadataFields
      <3> QED
        BY <3>1, <3>2 DEF g
    <2> QED
      BY <1>10, <1>11, <1>14, <2>1
  <1> QED
    BY <1>13, <1>14

\* The handler gets the record that was sent, as far as a hop passes it.
LEMMA DecodedIsTold ==
  ASSUME TypeInv, IsTold, stage = "handler", HeadTold, FieldsTold
  PROVE  [envelope |-> EnvelopeOf, fields |-> Decoded] = Passed(Told)
  <1>1. EnvelopeOf = Told.envelope
    BY EnvelopeIsTold
  <1>2. Told.envelope.kind \in Kinds
    BY ToldTypes, MessageTypes
  <1>3. Told.envelope.kind # MetadataType => PassedFields(Told) = Told.fields
    BY DEF PassedFields
  <1>4. Decoded = PassedFields(Told)
    BY <1>2, <1>3, ContactIsTold, RangeIsTold, MetadataIsTold, KindsDiffer DEF Kinds
  <1> QED
    BY <1>1, <1>4 DEF Passed

-----------------------------------------------------------------------------
(* What a message says stays what it was, step by step.                    *)

LEMMA ToldStands ==
  ASSUME UNCHANGED <<sent, applied>>
  PROVE  (IsTold' <=> IsTold) /\ Told' = Told
  BY DEF IsTold, Told

LEMMA AppliedStands ==
  ASSUME AppliedTold, UNCHANGED <<sent, applied>>
  PROVE  AppliedTold'
  BY DEF AppliedTold

\* The sender is the same node until the message is handled.
LEMMA FromStands ==
  /\ UNCHANGED hop /\ stage \in {"encoded", "flying"} /\ stage' \in {"encoded", "flying"}
       => From' = From
  /\ UNCHANGED hop /\ stage \notin {"encoded", "flying"} /\ stage' \notin {"encoded", "flying"}
       => From' = From
  BY DEF From

\* Nobody decodes, or the message is not one of the chain's.
LEMMA NoDecoding ==
  ASSUME stage' \notin {"envelope", "data", "fields", "hmac", "handler"} \/ ~IsTold'
  PROVE  CursorTold' /\ HeadTold' /\ FieldsTold'
  BY DEF CursorTold, HeadTold, FieldsTold, Reading

LEMMA InitTold == Init => ToldInv
  <1> SUFFICES ASSUME Init PROVE ToldInv
    OBVIOUS
  <1>1. stage = "idle" /\ applied = <<>>
    BY DEF Init
  <1>2. Len(applied) = 0
    BY <1>1
  <1>3. BufferTold /\ CursorTold /\ HeadTold /\ FieldsTold
    BY <1>1 DEF BufferTold, CursorTold, HeadTold, FieldsTold, UnderWay, Reading
  <1>4. AppliedTold
    BY <1>1, <1>2 DEF AppliedTold
  <1> QED
    BY <1>3, <1>4 DEF ToldInv

LEMMA AnnounceTold == TypeInv /\ Announce => ToldInv'
  <1> SUFFICES ASSUME TypeInv, Announce PROVE ToldInv'
    OBVIOUS
  <1>1. PICK a \in (IF bundles = 0 THEN Announced ELSE Later), n \in Nonce, computed \in BOOLEAN :
          LET e == [kind |-> a.kind, timestamp |-> Now, expire |-> ExpireOf(a),
                    origin |-> Chain[1], nonce |-> n]
          IN /\ Encoded(Encode(e, FieldsOf(a), Chain[1], computed), computed)
             /\ sent' = [envelope |-> e, announced |-> a]
    BY DEF Announce
  <1> DEFINE e == [kind |-> a.kind, timestamp |-> Now, expire |-> ExpireOf(a),
                   origin |-> Chain[1], nonce |-> n]
  <1>2. /\ buffer' = Encode(e, FieldsOf(a), Chain[1], computed) /\ authentic' = computed
        /\ stage' \in {"encoded", "dead"}
    BY <1>1 DEF Encoded
  <1>3. hop' = 1 /\ applied' = <<>>
    BY DEF Announce
  <1>4. sent' = [envelope |-> e, announced |-> a]
    BY <1>1
  <1> HIDE DEF e
  <1>5. IsTold' /\ Told' = [envelope |-> e, fields |-> FieldsOf(a)]
    BY <1>3, <1>4, NothingIsNoMessage DEF IsTold, Told
  <1>6. BufferTold'
    <2>1. UnderWay' => stage' = "encoded"
      BY <1>2 DEF UnderWay, Reading
    <2>2. stage' = "encoded" => From' = Chain[1]
      BY <1>3 DEF From
    <2> QED
      BY <1>2, <1>5, <2>1, <2>2 DEF BufferTold
  <1>7. AppliedTold'
    <2>1. Len(applied') = 0
      BY <1>3
    <2> QED
      BY <1>3, <2>1 DEF AppliedTold
  <1> QED
    BY <1>2, <1>6, <1>7, NoDecoding DEF ToldInv

LEMMA TransportTold ==
  TypeInv /\ ToldInv /\ (sendCborBundle \/ StrayArrives \/ Refuse) => ToldInv'
  <1> SUFFICES ASSUME TypeInv, ToldInv, sendCborBundle \/ StrayArrives \/ Refuse PROVE ToldInv'
    OBVIOUS
  <1>1. CASE sendCborBundle
    <2>1. /\ UNCHANGED <<buffer, hop, authentic>> /\ UNCHANGED <<sent, applied>>
          /\ stage = "encoded" /\ stage' \in {"flying", "idle"}
      BY <1>1 DEF sendCborBundle, histories
    <2>2. stage' = "flying" => From' = From
      BY <2>1, FromStands
    <2>3. UnderWay /\ (UnderWay' => stage' = "flying")
      BY <2>1 DEF UnderWay, Reading
    <2>4. BufferTold'
      BY <2>1, <2>2, <2>3, ToldStands DEF ToldInv, BufferTold
    <2>5. AppliedTold'
      BY <2>1, AppliedStands DEF ToldInv
    <2> QED
      BY <2>1, <2>4, <2>5, NoDecoding DEF ToldInv
  <1>2. CASE StrayArrives
    <2>1. PICK s \in Stray : buffer' = s.bytes /\ authentic' = s.signed
      BY <1>2 DEF StrayArrives
    <2>2. stage' = "flying" /\ sent' = Nothing /\ applied' = <<>> /\ Len(applied') = 0
      BY <1>2 DEF StrayArrives
    <2>3. ~IsTold'
      BY <2>2 DEF IsTold
    <2>4. BufferTold'
      BY <2>1, <2>3 DEF BufferTold
    <2>5. AppliedTold'
      BY <2>2 DEF AppliedTold
    <2> QED
      BY <2>3, <2>4, <2>5, NoDecoding DEF ToldInv
  <1>3. CASE Refuse
    <2>1. stage' = "idle" /\ UNCHANGED <<sent, applied>>
      BY <1>3 DEF Refuse, histories
    <2>2. BufferTold'
      BY <2>1 DEF BufferTold, UnderWay, Reading
    <2>3. AppliedTold'
      BY <2>1, AppliedStands DEF ToldInv
    <2> QED
      BY <2>1, <2>2, <2>3, NoDecoding DEF ToldInv
  <1> QED
    BY <1>1, <1>2, <1>3

LEMMA ReceiveTold == TypeInv /\ ToldInv /\ Receive => ToldInv'
  <1> SUFFICES ASSUME TypeInv, ToldInv, Receive PROVE ToldInv'
    OBVIOUS
  <1>1. /\ UNCHANGED <<buffer, authentic>> /\ UNCHANGED <<sent, applied>>
        /\ stage = "flying" /\ stage' \in {"envelope", "idle"} /\ hop' = hop + 1
        /\ cursor' = Start(buffer) /\ index' = 1
    BY DEF Receive, histories
  <1>2. (IsTold' <=> IsTold) /\ Told' = Told
    BY <1>1, ToldStands
  <1>3. stage' = "envelope" => From' = From
    <2>1. hop \in Nat
      BY DEF TypeInv, HopOK
    <2> QED
      BY <1>1, <2>1 DEF From
  <1>4. UnderWay /\ (UnderWay' => stage' = "envelope")
    BY <1>1 DEF UnderWay, Reading
  <1>5. BufferTold /\ BufferTold'
    BY <1>1, <1>2, <1>3, <1>4 DEF ToldInv, BufferTold
  <1>6. CursorTold'
    <2> SUFFICES ASSUME stage' = "envelope", IsTold
                 PROVE  AtItem(buffer', Items(Told', From', authentic'), Size(Told'), cursor', Place')
      BY <1>1, <1>2 DEF CursorTold, Reading
    <2>1. HmacShape /\ authentic \in BOOLEAN /\ IsMessage(Told) /\ From \in Vast
      BY <1>4, ToldTypes, FromTypes DEF TypeInv, CountersOK
    <2>2. buffer = Encode(Told.envelope, Told.fields, From, authentic)
      BY <1>4, <1>5 DEF BufferTold
    <2>3. buffer \in Seq(Byte) /\ Spelt(buffer, Items(Told, From, authentic), Size(Told))
      BY <2>1, <2>2, MessageSpelt
    <2>4. Size(Told) \in Nat
      <3>1. Size(Told) = 10 + Len(LayoutOf(Told)) /\ Len(LayoutOf(Told)) \in 3..7
        BY <2>1, ItemsAre
      <3> QED
        BY <3>1
    <2>5. AtItem(buffer, Items(Told, From, authentic), Size(Told), Start(buffer), 1)
      BY <2>3, <2>4, SpeltStart
    <2>6. Place' = 1
      BY <1>1 DEF Place
    <2> QED
      BY <1>1, <1>2, <1>3, <2>5, <2>6
  <1>7. HeadTold' /\ FieldsTold'
    <2>1. \A j \in 1..(index' - 1) : FALSE
      BY <1>1
    <2> QED
      BY <1>1, <2>1 DEF HeadTold, FieldsTold
  <1>8. AppliedTold'
    BY <1>1, AppliedStands DEF ToldInv
  <1> QED
    BY <1>5, <1>6, <1>7, <1>8 DEF ToldInv

\* What a message says of its head, and what the head says of itself.
SaidNames == {"kind", "timestamp", "expire", "origin", "nonce"}

LEMMA SaidStands ==
  ASSUME Told' = Told, NEW name
  PROVE  /\ name \in SaidNames => Says(Told, name)' = Says(Told, name)
         /\ name \notin SaidNames => Says(Told, name)' = head'[name]
  BY DEF Says, SaidNames

LEMMA ReadEnvelopeTold == TypeInv /\ ToldInv /\ ReadEnvelope => ToldInv'
  <1> SUFFICES ASSUME TypeInv, ToldInv, ReadEnvelope PROVE ToldInv'
    OBVIOUS
  <1>1. /\ UNCHANGED <<buffer, hop, authentic>> /\ UNCHANGED <<sent, applied>>
        /\ stage = "envelope" /\ cursor' = AfterSkip(buffer, cursor) /\ index' = index + 1
        /\ stage' = IF index = Len(EnvelopeName) THEN "data" ELSE stage
        /\ head' = [name \in {EnvelopeName[i] : i \in 1..index} |->
                      IF name = EnvelopeName[index] THEN EnvelopeValue ELSE head[name]]
    BY DEF ReadEnvelope, histories
  <1>2. index \in 1..8 /\ HeadHas(index - 1)
    BY <1>1 DEF TypeInv, DecodingOK
  <1>3. /\ stage' = IF index = 8 THEN "data" ELSE "envelope"
        /\ stage' \in {"data", "envelope"}
    <2>1. Len(EnvelopeName) = 8
      BY DEF EnvelopeName
    <2> QED
      BY <1>1, <2>1
  <1>4. (IsTold' <=> IsTold) /\ Told' = Told /\ From' = From
    BY <1>1, <1>3, ToldStands, FromStands
  <1>5. BufferTold'
    <2>1. UnderWay
      BY <1>1 DEF UnderWay, Reading
    <2> QED
      BY <1>1, <1>4, <2>1 DEF ToldInv, BufferTold
  <1>6. ASSUME IsTold
        PROVE  /\ AtItem(buffer, Items(Told, From, authentic), Size(Told), AfterSkip(buffer, cursor),
                         index + 1)
               /\ EnvelopeName[index] \in {"kind", "timestamp", "expire", "origin", "nonce"} =>
                    EnvelopeValue = Says(Told, EnvelopeName[index])
    BY <1>1, <1>6, ReadAsWritten DEF ToldInv
  <1>7. CursorTold'
    <2>1. Place' = index + 1
      BY <1>1, <1>2, <1>3 DEF Place
    <2> QED
      BY <1>1, <1>4, <1>6, <2>1 DEF CursorTold
  <1>8. HeadTold'
    <2> SUFFICES ASSUME IsTold, NEW j \in 1..index
                 PROVE  head'[EnvelopeName[j]] = Says(Told, EnvelopeName[j])'
      <3>1. index' - 1 = index /\ (stage' = "data" => index = 8)
        BY <1>1, <1>2, <1>3
      <3> QED
        BY <1>3, <1>4, <3>1 DEF HeadTold
    <2>1. EnvelopeName[j] \in {EnvelopeName[i] : i \in 1..index}
      OBVIOUS
    <2>2. head'[EnvelopeName[j]] = IF EnvelopeName[j] = EnvelopeName[index] THEN EnvelopeValue
                                   ELSE head[EnvelopeName[j]]
      BY <1>1, <2>1
    <2>3. CASE EnvelopeName[j] \in SaidNames
      <3>1. EnvelopeName[j] # EnvelopeName[index] =>
              head[EnvelopeName[j]] = Says(Told, EnvelopeName[j])
        <4> SUFFICES ASSUME EnvelopeName[j] # EnvelopeName[index]
                     PROVE  head[EnvelopeName[j]] = Says(Told, EnvelopeName[j])
          OBVIOUS
        <4>1. j \in 1..(index - 1)
          BY <1>2
        <4> QED
          BY <1>1, <4>1 DEF ToldInv, HeadTold
      <3>2. head'[EnvelopeName[j]] = Says(Told, EnvelopeName[j])
        BY <1>6, <2>2, <2>3, <3>1 DEF SaidNames
      <3> QED
        BY <1>4, <2>3, <3>2, SaidStands
    <2>4. CASE EnvelopeName[j] \notin SaidNames
      BY <1>4, <2>4, SaidStands
    <2> QED
      BY <2>3, <2>4
  <1>9. FieldsTold'
    BY <1>3 DEF FieldsTold
  <1>10. AppliedTold'
    BY <1>1, AppliedStands DEF ToldInv
  <1> QED
    BY <1>5, <1>7, <1>8, <1>9, <1>10 DEF ToldInv

LEMMA OpenDataTold == TypeInv /\ ToldInv /\ OpenData => ToldInv'
  <1> SUFFICES ASSUME TypeInv, ToldInv, OpenData PROVE ToldInv'
    OBVIOUS
  <1> DEFINE n == InfoAt(buffer, cursor)
  <1>1. /\ UNCHANGED <<buffer, hop, authentic>> /\ UNCHANGED <<sent, applied>>
        /\ stage = "data" /\ cursor' = AfterHead(buffer, cursor) /\ index' = 1
        /\ layout' = Layout(n) /\ extracting' = (Layout(n) # <<>>)
        /\ head' = [name \in DOMAIN head \cup {"size"} |-> IF name = "size" THEN n ELSE head[name]]
        /\ stage' = IF n = 0 THEN "hmac" ELSE "fields"
    BY DEF OpenData, histories
  <1>2. HeadHas(8)
    BY <1>1 DEF TypeInv, DecodingOK
  <1>3. ASSUME IsTold
        PROVE  /\ n = Len(LayoutOf(Told)) /\ Layout(n) = LayoutOf(Told)
               /\ AtItem(buffer, Items(Told, From, authentic), Size(Told),
                         AfterHead(buffer, cursor), 10)
               /\ n # 0 /\ Layout(n) # <<>>
    <2>1. CursorTold /\ HeadTold
      BY DEF ToldInv
    <2>2. /\ n = Len(LayoutOf(Told)) /\ Layout(n) = LayoutOf(Told)
          /\ AtItem(buffer, Items(Told, From, authentic), Size(Told),
                    AfterHead(buffer, cursor), 10)
      BY <1>1, <1>3, <2>1, OpenAsWritten
    <2>3. Len(LayoutOf(Told)) \in 3..7
      BY <1>1, <1>3, <2>1, Standing DEF Reading
    <2> QED
      BY <2>2, <2>3
  <1> HIDE DEF n
  <1>4. stage' \in {"fields", "hmac"}
    BY <1>1
  <1>5. (IsTold' <=> IsTold) /\ Told' = Told /\ From' = From
    BY <1>1, <1>4, ToldStands, FromStands
  <1>6. BufferTold'
    <2>1. UnderWay
      BY <1>1 DEF UnderWay, Reading
    <2> QED
      BY <1>1, <1>5, <2>1 DEF ToldInv, BufferTold
  <1>7. CursorTold'
    <2> SUFFICES ASSUME IsTold
                 PROVE  AtItem(buffer', Items(Told', From', authentic'), Size(Told'), cursor', Place')
      BY <1>5 DEF CursorTold
    <2>1. Place' = 10
      BY <1>1, <1>3 DEF Place
    <2> QED
      BY <1>1, <1>3, <1>5, <2>1
  <1>8. HeadTold'
    <2> SUFFICES ASSUME IsTold, NEW j \in 1..8
                 PROVE  head'[EnvelopeName[j]] = Says(Told, EnvelopeName[j])'
      BY <1>4, <1>5 DEF HeadTold
    <2>1. EnvelopeName[j] \in DOMAIN head /\ EnvelopeName[j] # "size"
      BY <1>2 DEF HeadHas, EnvelopeName
    <2>2. head'[EnvelopeName[j]] = head[EnvelopeName[j]]
      BY <1>1, <2>1
    <2>3. head[EnvelopeName[j]] = Says(Told, EnvelopeName[j])
      BY <1>1 DEF ToldInv, HeadTold
    <2>4. CASE EnvelopeName[j] \in SaidNames
      BY <1>5, <2>2, <2>3, <2>4, SaidStands
    <2>5. CASE EnvelopeName[j] \notin SaidNames
      BY <1>5, <2>5, SaidStands
    <2> QED
      BY <2>4, <2>5
  <1>9. FieldsTold'
    <2> SUFFICES ASSUME IsTold
                 PROVE  /\ layout' = LayoutOf(Told') /\ head'["size"] = Len(layout') /\ extracting'
                        /\ \A j \in 1..(index' - 1) : values'[layout'[j]] = Told'.fields[layout'[j]]
      BY <1>5 DEF FieldsTold
    <2>1. head'["size"] = n
      BY <1>1
    <2>2. \A j \in 1..(index' - 1) : FALSE
      BY <1>1
    <2> QED
      BY <1>1, <1>3, <1>5, <2>1, <2>2
  <1>10. AppliedTold'
    BY <1>1, AppliedStands DEF ToldInv
  <1> QED
    BY <1>6, <1>7, <1>8, <1>9, <1>10 DEF ToldInv

\* The head and the message stay while the fields are read and checked.
LEMMA HeadStands ==
  ASSUME HeadTold, UNCHANGED <<sent, applied>>, UNCHANGED head,
         stage \in {"fields", "hmac"}, stage' \in {"fields", "hmac", "handler"}
  PROVE  HeadTold'
  <1>1. (IsTold' <=> IsTold) /\ Told' = Told
    BY ToldStands
  <1> SUFFICES ASSUME IsTold, NEW j \in 1..8
               PROVE  head'[EnvelopeName[j]] = Says(Told, EnvelopeName[j])'
    BY <1>1 DEF HeadTold
  <1>2. head[EnvelopeName[j]] = Says(Told, EnvelopeName[j])
    BY DEF HeadTold
  <1>3. CASE EnvelopeName[j] \in SaidNames
    BY <1>1, <1>2, <1>3, SaidStands
  <1>4. CASE EnvelopeName[j] \notin SaidNames
    BY <1>1, <1>4, SaidStands
  <1> QED
    BY <1>3, <1>4

LEMMA ReadFieldTold == TypeInv /\ DecoderInv /\ ToldInv /\ ReadField => ToldInv'
  <1> SUFFICES ASSUME TypeInv, DecoderInv, ToldInv, ReadField PROVE ToldInv'
    OBVIOUS
  <1> DEFINE field == layout[index]
  <1>1. /\ UNCHANGED <<buffer, hop, authentic>> /\ UNCHANGED <<sent, applied>>
        /\ UNCHANGED <<head, layout>>
        /\ stage = "fields" /\ cursor' = AfterSkip(buffer, cursor) /\ index' = index + 1
        /\ stage' = IF index = head["size"] THEN "hmac" ELSE stage
        /\ Extract
    BY DEF ReadField, histories
  <1>2. index \in 1..head["size"] /\ head["size"] \in 0..23
    BY <1>1 DEF TypeInv, DecodingOK
  <1>3. stage' \in {"fields", "hmac"}
    BY <1>1
  <1>4. (IsTold' <=> IsTold) /\ Told' = Told /\ From' = From
    BY <1>1, <1>3, ToldStands, FromStands
  <1>5. ASSUME IsTold
        PROVE  /\ AtItem(buffer, Items(Told, From, authentic), Size(Told), AfterSkip(buffer, cursor),
                         10 + index)
               /\ extracting /\ FieldAt(field) => FieldValue(field) = Told.fields[field]
               /\ extracting /\ ~FieldAt(field) => TooLong(Told)
    BY <1>1, <1>5, FieldAsWritten DEF ToldInv
  <1>6. ASSUME IsTold
        PROVE  /\ layout = LayoutOf(Told) /\ head["size"] = Len(layout)
               /\ extracting => \A j \in 1..(index - 1) : values[layout[j]] = Told.fields[layout[j]]
               /\ ~extracting => TooLong(Told)
    BY <1>1, <1>6 DEF ToldInv, FieldsTold
  <1>7. \/ /\ extracting /\ FieldAt(field) /\ extracting' = TRUE
           /\ values' = [name \in DOMAIN values \cup {field} |->
                           IF name = field THEN FieldValue(name) ELSE values[name]]
        \/ ~(extracting /\ FieldAt(field)) /\ extracting' = FALSE
    BY <1>1 DEF Extract
  <1>8. BufferTold'
    <2>1. UnderWay
      BY <1>1 DEF UnderWay, Reading
    <2> QED
      BY <1>1, <1>4, <2>1 DEF ToldInv, BufferTold
  <1>9. CursorTold'
    <2> SUFFICES ASSUME IsTold
                 PROVE  AtItem(buffer', Items(Told', From', authentic'), Size(Told'), cursor', Place')
      BY <1>4 DEF CursorTold
    <2>1. Size(Told) = 10 + head["size"]
      BY <1>1, <1>6, Standing DEF ToldInv, Reading
    <2>2. Place' = 10 + index
      <3>1. CASE index = head["size"]
        <4>1. Place' = Size(Told')
          BY <1>1, <3>1 DEF Place
        <4> QED
          BY <1>4, <2>1, <3>1, <4>1
      <3>2. CASE index # head["size"]
        <4>1. Place' = 9 + index'
          BY <1>1, <3>2 DEF Place
        <4>2. 9 + (index + 1) = 10 + index
          BY <1>2
        <4> QED
          BY <1>1, <4>1, <4>2
      <3> QED
        BY <3>1, <3>2
    <2> QED
      BY <1>1, <1>4, <1>5, <2>2
  <1>10. HeadTold'
    BY <1>1, <1>3, HeadStands DEF ToldInv
  <1>11. FieldsTold'
    <2> SUFFICES ASSUME IsTold
                 PROVE  /\ extracting' => \A j \in 1..(index' - 1) :
                                            values'[layout[j]] = Told.fields[layout[j]]
                        /\ ~extracting' => TooLong(Told)
      BY <1>1, <1>4, <1>6 DEF FieldsTold
    <2>1. CASE extracting /\ FieldAt(field) /\ extracting' = TRUE
      <3>1. values' = [name \in DOMAIN values \cup {field} |->
                         IF name = field THEN FieldValue(name) ELSE values[name]]
        BY <1>7, <2>1
      <3>2. FieldValue(field) = Told.fields[field]
        BY <1>5, <2>1
      <3> SUFFICES ASSUME NEW j \in 1..index PROVE values'[layout[j]] = Told.fields[layout[j]]
        <4>1. index' - 1 = index
          BY <1>1, <1>2
        <4> QED
          BY <2>1, <4>1
      <3>3. CASE layout[j] = field
        BY <3>1, <3>2, <3>3
      <3>4. CASE layout[j] # field
        <4>1. j \in 1..(index - 1)
          BY <1>2, <3>4
        <4>2. layout[j] \in DOMAIN values
          <5>1. ValuesOK
            BY <1>1 DEF TypeInv, DecodingOK
          <5>2. DOMAIN values = {layout[i] : i \in 1..(index - 1)}
            BY <2>1, <5>1 DEF ValuesOK
          <5> QED
            BY <4>1, <5>2
        <4>3. values[layout[j]] = Told.fields[layout[j]]
          BY <1>6, <2>1, <4>1
        <4> QED
          BY <3>1, <3>4, <4>2, <4>3
      <3> QED
        BY <3>3, <3>4
    <2>2. CASE ~(extracting /\ FieldAt(field)) /\ extracting' = FALSE
      BY <1>5, <1>6, <2>2
    <2> QED
      BY <1>7, <2>1, <2>2
  <1>12. AppliedTold'
    BY <1>1, AppliedStands DEF ToldInv
  <1> QED
    BY <1>8, <1>9, <1>10, <1>11, <1>12 DEF ToldInv

LEMMA CheckHmacTold == TypeInv /\ ToldInv /\ CheckHmac => ToldInv'
  <1> SUFFICES ASSUME TypeInv, ToldInv, CheckHmac PROVE ToldInv'
    OBVIOUS
  <1>1. /\ UNCHANGED <<buffer, hop, authentic>> /\ UNCHANGED <<sent, applied>>
        /\ UNCHANGED <<head, layout, extracting, values, index>>
        /\ stage = "hmac" /\ stage' \in {"handler", "idle"}
    BY DEF CheckHmac, histories, walk
  <1>2. (IsTold' <=> IsTold) /\ Told' = Told /\ From' = From
    BY <1>1, ToldStands, FromStands
  <1>3. BufferTold'
    <2>1. UnderWay
      BY <1>1 DEF UnderWay, Reading
    <2> QED
      BY <1>1, <1>2, <2>1 DEF ToldInv, BufferTold
  <1>4. CursorTold'
    BY <1>1 DEF CursorTold, Reading
  <1>5. HeadTold' /\ FieldsTold'
    <2>1. CASE stage' = "idle"
      BY <2>1, NoDecoding
    <2>2. CASE stage' = "handler"
      <3>1. HeadTold'
        BY <1>1, <2>2, HeadStands DEF ToldInv
      <3>2. FieldsTold'
        BY <1>1, <1>2 DEF ToldInv, FieldsTold
      <3> QED
        BY <3>1, <3>2
    <2> QED
      BY <1>1, <2>1, <2>2
  <1>6. AppliedTold'
    BY <1>1, AppliedStands DEF ToldInv
  <1> QED
    BY <1>3, <1>4, <1>5, <1>6 DEF ToldInv

\* What one hop has passed every other passes as it is.
LEMMA PassedOnce ==
  ASSUME NEW m, IsMessage(m)
  PROVE  Passed(Passed(m)) = Passed(m) /\ Passed(m).envelope = m.envelope
  <1> DEFINE f == m.fields
             g == [f EXCEPT !.latitude = Zero, !.longitude = Zero]
  <1>1. CASE m.envelope.kind = MetadataType /\ ~HasGPS(f)
    <2>1. f \in MetadataFields
      BY <1>1, MessageTypes, MetadataTypes
    <2>2. Passed(m) = [envelope |-> m.envelope, fields |-> g]
      BY <1>1 DEF Passed, PassedFields
    <2>3. g.latitude = Zero /\ g.longitude = Zero /\ g \in MetadataFields
      BY <2>1, ZeroTypes DEF MetadataFields
    <2> HIDE DEF g
    <2>4. [g EXCEPT !.latitude = Zero, !.longitude = Zero] = g
      BY <2>3 DEF MetadataFields
    <2>5. Passed([envelope |-> m.envelope, fields |-> g])
            = [envelope |-> m.envelope, fields |-> g]
      BY <2>4 DEF Passed, PassedFields
    <2> QED
      BY <2>2, <2>5
  <1>2. CASE ~(m.envelope.kind = MetadataType /\ ~HasGPS(f))
    <2>1. Passed(m) = [envelope |-> m.envelope, fields |-> f]
      BY <1>2 DEF Passed, PassedFields
    <2>2. Passed([envelope |-> m.envelope, fields |-> f]) = [envelope |-> m.envelope, fields |-> f]
      BY <1>2 DEF Passed, PassedFields
    <2> QED
      BY <2>1, <2>2
  <1> QED
    BY <1>1, <1>2

LEMMA HandleTold == TypeInv /\ ToldInv /\ Handle => ToldInv'
  <1> SUFFICES ASSUME TypeInv, ToldInv, Handle PROVE ToldInv'
    OBVIOUS
  <1> DEFINE m == [envelope |-> EnvelopeOf, fields |-> Decoded]
             n == Len(applied)
  <1>1. stage = "handler" /\ stage' \in {"idle", "forward"} /\ sent' = sent
    BY DEF Handle
  <1>2. applied' = applied \/ applied' = Append(applied, m)
    BY DEF Handle
  <1>3. BufferTold'
    BY <1>1 DEF BufferTold, UnderWay, Reading
  <1>4. CursorTold' /\ HeadTold' /\ FieldsTold'
    BY <1>1, NoDecoding
  <1>5. AppliedTold'
    <2>1. CASE applied' = applied
      BY <1>1, <2>1, AppliedStands DEF ToldInv
    <2>2. CASE applied' = Append(applied, m)
      <3>1. m = [envelope |-> m.envelope, fields |-> m.fields]
        OBVIOUS
      <3>2. IsTold => m = Passed(Told)
        BY <1>1, DecodedIsTold DEF ToldInv
      <3>3. n \in Nat /\ AppliedOK /\ AppliedTold
        BY DEF TypeInv, AppliedOK, ToldInv
      <3> HIDE DEF m
      <3>4. /\ Len(applied') = n + 1 /\ applied'[n + 1] = m
            /\ \A i \in 1..n : applied'[i] = applied[i]
        <4> DEFINE p == Append(applied, m)
        <4>1. Len(p) = n + 1 /\ p[n + 1] = m /\ \A i \in 1..n : p[i] = applied[i]
          BY <3>3, AppliedGrows, Zenon
        <4>2. applied' = p
          BY <2>2
        <4> HIDE DEF p
        <4> QED
          BY <4>1, <4>2
      <3>5. \A i \in 1..(n + 1) : i \in 1..n \/ i = n + 1
        BY <3>3
      <3>6. applied # <<>> <=> n >= 1
        BY <3>3 DEF AppliedOK
      <3>7. n >= 1 => m = Passed(applied[1])
        <4> SUFFICES ASSUME n >= 1 PROVE m = Passed(applied[1])
          OBVIOUS
        <4>1. m = Passed(applied[n])
          BY <3>2, <3>6 DEF IsTold, Told
        <4>2. n \in 2..n \/ n = 1
          <5>1. n \in Nat
            BY <3>3
          <5> HIDE DEF n
          <5> QED
            BY <5>1
        <4>3. n \in 2..n => applied[n] = Passed(applied[1])
          BY <3>3 DEF AppliedTold
        <4>4. IsMessage(applied[1])
          BY <3>3 DEF AppliedOK
        <4> QED
          BY <4>1, <4>2, <4>3, <4>4, PassedOnce
      <3>8. n = 0 /\ sent # Nothing =>
              m = Passed([envelope |-> sent.envelope, fields |-> FieldsOf(sent.announced)])
        BY <3>2, <3>6 DEF IsTold, Told
      <3>9. applied'[1] = IF n = 0 THEN m ELSE applied[1]
        BY <3>3, <3>4
      <3>10. sent' # Nothing =>
               applied'[1] = Passed([envelope |-> sent'.envelope,
                                     fields |-> FieldsOf(sent'.announced)])
        <4>1. n # 0 /\ sent # Nothing =>
                applied[1] = Passed([envelope |-> sent.envelope, fields |-> FieldsOf(sent.announced)])
          BY <3>3, <3>6 DEF AppliedTold
        <4> QED
          BY <1>1, <3>8, <3>9, <4>1
      <3>11. \A i \in 2..Len(applied') : applied'[i] = Passed(applied'[1])
        <4> SUFFICES ASSUME NEW i \in 2..(n + 1) PROVE applied'[i] = Passed(applied'[1])
          BY <3>4
        <4>1. n # 0 /\ n >= 1
          BY <3>3
        <4>2. i \in 2..n \/ i = n + 1
          BY <3>3
        <4>3. i \in 2..n => applied'[i] = Passed(applied[1])
          BY <3>3, <3>4 DEF AppliedTold
        <4>4. i = n + 1 => applied'[i] = Passed(applied[1])
          BY <3>4, <3>7, <4>1
        <4> QED
          BY <3>9, <4>1, <4>2, <4>3, <4>4
      <3>12. \A i \in 1..Len(applied') :
               applied'[i] = [envelope |-> applied'[i].envelope, fields |-> applied'[i].fields]
        BY <3>1, <3>3, <3>4, <3>5 DEF AppliedTold
      <3> QED
        BY <3>10, <3>11, <3>12 DEF AppliedTold
    <2> QED
      BY <1>2, <2>1, <2>2
  <1> QED
    BY <1>3, <1>4, <1>5 DEF ToldInv

LEMMA ForwardTold == TypeInv /\ ToldInv /\ Forward => ToldInv'
  <1> SUFFICES ASSUME TypeInv, ToldInv, Forward PROVE ToldInv'
    OBVIOUS
  <1> DEFINE m == applied[Len(applied)]
  <1>1. stage = "forward" /\ UNCHANGED hop /\ UNCHANGED <<sent, applied>>
    BY DEF Forward
  <1>2. applied # <<>> /\ m.envelope = EnvelopeOf
    BY <1>1 DEF TypeInv, AppliedOK
  <1>3. \/ stage' = "idle"
        \/ \E computed \in BOOLEAN :
             /\ buffer' = Encode(EnvelopeOf, m.fields, Chain[hop], computed)
             /\ authentic' = computed /\ stage' \in {"encoded", "dead"}
    BY DEF Forward, Encoded
  <1>4. IsTold' /\ Told' = m
    BY <1>1, <1>2 DEF IsTold, Told
  <1> HIDE DEF m
  <1>5. BufferTold'
    <2>1. UnderWay' => stage' = "encoded"
      BY <1>3 DEF UnderWay, Reading
    <2>2. stage' = "encoded" => From' = Chain[hop]
      BY <1>1 DEF From
    <2>3. stage' = "encoded" => buffer' = Encode(m.envelope, m.fields, Chain[hop], authentic')
      BY <1>2, <1>3
    <2> QED
      BY <1>4, <2>1, <2>2, <2>3 DEF BufferTold
  <1>6. AppliedTold'
    BY <1>1, AppliedStands DEF ToldInv
  <1>7. stage' \in {"idle", "encoded", "dead"}
    BY <1>3
  <1> QED
    BY <1>5, <1>6, <1>7, NoDecoding DEF ToldInv

LEMMA ToldInvStands ==
  ASSUME ToldInv, UNCHANGED <<buffer, hop, stage, walk, histories>>
  PROVE  ToldInv'
  <1>1. /\ UNCHANGED <<buffer, hop, stage, authentic>> /\ UNCHANGED <<sent, applied>>
        /\ UNCHANGED <<cursor, index, head, layout, extracting, values>>
    BY DEF histories, walk
  <1>2. /\ (IsTold' <=> IsTold) /\ Told' = Told /\ From' = From /\ (UnderWay' <=> UnderWay)
        /\ (Reading' <=> Reading)
    BY <1>1, ToldStands DEF From, UnderWay, Reading
  <1>3. BufferTold'
    BY <1>1, <1>2 DEF ToldInv, BufferTold
  <1>4. CursorTold'
    <2>1. Place' = Place
      BY <1>1, <1>2 DEF Place
    <2> QED
      BY <1>1, <1>2, <2>1 DEF ToldInv, CursorTold
  <1>5. HeadTold'
    <2>1. \A name : Says(Told, name)' = Says(Told, name)
      BY <1>1, <1>2 DEF Says
    <2> QED
      BY <1>1, <1>2, <2>1 DEF ToldInv, HeadTold
  <1>6. FieldsTold'
    BY <1>1, <1>2 DEF ToldInv, FieldsTold
  <1>7. AppliedTold'
    BY <1>1, AppliedStands DEF ToldInv
  <1> QED
    BY <1>3, <1>4, <1>5, <1>6, <1>7 DEF ToldInv

LEMMA NextTold == TypeInv /\ DecoderInv /\ ToldInv /\ [Next]_vars => ToldInv'
  <1> SUFFICES ASSUME TypeInv, DecoderInv, ToldInv, [Next]_vars PROVE ToldInv'
    OBVIOUS
  <1>1. CASE Table
    BY <1>1, ToldInvStands DEF Table
  <1>2. CASE UNCHANGED vars
    BY <1>2, ToldInvStands DEF vars
  <1> QED
    BY <1>1, <1>2, AnnounceTold, TransportTold, ReceiveTold, ReadEnvelopeTold, OpenDataTold,
       ReadFieldTold, CheckHmacTold, HandleTold, ForwardTold DEF Next

-----------------------------------------------------------------------------
(* What follows from it.                                                   *)

\* Only a message of the chain is encoded.
EncodedTold == stage = "encoded" => IsTold

LEMMA NextEncoded == TypeInv /\ EncodedTold /\ [Next]_vars => EncodedTold'
  <1> SUFFICES ASSUME TypeInv, EncodedTold, [Next]_vars, stage' = "encoded" PROVE IsTold'
    BY DEF EncodedTold
  <1>1. CASE Announce
    <2>1. PICK e, a : sent' = [envelope |-> e, announced |-> a]
      BY <1>1 DEF Announce
    <2> QED
      BY <2>1, NothingIsNoMessage DEF IsTold
  <1>2. CASE Forward
    <2>1. applied # <<>> /\ applied' = applied
      BY <1>2 DEF TypeInv, AppliedOK, Forward
    <2> QED
      BY <2>1 DEF IsTold
  <1>3. CASE sendCborBundle \/ StrayArrives \/ Receive \/ Refuse \/ CheckHmac
    BY <1>3 DEF sendCborBundle, StrayArrives, Receive, Refuse, CheckHmac
  <1>4. CASE ReadEnvelope \/ OpenData \/ ReadField
    BY <1>4 DEF ReadEnvelope, OpenData, ReadField
  <1>5. CASE Handle
    BY <1>5 DEF Handle
  <1>6. CASE Table \/ UNCHANGED vars
    <2>1. UNCHANGED stage /\ UNCHANGED <<sent, applied>>
      BY <1>6 DEF Table, vars, histories
    <2> QED
      BY <2>1, ToldStands DEF EncodedTold
  <1> QED
    BY <1>1, <1>2, <1>3, <1>4, <1>5, <1>6 DEF Next

ChainInv == TypeInv /\ DecoderInv /\ ToldInv /\ EncodedTold

LEMMA ChainInvariant == Spec /\ HmacShape => []ChainInv
  <1>1. HmacShape /\ Init => ChainInv
    BY InitTypes, InitDecoder, InitTold DEF ChainInv, EncodedTold, Init
  <1>2. ChainInv /\ [Next]_vars => ChainInv'
    BY NextTypes, NextTold, NextEncoded DEF ChainInv
  <1> QED
    BY <1>1, <1>2, PTL DEF Spec

\* What a configuration means is what its origin sends, unless a text is too long.
LEMMA MeantIsPassed ==
  ASSUME NEW a \in Announced, NEW e, e.kind = a.kind,
         ~TooLong(Passed([envelope |-> e, fields |-> FieldsOf(a)]))
  PROVE  Passed([envelope |-> e, fields |-> FieldsOf(a)]) = [envelope |-> e, fields |-> Meant(a)]
  <1> DEFINE f == FieldsOf(a)
             m == [envelope |-> e, fields |-> f]
             g == [f EXCEPT !.latitude = Zero, !.longitude = Zero]
             parsed == parseNodeMetadata(a.nodemetadata)
             raw == a.nodemetadata
  <1>1. CASE a.kind # MetadataType
    BY <1>1 DEF Passed, PassedFields, Meant, FieldsOf
  <1>2. CASE a.kind = MetadataType
    <2>1. f = [nodeId |-> Chain[1], name |-> parsed.name, contact |-> parsed.contact,
               location |-> parsed.location, latitude |-> a.latitude, longitude |-> a.longitude]
      BY <1>2 DEF FieldsOf
    <2>2. /\ f.name = parsed.name /\ f.contact = parsed.contact /\ f.location = parsed.location
          /\ f.latitude = a.latitude /\ f.longitude = a.longitude
          /\ DOMAIN f = {"nodeId", "name", "contact", "location", "latitude", "longitude"}
          /\ f = [x \in DOMAIN f |-> f[x]]
      BY <2>1
    <2>3. raw \in Seq(Text)
      BY <1>2, WireAssumption, KindsDiffer DEF Announceable
    <2> HIDE DEF f, parsed
    <2>4. PassedFields(m) = IF ~HasGPS(f) THEN g ELSE f
      BY <1>2 DEF PassedFields
    <2>5. /\ PassedFields(m).name = f.name /\ PassedFields(m).contact = f.contact
          /\ PassedFields(m).location = f.location
      BY <2>2, <2>4
    <2>6. \A t \in Texts : Len(parsed[t]) # Limit(t) - 1
      <3>1. \A t \in Texts : Len(PassedFields(m)[t]) # Limit(t) - 1
        BY <1>2 DEF TooLong, Passed, f
      <3> QED
        BY <2>2, <2>5, <3>1 DEF Texts
    <2>7. Plain(raw) => f.name = raw[1] /\ f.contact = raw[2] /\ f.location = raw[3]
      <3> SUFFICES ASSUME Plain(raw) PROVE parsed = [name |-> raw[1], contact |-> raw[2],
                                                     location |-> raw[3]]
        BY <2>2
      <3> QED
        BY <2>3, <2>6, ParsedTypes DEF parsed
    <2> DEFINE named == IF Plain(raw)
                          THEN [f EXCEPT !.name = raw[1], !.contact = raw[2], !.location = raw[3]]
                          ELSE f
    <2>8. named = f
      BY <2>2, <2>7
    <2>9. Meant(a) = IF Zero \in {a.latitude, a.longitude}
                       THEN [named EXCEPT !.latitude = Zero, !.longitude = Zero] ELSE named
      BY <1>2 DEF Meant, f
    <2> HIDE DEF named
    <2>10. Meant(a) = IF Zero \in {a.latitude, a.longitude} THEN g ELSE f
      BY <2>8, <2>9
    <2>11. HasGPS(f) <=> Zero \notin {a.latitude, a.longitude}
      BY <2>2 DEF HasGPS
    <2>12. PassedFields(m) = Meant(a)
      BY <2>4, <2>10, <2>11
    <2> QED
      BY <2>12 DEF Passed, f
  <1> QED
    BY <1>1, <1>2

LEMMA ChainMeant == ChainInv => FirstReceiverGetsWhatWasMeant
  <1> SUFFICES ASSUME ChainInv, applied # <<>>, sent # Nothing
               PROVE  applied[1] = [envelope |-> sent.envelope, fields |-> Meant(sent.announced)]
    BY DEF FirstReceiverGetsWhatWasMeant
  <1>1. applied[1] = Passed([envelope |-> sent.envelope, fields |-> FieldsOf(sent.announced)])
    BY DEF ChainInv, ToldInv, AppliedTold
  <1>2. ~TooLong(applied[1])
    <2>1. AppliedOK
      BY DEF ChainInv, TypeInv
    <2>2. 1 \in 1..Len(applied)
      BY <2>1 DEF AppliedOK
    <2> QED
      BY <2>1, <2>2 DEF AppliedOK
  <1>3. sent.announced \in Announced /\ sent.envelope.kind = sent.announced.kind
    BY DEF ChainInv, TypeInv, SentOK
  <1> QED
    BY <1>1, <1>2, <1>3, MeantIsPassed

LEMMA ChainAgrees == ChainInv => RelaysAgreeUnlessHalfPosition
  <1> SUFFICES ASSUME ChainInv, NEW i \in 2..Len(applied), applied[i] # applied[1]
               PROVE  /\ applied[1].envelope.kind = MetadataType
                      /\ HalfPosition(applied[1].fields)
    BY DEF RelaysAgreeUnlessHalfPosition
  <1> DEFINE m == applied[1]
             f == m.fields
  <1>0. AppliedOK /\ AppliedTold
    BY DEF ChainInv, TypeInv, ToldInv
  <1>1. 1 \in 1..Len(applied)
    BY <1>0 DEF AppliedOK
  <1>2. IsMessage(m) /\ m = [envelope |-> m.envelope, fields |-> f]
    BY <1>0, <1>1 DEF AppliedOK, AppliedTold
  <1>3. applied[i] = [envelope |-> m.envelope, fields |-> PassedFields(m)]
    BY <1>0 DEF AppliedTold, Passed
  <1>4. PassedFields(m) # f
    BY <1>2, <1>3
  <1> HIDE DEF m
  <1>5. m.envelope.kind = MetadataType /\ ~HasGPS(f)
    BY <1>4 DEF PassedFields
  <1>6. [f EXCEPT !.latitude = Zero, !.longitude = Zero] # f
    BY <1>4, <1>5 DEF PassedFields
  <1>7. f \in MetadataFields
    BY <1>2, <1>5, MessageTypes, MetadataTypes
  <1>8. ~(f.latitude = Zero /\ f.longitude = Zero)
    BY <1>6, <1>7 DEF MetadataFields
  <1>9. HalfPosition(f)
    BY <1>5, <1>8 DEF HalfPosition, HasGPS
  <1> QED
    BY <1>5, <1>9 DEF m

\* The first receiver applies what the origin's record or configuration says, for
\* every record, line of texts and position: encodeCborContactMessage and its kin,
\* decodeCborMessage and the casts and copies of processCbor*Message undo each other.
THEOREM FirstGetsWhatWasMeant == Spec /\ HmacShape => []FirstReceiverGetsWhatWasMeant
  BY ChainInvariant, ChainMeant, PTL

\* Every node of the chain, however long, applies the record the first applied, under
\* its envelope, but for the half position of an older release that forwardCborMetadata-
\* Message drops.
THEOREM AllNodesAgree == Spec /\ HmacShape => []RelaysAgreeUnlessHalfPosition
  BY ChainInvariant, ChainAgrees, PTL

-----------------------------------------------------------------------------
(* Refusals, and what is accepted.                                         *)

LEMMA ToldOfSent ==
  ASSUME TypeInv, ToldInv, sent # Nothing
  PROVE  /\ IsTold /\ Told.envelope = sent.envelope
         /\ TooLong(Told) => /\ sent.envelope.kind = MetadataType
                             /\ \E t \in Texts : Len(FieldsOf(sent.announced)[t]) = Limit(t) - 1
  <1> DEFINE first == [envelope |-> sent.envelope, fields |-> FieldsOf(sent.announced)]
             n == Len(applied)
  <1>0. AppliedOK /\ AppliedTold
    BY DEF TypeInv, ToldInv
  <1>1. IsTold
    BY DEF IsTold
  <1>2. CASE applied = <<>>
    BY <1>1, <1>2 DEF Told, TooLong
  <1>3. CASE applied # <<>>
    <2>1. n \in Nat /\ n >= 1
      BY <1>0, <1>3 DEF AppliedOK
    <2>2. Told = applied[n]
      BY <1>3 DEF Told
    <2>3. applied[1].envelope = sent.envelope
      BY <1>0, <1>3 DEF AppliedTold, Passed
    <2>4. n = 1 \/ n \in 2..n
      <3> HIDE DEF n
      <3> QED
        BY <2>1
    <2>5. applied[n].envelope = applied[1].envelope
      BY <1>0, <2>4 DEF AppliedTold, Passed
    <2>6. ~TooLong(applied[n])
      BY <1>0, <2>1 DEF AppliedOK
    <2> QED
      BY <1>1, <2>2, <2>3, <2>5, <2>6
  <1> QED
    BY <1>2, <1>3

LEMMA RefusedForCause ==
  ASSUME TypeInv, DecoderInv, ToldInv, Refuse, sent # Nothing
  PROVE  Precedes(sent.envelope.expire, Now)
           \/ <<sent.envelope.origin, sent.envelope.nonce>> \in seen[hop]
  <1>0. IsTold /\ Told.envelope = sent.envelope
    BY ToldOfSent
  <1>1. CASE stage = "envelope" /\ ~EnvelopeItem
    BY <1>0, <1>1, ReadAsWritten DEF ToldInv
  <1>2. CASE stage = "data" /\ ~DataHeader
    <2>1. NonceOf \in seen[hop]
      BY <1>0, <1>2, OpenAsWritten DEF ToldInv
    <2>2. NonceOf = <<Told.envelope.origin, Told.envelope.nonce>>
      BY <1>0, <1>2, EnvelopeIsTold DEF ToldInv
    <2> QED
      BY <1>0, <2>1, <2>2
  <1>3. CASE stage = "fields" /\ ~Skippable(buffer, cursor)
    BY <1>0, <1>3, FieldAsWritten DEF ToldInv
  <1>4. CASE stage = "hmac" /\ ~HmacItem
    BY <1>0, <1>4, HmacAsWritten DEF ToldInv
  <1> QED
    BY <1>1, <1>2, <1>3, <1>4 DEF Refuse

LEMMA CheckedForCause ==
  ASSUME TypeInv, ToldInv, CheckHmac, stage' = "idle", sent # Nothing
  PROVE  HasCause(sent.envelope, FieldsOf(sent.announced))
  <1>0. IsTold /\ Told.envelope = sent.envelope /\ stage = "hmac" /\ faults \in Nat
    BY ToldOfSent, ChainTypes DEF CheckHmac, TypeInv, CountersOK
  <1>1. PICK computed \in BOOLEAN :
          /\ Faulty(computed)
          /\ IF verifyHmac(computed) THEN stage' = IF extracting THEN "handler" ELSE "idle"
             ELSE TRUE
    BY DEF CheckHmac
  <1>2. CASE ~computed
    <2>1. faults' = faults + 1
      BY <1>1, <1>2 DEF Faulty
    <2>2. faults + 1 > faults
      BY <1>0
    <2> QED
      BY <2>1, <2>2 DEF HasCause
  <1>3. CASE computed /\ ~verifyHmac(computed)
    <2>1. SubSeq(buffer, cursor.at + 1, cursor.at + DTNEX_HMAC_SIZE)
            # Hmac(Key, SubSeq(buffer, 1, cursor.at - 1))
      BY <1>3 DEF verifyHmac
    <2>2. HmacOf(Told, From, authentic)
            # Hmac(Key, writeCborEnvelope(Told.envelope, From)
                          \o Payload(Told.envelope.kind, Told.fields))
      BY <1>0, <2>1, HmacAsWritten DEF ToldInv
    <2>3. ~authentic
      BY <2>2 DEF HmacOf
    <2> QED
      BY <2>3 DEF HasCause
  <1>4. CASE verifyHmac(computed)
    <2>1. ~extracting
      BY <1>1, <1>4
    <2>2. TooLong(Told)
      BY <1>0, <2>1 DEF ToldInv, FieldsTold
    <2> QED
      BY <2>2, ToldOfSent DEF HasCause
  <1> QED
    BY <1>2, <1>3, <1>4

LEMMA StepRefusesForCause ==
  ASSUME TypeInv, DecoderInv, ToldInv, [Next]_vars, Reading, stage' = "idle", sent # Nothing
  PROVE  HasCause(sent.envelope, FieldsOf(sent.announced))
  <1>1. CASE Refuse
    BY <1>1, RefusedForCause DEF HasCause
  <1>2. CASE CheckHmac
    BY <1>2, CheckedForCause
  <1>3. CASE ReadEnvelope \/ OpenData \/ ReadField
    BY <1>3 DEF ReadEnvelope, OpenData, ReadField
  <1>4. CASE Announce \/ sendCborBundle \/ StrayArrives \/ Receive \/ Handle \/ Forward
    BY <1>4 DEF Announce, sendCborBundle, StrayArrives, Receive, Handle, Forward, Reading
  <1>5. CASE Table \/ UNCHANGED vars
    <2>1. UNCHANGED stage
      BY <1>5 DEF Table, vars
    <2> QED
      BY <2>1 DEF Reading
  <1> QED
    BY <1>1, <1>2, <1>3, <1>4, <1>5 DEF Next

\* decodeCborMessage and verifyHmac refuse no announcement but for one of the five
\* causes, whatever the sizes, the numbers of the nodes and the texts.
THEOREM RefusesForCauseOnly == Spec /\ HmacShape => RefusedOnlyForCause
  <1>1. ChainInv /\ [Next]_vars =>
          [Reading /\ stage' = "idle" /\ sent # Nothing
             => HasCause(sent.envelope, FieldsOf(sent.announced))]_vars
    BY StepRefusesForCause DEF ChainInv
  <1> QED
    BY <1>1, ChainInvariant, PTL DEF Spec, RefusedOnlyForCause

\* Of HMAC-SHA256: it is never all zeros, and nobody without the key finds it for
\* bytes of his own.
Unforgeable ==
  /\ \A b \in Bytes : Hmac(Key, b) # NullHmac
  /\ \A s \in Stray : ~s.signed =>
       \A i \in Nat : SubSeq(s.bytes, i + 1, i + DTNEX_HMAC_SIZE)
                        # Hmac(Key, SubSeq(s.bytes, 1, i - 1))

LEMMA VerifiedIsSigned ==
  ASSUME Unforgeable, TypeInv, ToldInv, stage = "hmac", NEW computed, verifyHmac(computed)
  PROVE  authentic
  <1>0. /\ Reading /\ UnderWay /\ HmacShape /\ authentic \in BOOLEAN /\ cursor.at \in Nat
    BY DEF Reading, UnderWay, TypeInv, CountersOK
  <1>1. SubSeq(buffer, cursor.at + 1, cursor.at + DTNEX_HMAC_SIZE)
          = Hmac(Key, SubSeq(buffer, 1, cursor.at - 1))
    BY DEF verifyHmac
  <1> SUFFICES ASSUME ~authentic PROVE FALSE
    OBVIOUS
  <1>2. CASE IsTold
    <2> DEFINE x == writeCborEnvelope(Told.envelope, From)
                      \o Payload(Told.envelope.kind, Told.fields)
    <2>1. x \in Bytes
      BY <1>0, <1>2, ToldTypes, FromTypes, HmacTypes
    <2>2. HmacOf(Told, From, authentic) = Hmac(Key, x)
      BY <1>1, <1>2, HmacAsWritten DEF ToldInv
    <2>3. HmacOf(Told, From, authentic) = NullHmac
      BY DEF HmacOf
    <2> HIDE DEF x
    <2> QED
      BY <2>1, <2>2, <2>3 DEF Unforgeable
  <1>3. CASE ~IsTold
    <2>1. PICK s \in Stray : buffer = s.bytes /\ authentic = s.signed
      BY <1>0, <1>3 DEF ToldInv, BufferTold
    <2> QED
      BY <1>0, <1>1, <2>1 DEF Unforgeable
  <1> QED
    BY <1>2, <1>3

LEMMA NextAccepts ==
  Unforgeable /\ ChainInv /\ AcceptedIsSigned /\ [Next]_vars => AcceptedIsSigned'
  <1> SUFFICES ASSUME Unforgeable, ChainInv, AcceptedIsSigned, [Next]_vars, stage' = "handler"
               PROVE  authentic'
    BY DEF AcceptedIsSigned
  <1>1. CASE CheckHmac
    <2>1. /\ stage = "hmac" /\ authentic' = authentic
          /\ \E computed \in BOOLEAN : verifyHmac(computed)
      BY <1>1 DEF CheckHmac, histories
    <2> QED
      BY <2>1, VerifiedIsSigned DEF ChainInv
  <1>2. CASE Announce \/ Forward
    BY <1>2 DEF Announce, Forward, Encoded
  <1>3. CASE sendCborBundle \/ StrayArrives \/ Receive \/ Refuse \/ Handle
    BY <1>3 DEF sendCborBundle, StrayArrives, Receive, Refuse, Handle
  <1>4. CASE ReadEnvelope \/ OpenData \/ ReadField
    BY <1>4 DEF ReadEnvelope, OpenData, ReadField
  <1>5. CASE Table \/ UNCHANGED vars
    <2>1. UNCHANGED stage /\ UNCHANGED authentic
      BY <1>5 DEF Table, vars, histories
    <2> QED
      BY <2>1 DEF AcceptedIsSigned
  <1> QED
    BY <1>1, <1>2, <1>3, <1>4, <1>5 DEF Next

\* No handler gets a message whose HMAC was not computed with the shared key, as far
\* as HMAC-SHA256 keeps its promise: the null HMAC that appendCborHmac falls back to,
\* and a verification that fails, are taken for no signature.
THEOREM AcceptsWhatIsSigned == Spec /\ HmacShape /\ Unforgeable => []AcceptedIsSigned
  <1> DEFINE Inv == Unforgeable /\ ChainInv /\ AcceptedIsSigned
  <1>1. HmacShape /\ Unforgeable /\ Init => Inv
    BY InitTypes, InitDecoder, InitTold DEF ChainInv, EncodedTold, Init, AcceptedIsSigned
  <1>2. Inv /\ [Next]_vars => Inv'
    BY NextAccepts, NextTypes, NextTold, NextEncoded DEF ChainInv
  <1>3. Inv => AcceptedIsSigned
    OBVIOUS
  <1> QED
    BY <1>1, <1>2, <1>3, PTL DEF Spec

LEMMA ChainFits == CodeSizes /\ ChainInv => FitsUnlessTextsAreLong
  <1> SUFFICES ASSUME CodeSizes, ChainInv, stage = "encoded", Len(buffer) > MAX_CBOR_BUFFER
               PROVE  MayOverrun(Told.envelope, Told.fields)
    BY DEF FitsUnlessTextsAreLong, Told
  <1>1. IsTold /\ UnderWay /\ HmacShape /\ authentic \in BOOLEAN
    BY DEF ChainInv, EncodedTold, UnderWay, TypeInv, CountersOK
  <1>2. IsMessage(Told) /\ From \in Vast
    BY <1>1, ToldTypes, FromTypes DEF ChainInv
  <1>3. buffer = Encode(Told.envelope, Told.fields, From, authentic)
    BY <1>1 DEF ChainInv, ToldInv, BufferTold
  <1> SUFFICES ASSUME ~MayOverrun(Told.envelope, Told.fields) PROVE FALSE
    OBVIOUS
  <1>4. Len(buffer) <= MAX_CBOR_BUFFER
    BY <1>1, <1>2, <1>3, MessageIsShort DEF Short
  <1>5. Len(buffer) \in Nat /\ MAX_CBOR_BUFFER \in Nat
    BY Parameters DEF ChainInv, TypeInv, Bytes, IsSize
  <1> QED
    BY <1>4, <1>5

\* writeCborEnvelope, encodeCbor*Message and appendCborHmac stay in the MAX_CBOR_BUFFER
\* bytes they are given, at the origin and at every relay, for every record but metadata
\* with more than TextBudget bytes of text or times beyond 32 bits.
THEOREM MessagesFit == Spec /\ HmacShape /\ CodeSizes => []FitsUnlessTextsAreLong
  <1> DEFINE Inv == CodeSizes /\ ChainInv
  <1>1. HmacShape /\ CodeSizes /\ Init => Inv
    BY InitTypes, InitDecoder, InitTold DEF ChainInv, EncodedTold, Init
  <1>2. Inv /\ [Next]_vars => Inv'
    BY NextTypes, NextTold, NextEncoded DEF ChainInv
  <1>3. Inv => FitsUnlessTextsAreLong
    BY ChainFits
  <1> QED
    BY <1>1, <1>2, <1>3, PTL DEF Spec

-----------------------------------------------------------------------------
(* What an HMAC vouches for: the bytes it is computed over are those of    *)
(* one announcement from one sender.                                       *)

\* An item of an envelope or of data: a head, or a string that its head announces.
IsHead(item) == \E major \in {UnsignedInteger, ArrayOpen}, v \in Vast :
                  item = EncodeHead(major, v)
IsText(item) == \E major \in {ByteString, TextString}, s \in Seq(Byte) :
                  Len(s) < 65536 /\ item = EncodeString(major, s)

Coded(item) == item \in Seq(Byte) /\ (IsHead(item) \/ IsText(item))

\* The item that a reader finds at the cursor.
ItemAt(buf, c) ==
  IF IsString(buf, c) THEN EncodeString(MajorAt(buf, c), TextValue(buf, c))
  ELSE EncodeHead(MajorAt(buf, c), Argument(buf, c))

LEMMA HeadIsRead ==
  ASSUME NEW buf \in Seq(Byte), NEW items, NEW n \in Nat, NEW c, NEW k \in 1..n,
         AtItem(buf, items, n, c, k), NEW major \in {UnsignedInteger, ArrayOpen},
         NEW v \in Vast, items[k] = EncodeHead(major, v)
  PROVE  items[k] = ItemAt(buf, c) /\ AtItem(buf, items, n, AfterSkip(buf, c), k + 1)
  <1>1. /\ HeadAt(buf, c, major, 0..27) /\ Argument(buf, c) = v
        /\ AfterSkip(buf, c) = AfterHead(buf, c)
        /\ AtItem(buf, items, n, AfterHead(buf, c), k + 1)
    BY HeadItem
  <1>2. MajorAt(buf, c) = major /\ ~IsString(buf, c)
    BY <1>1 DEF HeadAt, IsString, UnsignedInteger, ArrayOpen, ByteString, TextString
  <1> QED
    BY <1>1, <1>2 DEF ItemAt

LEMMA StringIsRead ==
  ASSUME NEW buf \in Seq(Byte), NEW items, NEW n \in Nat, NEW c, NEW k \in 1..n,
         AtItem(buf, items, n, c, k), NEW major \in {ByteString, TextString},
         NEW s \in Seq(Byte), Len(s) < 65536, items[k] = EncodeString(major, s)
  PROVE  /\ items[k] = ItemAt(buf, c) /\ AtItem(buf, items, n, AfterSkip(buf, c), k + 1)
         /\ TextValue(buf, c) = s
  <1>1. /\ HeadAt(buf, c, major, 0..25) /\ TextLength(buf, c) = Len(s)
        /\ \A i \in 1..Len(s) : buf[AfterHead(buf, c).at + i - 1] = s[i]
        /\ AtItem(buf, items, n, AfterSkip(buf, c), k + 1)
    BY StringItem
  <1>2. MajorAt(buf, c) = major /\ IsString(buf, c)
    BY <1>1 DEF HeadAt, IsString
  <1>3. TextValue(buf, c) = s
    <2>1. TextValue(buf, c) = [i \in 1..Len(s) |-> buf[AfterHead(buf, c).at + i - 1]]
      BY <1>1 DEF TextValue
    <2>2. s = [i \in 1..Len(s) |-> s[i]]
      OBVIOUS
    <2> QED
      BY <1>1, <2>1, <2>2
  <1> QED
    BY <1>1, <1>2, <1>3 DEF ItemAt

LEMMA ItemIsRead ==
  ASSUME NEW buf \in Seq(Byte), NEW items, NEW n \in Nat, NEW c, NEW k \in 1..n,
         AtItem(buf, items, n, c, k), Coded(items[k])
  PROVE  items[k] = ItemAt(buf, c) /\ AtItem(buf, items, n, AfterSkip(buf, c), k + 1)
  <1>1. CASE IsHead(items[k])
    <2> PICK major \in {UnsignedInteger, ArrayOpen}, v \in Vast :
          items[k] = EncodeHead(major, v)
      BY <1>1 DEF IsHead
    <2> QED
      BY HeadIsRead
  <1>2. CASE IsText(items[k])
    <2> PICK major \in {ByteString, TextString}, s \in Seq(Byte) :
          Len(s) < 65536 /\ items[k] = EncodeString(major, s)
      BY <1>2 DEF IsText
    <2>1. Len(s) < 65536
      OBVIOUS
    <2>2. items[k] = EncodeString(major, s)
      OBVIOUS
    <2> QED
      BY <2>1, <2>2, StringIsRead
  <1> QED
    BY <1>1, <1>2 DEF Coded

\* Bytes are of one row of items only, as far as both rows go.
LEMMA SameItems ==
  ASSUME NEW buf \in Seq(Byte), NEW a, NEW b, NEW n \in Nat, NEW m \in Nat, NEW last \in Nat,
         last <= n, last <= m, Spelt(buf, a, n), Spelt(buf, b, m),
         \A k \in 1..last : Coded(a[k]) /\ Coded(b[k])
  PROVE  \A k \in 1..last : a[k] = b[k]
  <1> DEFINE Both(c, k) == AtItem(buf, a, n, c, k) /\ AtItem(buf, b, m, c, k)
             Found(k) == \E c : Both(c, k)
             S == {k \in 1..last : ~(Found(k) /\ a[k] = b[k])}
  <1>1. ASSUME NEW k \in 1..last, NEW c, Both(c, k)
        PROVE  a[k] = b[k] /\ Both(AfterSkip(buf, c), k + 1)
    <2>1. k \in 1..n /\ k \in 1..m /\ Coded(a[k]) /\ Coded(b[k])
      OBVIOUS
    <2>2. a[k] = ItemAt(buf, c) /\ AtItem(buf, a, n, AfterSkip(buf, c), k + 1)
      BY <1>1, <2>1, ItemIsRead
    <2>3. b[k] = ItemAt(buf, c) /\ AtItem(buf, b, m, AfterSkip(buf, c), k + 1)
      BY <1>1, <2>1, ItemIsRead
    <2> QED
      BY <2>2, <2>3
  <1>2. Both(Start(buf), 1)
    BY SpeltStart
  <1> HIDE DEF Both
  <1>3. S = {}
    <2> SUFFICES ASSUME S # {} PROVE FALSE
      OBVIOUS
    <2>1. S \in SUBSET Nat
      OBVIOUS
    <2> HIDE DEF S
    <2>2. PICK k \in S : \A j \in S : k <= j
      BY <2>1, LeastOf
    <2>3. k \in 1..last /\ ~(Found(k) /\ a[k] = b[k])
      BY <2>2 DEF S
    <2>4. Found(k)
      <3>1. CASE k = 1
        BY <1>2, <3>1
      <3>2. CASE k # 1
        <4>1. k - 1 \in 1..last /\ ~(k <= k - 1) /\ k - 1 + 1 = k
          BY <2>3, <3>2
        <4>2. Found(k - 1)
          BY <2>2, <4>1 DEF S
        <4>3. PICK c : Both(c, k - 1)
          BY <4>2
        <4>4. Both(AfterSkip(buf, c), k - 1 + 1)
          BY <1>1, <4>1, <4>3
        <4> QED
          BY <4>1, <4>4
      <3> QED
        BY <3>1, <3>2
    <2>5. a[k] = b[k]
      BY <1>1, <2>3, <2>4
    <2> QED
      BY <2>3, <2>4, <2>5
  <1> QED
    BY <1>3

\* One number is in a head, and one text in a string.
LEMMA ItemAlone ==
  ASSUME NEW item \in Seq(Byte), NEW z, z[1] = item
  PROVE  AtItem(item, z, 1, Start(item), 1)
  <1>1. Spelt(item, z, 1)
    BY SpeltOne
  <1>2. 1 \in Nat
    OBVIOUS
  <1> QED
    BY <1>1, <1>2, SpeltStart

LEMMA HeadOnce ==
  ASSUME NEW major \in {UnsignedInteger, ArrayOpen}, NEW v \in Vast, NEW w \in Vast,
         EncodeHead(major, v) = EncodeHead(major, w)
  PROVE  v = w
  <1> DEFINE buf == EncodeHead(major, v)
             z == [i \in 1..1 |-> buf]
  <1>1. major \in 0..7
    BY DEF UnsignedInteger, ArrayOpen
  <1>2. buf \in Seq(Byte)
    BY <1>1, HeadBytes
  <1>3. z[1] = buf
    OBVIOUS
  <1>4. buf = EncodeHead(major, w)
    OBVIOUS
  <1> HIDE DEF buf, z
  <1>5. AtItem(buf, z, 1, Start(buf), 1)
    BY <1>2, <1>3, ItemAlone
  <1>6. 1 \in 1..1 /\ z[1] = EncodeHead(major, v) /\ z[1] = EncodeHead(major, w)
    BY <1>3, <1>4 DEF buf
  <1>7. Argument(buf, Start(buf)) = v
    BY <1>2, <1>5, <1>6, HeadItem
  <1>8. Argument(buf, Start(buf)) = w
    BY <1>2, <1>5, <1>6, HeadItem
  <1> QED
    BY <1>7, <1>8

LEMMA StringOnce ==
  ASSUME NEW major \in {ByteString, TextString}, NEW s \in Seq(Byte), NEW t \in Seq(Byte),
         Len(s) < 65536, Len(t) < 65536, EncodeString(major, s) = EncodeString(major, t)
  PROVE  s = t
  <1> DEFINE buf == EncodeString(major, s)
             z == [i \in 1..1 |-> buf]
  <1>1. major \in 0..7
    BY DEF ByteString, TextString
  <1>2. buf \in Seq(Byte)
    BY <1>1, StringBytes
  <1>3. z[1] = buf
    OBVIOUS
  <1>4. buf = EncodeString(major, t)
    OBVIOUS
  <1> HIDE DEF buf, z
  <1>5. AtItem(buf, z, 1, Start(buf), 1)
    BY <1>2, <1>3, ItemAlone
  <1>6. 1 \in 1..1 /\ z[1] = EncodeString(major, s) /\ z[1] = EncodeString(major, t)
    BY <1>3, <1>4 DEF buf
  <1>7. TextValue(buf, Start(buf)) = s
    BY <1>2, <1>5, <1>6, StringIsRead
  <1>8. TextValue(buf, Start(buf)) = t
    BY <1>2, <1>5, <1>6, StringIsRead
  <1> QED
    BY <1>7, <1>8

\* Every item of a message before its HMAC is coded.
LEMMA IntegerCoded == ASSUME NEW v \in Vast PROVE Coded(EncodeInteger(v))
  BY IntegerBytes DEF Coded, IsHead, EncodeInteger

LEMMA StringCoded ==
  ASSUME NEW s \in Seq(Byte), Len(s) < 65536
  PROVE  Coded(EncodeText(s)) /\ Coded(EncodeBytes(s))
  BY TextBytes DEF Coded, IsText

LEMMA ArrayCoded == ASSUME NEW n \in 0..23 PROVE Coded(EncodeArrayOpen(n))
  BY ArrayBytes DEF Coded, IsHead, EncodeArrayOpen

LEMMA EnvelopeCoded ==
  ASSUME NEW e \in Envelope, NEW from \in Vast, NEW k \in 1..8
  PROVE  Coded(EnvelopeItems(e, from)[k])
  <1>1. Coded(EncodeArrayOpen(9))
    BY ArrayCoded
  <1>2. Coded(EncodeInteger(Small(DTNEX_PROTOCOL_VERSION)))
    <2>1. DTNEX_PROTOCOL_VERSION \in Nat /\ DTNEX_PROTOCOL_VERSION < 65536
      BY Parameters DEF IsSize
    <2> QED
      BY <2>1, SmallNumbers, IntegerCoded
  <1>3. Coded(EncodeText(<<e.kind>>))
    <2> DEFINE kind == <<e.kind>>
    <2>1. kind \in Seq(Byte) /\ Len(kind) < 65536
      BY EnvelopeTypes, KindBytes
    <2> HIDE DEF kind
    <2>2. Coded(EncodeText(kind))
      BY <2>1, StringCoded
    <2> QED
      BY <2>2 DEF kind
  <1>4. /\ Coded(EncodeInteger(e.timestamp)) /\ Coded(EncodeInteger(e.expire))
        /\ Coded(EncodeInteger(e.origin)) /\ Coded(EncodeInteger(from))
    BY EnvelopeTypes, IntegerCoded
  <1>5. Coded(EncodeBytes(e.nonce))
    BY EnvelopeTypes, StringCoded
  <1>6. k = 1 \/ k = 2 \/ k = 3 \/ k = 4 \/ k = 5 \/ k = 6 \/ k = 7 \/ k = 8
    OBVIOUS
  <1> QED
    BY <1>1, <1>2, <1>3, <1>4, <1>5, <1>6 DEF EnvelopeItems

LEMMA FieldCoded ==
  ASSUME NEW m, IsMessage(m), NEW j \in 1..Len(LayoutOf(m))
  PROVE  Coded(FieldItem(m, LayoutOf(m)[j]))
  <1> PICK f : f = LayoutOf(m)[j]
    OBVIOUS
  <1>1. /\ f \in Texts => m.fields[f] \in Text /\ Len(m.fields[f]) <= Limit(f) - 1
        /\ f \notin Texts => m.fields[f] \in Vast
    BY LayoutFields
  <1>2. CASE f \in Texts
    <2>1. m.fields[f] \in Seq(Byte) /\ Len(m.fields[f]) \in Nat
      BY <1>1, <1>2, TextTypes
    <2>2. Limit(f) \in Nat /\ Limit(f) < 65536
      BY Parameters DEF IsSize
    <2>3. Len(m.fields[f]) < 65536
      BY <1>1, <1>2, <2>1, <2>2
    <2>4. Coded(EncodeText(m.fields[f]))
      BY <2>1, <2>3, StringCoded
    <2> QED
      BY <1>2, <2>4 DEF FieldItem
  <1>3. CASE f \notin Texts
    BY <1>1, <1>3, IntegerCoded DEF FieldItem
  <1> QED
    BY <1>2, <1>3

\* What the HMAC is computed over, and its items.
SignedBytes(m, from) ==
  writeCborEnvelope(m.envelope, from) \o Payload(m.envelope.kind, m.fields)

SignedItems(m, from) ==
  [k \in 1..(9 + Len(LayoutOf(m))) |->
     IF k <= 8 THEN EnvelopeItems(m.envelope, from)[k] ELSE DataItems(m)[k - 8]]

LEMMA SignedItemsAre ==
  ASSUME NEW m, IsMessage(m), NEW from \in Vast
  PROVE  /\ Len(LayoutOf(m)) \in 3..7
         /\ \A i \in 1..8 : SignedItems(m, from)[i] = EnvelopeItems(m.envelope, from)[i]
         /\ \A i \in 1..(1 + Len(LayoutOf(m))) : SignedItems(m, from)[8 + i] = DataItems(m)[i]
         /\ SignedItems(m, from)[9] = EncodeArrayOpen(Len(LayoutOf(m)))
         /\ \A j \in 1..Len(LayoutOf(m)) :
              SignedItems(m, from)[9 + j] = FieldItem(m, LayoutOf(m)[j])
  <1> DEFINE x == EnvelopeItems(m.envelope, from)
             y == DataItems(m)
             n == Len(LayoutOf(m))
             z == SignedItems(m, from)
             F(j) == FieldItem(m, LayoutOf(m)[j])
  <1>1. n \in 3..7
    BY DataSpelt
  <1>2. z = [k \in 1..(9 + n) |-> IF k <= 8 THEN x[k] ELSE y[k - 8]]
    BY DEF SignedItems
  <1>3. y = [k \in 1..(1 + n) |-> IF k = 1 THEN EncodeArrayOpen(n) ELSE F(k - 1)]
    BY DEF DataItems
  <1> HIDE DEF x, y, n, z, F
  <1>4. \A i \in 1..8 : z[i] = x[i]
    <2> SUFFICES ASSUME NEW i \in 1..8 PROVE z[i] = x[i]
      OBVIOUS
    <2>1. i \in 1..(9 + n)
      BY <1>1
    <2> QED
      BY <1>2, <2>1
  <1>5. ASSUME NEW i \in 1..(1 + n) PROVE z[8 + i] = y[i]
    <2>1. 8 + i \in 1..(9 + n) /\ ~(8 + i <= 8) /\ 8 + i - 8 = i
      BY <1>1
    <2> QED
      BY <1>2, <2>1
  <1>6. z[9] = EncodeArrayOpen(n)
    <2>1. 1 \in 1..(1 + n) /\ 8 + 1 = 9
      BY <1>1
    <2> QED
      BY <1>3, <1>5, <2>1
  <1>7. ASSUME NEW j \in 1..n PROVE z[9 + j] = F(j)
    <2>1. j + 1 \in 1..(1 + n) /\ 8 + (j + 1) = 9 + j /\ j + 1 # 1 /\ j + 1 - 1 = j
      BY <1>1
    <2>2. z[9 + j] = y[j + 1]
      BY <1>5, <2>1
    <2>3. y[j + 1] = F(j + 1 - 1)
      BY <1>3, <2>1
    <2> QED
      BY <2>1, <2>2, <2>3
  <1> QED
    BY <1>1, <1>4, <1>5, <1>6, <1>7 DEF x, y, n, z, F

LEMMA SignedCoded ==
  ASSUME NEW m, IsMessage(m), NEW from \in Vast, NEW k \in 1..(9 + Len(LayoutOf(m)))
  PROVE  Coded(SignedItems(m, from)[k])
  <1>0. \A i \in 3..7 : i \in 0..23
    OBVIOUS
  <1> PICK n \in 3..7 : n = Len(LayoutOf(m))
    BY SignedItemsAre
  <1>1. CASE k <= 8
    <2>1. k \in 1..8
      BY <1>1
    <2>2. Coded(EnvelopeItems(m.envelope, from)[k])
      BY <2>1, MessageTypes, EnvelopeCoded
    <2> QED
      BY <2>1, <2>2, SignedItemsAre
  <1>2. CASE k = 9
    <2>1. n \in 0..23
      BY <1>0
    <2>2. Coded(EncodeArrayOpen(n))
      BY <2>1, ArrayCoded
    <2> QED
      BY <1>2, <2>2, SignedItemsAre
  <1>3. CASE ~(k <= 8) /\ k # 9
    <2> PICK j \in 1..n : k = 9 + j
      <3>1. k - 9 \in 1..n /\ 9 + (k - 9) = k
        BY <1>3
      <3> QED
        BY <3>1
    <2>1. Coded(FieldItem(m, LayoutOf(m)[j]))
      BY FieldCoded
    <2> QED
      BY <2>1, SignedItemsAre
  <1> QED
    BY <1>1, <1>2, <1>3

LEMMA SignedSpelt ==
  ASSUME NEW m, IsMessage(m), NEW from \in Vast
  PROVE  /\ SignedBytes(m, from) \in Seq(Byte)
         /\ Spelt(SignedBytes(m, from), SignedItems(m, from), 9 + Len(LayoutOf(m)))
  <1> DEFINE a == writeCborEnvelope(m.envelope, from)
             b == Payload(m.envelope.kind, m.fields)
             x == EnvelopeItems(m.envelope, from)
             y == DataItems(m)
             n == Len(LayoutOf(m))
             z == SignedItems(m, from)
  <1>1. a \in Seq(Byte) /\ Spelt(a, x, 8) /\ \A i \in 1..8 : x[i] \in Seq(Byte)
    BY MessageTypes, EnvelopeSpelt
  <1>2. /\ n \in 3..7 /\ b \in Seq(Byte) /\ Spelt(b, y, 1 + n)
        /\ \A i \in 1..(1 + n) : y[i] \in Seq(Byte)
    BY DataSpelt
  <1>3. \A i \in 1..8 : z[i] = x[i]
    BY SignedItemsAre
  <1>4. \A i \in 1..(1 + n) : z[8 + i] = y[i]
    BY SignedItemsAre
  <1>5. SignedBytes(m, from) = a \o b
    BY DEF SignedBytes
  <1> HIDE DEF a, b, x, y, z, n
  <1>6. 8 \in Nat /\ 1 + n \in Nat /\ 8 + (1 + n) = 9 + n
    BY <1>2
  <1>7. Spelt(a \o b, z, 8 + (1 + n))
    BY <1>1, <1>2, <1>3, <1>4, <1>6, SpeltJoined
  <1>8. a \o b \in Seq(Byte)
    BY <1>1, <1>2, BytesAssociate
  <1> QED
    BY <1>5, <1>6, <1>7, <1>8 DEF z, n

LEMMA IntegerOnce ==
  ASSUME NEW v \in Vast, NEW w \in Vast, EncodeInteger(v) = EncodeInteger(w)
  PROVE  v = w
  BY HeadOnce DEF EncodeInteger

LEMMA TextOnce ==
  ASSUME NEW s \in Seq(Byte), NEW t \in Seq(Byte), Len(s) < 65536, Len(t) < 65536
  PROVE  /\ EncodeText(s) = EncodeText(t) => s = t
         /\ EncodeBytes(s) = EncodeBytes(t) => s = t
  <1>1. EncodeString(TextString, s) = EncodeString(TextString, t) => s = t
    BY StringOnce
  <1>2. EncodeString(ByteString, s) = EncodeString(ByteString, t) => s = t
    BY StringOnce
  <1> QED
    BY <1>1, <1>2, TextBytes

LEMMA ArrayOnce ==
  ASSUME NEW n \in 0..23, NEW k \in 0..23, EncodeArrayOpen(n) = EncodeArrayOpen(k)
  PROVE  n = k
  <1>1. Small(n) \in Vast /\ Small(k) \in Vast /\ Info(Small(n)) = n /\ Info(Small(k)) = k
    BY ArrayBytes
  <1>2. EncodeHead(ArrayOpen, Small(n)) = EncodeHead(ArrayOpen, Small(k))
    BY DEF EncodeArrayOpen
  <1>3. Small(n) = Small(k)
    BY <1>1, <1>2, HeadOnce
  <1> QED
    BY <1>1, <1>3

LEMMA EnvelopeOnce ==
  ASSUME NEW e \in Envelope, NEW d \in Envelope, NEW from \in Vast, NEW relay \in Vast,
         \A k \in 1..8 : EnvelopeItems(e, from)[k] = EnvelopeItems(d, relay)[k]
  PROVE  e = d /\ from = relay
  <1>1. EncodeText(<<e.kind>>) = EncodeText(<<d.kind>>)
    <2>1. EnvelopeItems(e, from)[3] = EnvelopeItems(d, relay)[3]
      OBVIOUS
    <2> QED
      BY <2>1 DEF EnvelopeItems
  <1>2. EncodeInteger(e.timestamp) = EncodeInteger(d.timestamp)
    <2>1. EnvelopeItems(e, from)[4] = EnvelopeItems(d, relay)[4]
      OBVIOUS
    <2> QED
      BY <2>1 DEF EnvelopeItems
  <1>3. EncodeInteger(e.expire) = EncodeInteger(d.expire)
    <2>1. EnvelopeItems(e, from)[5] = EnvelopeItems(d, relay)[5]
      OBVIOUS
    <2> QED
      BY <2>1 DEF EnvelopeItems
  <1>4. EncodeInteger(e.origin) = EncodeInteger(d.origin)
    <2>1. EnvelopeItems(e, from)[6] = EnvelopeItems(d, relay)[6]
      OBVIOUS
    <2> QED
      BY <2>1 DEF EnvelopeItems
  <1>5. EncodeInteger(from) = EncodeInteger(relay)
    <2>1. EnvelopeItems(e, from)[7] = EnvelopeItems(d, relay)[7]
      OBVIOUS
    <2> QED
      BY <2>1 DEF EnvelopeItems
  <1>6. EncodeBytes(e.nonce) = EncodeBytes(d.nonce)
    <2>1. EnvelopeItems(e, from)[8] = EnvelopeItems(d, relay)[8]
      OBVIOUS
    <2> QED
      BY <2>1 DEF EnvelopeItems
  <1>7. e.kind = d.kind
    <2> DEFINE s == <<e.kind>>
               t == <<d.kind>>
    <2>1. /\ s \in Seq(Byte) /\ Len(s) < 65536 /\ t \in Seq(Byte) /\ Len(t) < 65536
      BY EnvelopeTypes, KindBytes
    <2>2. EncodeText(s) = EncodeText(t)
      BY <1>1
    <2> HIDE DEF s, t
    <2>3. s = t
      BY <2>1, <2>2, TextOnce
    <2> QED
      BY <2>3 DEF s, t
  <1>8. e.timestamp = d.timestamp /\ e.expire = d.expire /\ e.origin = d.origin /\ from = relay
    BY <1>2, <1>3, <1>4, <1>5, EnvelopeTypes, IntegerOnce
  <1>9. e.nonce = d.nonce
    BY <1>6, EnvelopeTypes, TextOnce
  <1>10. e = d
    BY <1>7, <1>8, <1>9 DEF Envelope
  <1> QED
    BY <1>8, <1>10

\* The number of its fields tells the layout of a message of a kind.
LEMMA MetadataCount ==
  ASSUME NEW m, m.envelope.kind = MetadataType
  PROVE  Len(LayoutOf(m)) = IF HasLocation(m.fields) THEN IF HasGPS(m.fields) THEN 6 ELSE 4
                            ELSE IF HasGPS(m.fields) THEN 5 ELSE 3
  BY KindsDiffer DEF LayoutOf

LEMMA LayoutOnce ==
  ASSUME NEW m, IsMessage(m), NEW l, m.envelope.kind = l.envelope.kind,
         Len(LayoutOf(m)) = Len(LayoutOf(l))
  PROVE  /\ LayoutOf(m) = LayoutOf(l)
         /\ m.envelope.kind = MetadataType =>
              /\ HasLocation(m.fields) <=> HasLocation(l.fields)
              /\ HasGPS(m.fields) <=> HasGPS(l.fields)
  <1>1. m.envelope.kind \in {ContactType, RangeType, MetadataType}
    BY MessageTypes DEF Kinds
  <1>2. CASE m.envelope.kind = ContactType \/ m.envelope.kind = RangeType
    BY <1>2, KindsDiffer DEF LayoutOf
  <1>3. CASE m.envelope.kind = MetadataType
    <2>1. Len(LayoutOf(m)) = IF HasLocation(m.fields) THEN IF HasGPS(m.fields) THEN 6 ELSE 4
                             ELSE IF HasGPS(m.fields) THEN 5 ELSE 3
      BY <1>3, MetadataCount
    <2>2. Len(LayoutOf(l)) = IF HasLocation(l.fields) THEN IF HasGPS(l.fields) THEN 6 ELSE 4
                             ELSE IF HasGPS(l.fields) THEN 5 ELSE 3
      BY <1>3, MetadataCount
    <2>3. /\ HasLocation(m.fields) <=> HasLocation(l.fields)
          /\ HasGPS(m.fields) <=> HasGPS(l.fields)
      <3>1. 6 # 5 /\ 6 # 4 /\ 6 # 3 /\ 5 # 4 /\ 5 # 3 /\ 4 # 3
        OBVIOUS
      <3>2. Len(LayoutOf(m)) = Len(LayoutOf(l))
        OBVIOUS
      <3> QED
        BY <2>1, <2>2, <3>1, <3>2, Zenon
    <2> QED
      BY <1>3, <2>3, KindsDiffer DEF LayoutOf
  <1> QED
    BY <1>1, <1>2, <1>3

LEMMA FieldOnce ==
  ASSUME NEW m, IsMessage(m), NEW l, IsMessage(l), LayoutOf(m) = LayoutOf(l),
         NEW j \in 1..Len(LayoutOf(m)), NEW f, f = LayoutOf(m)[j],
         FieldItem(m, f) = FieldItem(l, f)
  PROVE  m.fields[f] = l.fields[f]
  <1>1. /\ f \in Texts => m.fields[f] \in Text /\ Len(m.fields[f]) <= Limit(f) - 1
        /\ f \notin Texts => m.fields[f] \in Vast
    BY LayoutFields
  <1>2. /\ f \in Texts => l.fields[f] \in Text /\ Len(l.fields[f]) <= Limit(f) - 1
        /\ f \notin Texts => l.fields[f] \in Vast
    <2>1. j \in 1..Len(LayoutOf(l)) /\ f = LayoutOf(l)[j]
      OBVIOUS
    <2> QED
      BY <2>1, LayoutFields
  <1>3. CASE f \in Texts
    <2> PICK s : s = m.fields[f]
      OBVIOUS
    <2> PICK t : t = l.fields[f]
      OBVIOUS
    <2>1. s \in Seq(Byte) /\ Len(s) \in Nat /\ t \in Seq(Byte) /\ Len(t) \in Nat
      BY <1>1, <1>2, <1>3, TextTypes
    <2>2. Limit(f) \in Nat /\ Limit(f) < 65536
      BY Parameters DEF IsSize
    <2>3. Len(s) < 65536 /\ Len(t) < 65536
      BY <1>1, <1>2, <1>3, <2>1, <2>2
    <2>4. EncodeText(s) = EncodeText(t)
      BY <1>3 DEF FieldItem
    <2> QED
      BY <2>1, <2>3, <2>4, TextOnce
  <1>4. CASE f \notin Texts
    BY <1>1, <1>2, <1>4, IntegerOnce DEF FieldItem
  <1> QED
    BY <1>3, <1>4

LEMMA FieldsOnce ==
  ASSUME NEW m, IsMessage(m), NEW l, IsMessage(l), m.envelope.kind = l.envelope.kind,
         LayoutOf(m) = LayoutOf(l),
         m.envelope.kind = MetadataType => /\ HasLocation(m.fields) <=> HasLocation(l.fields)
                                           /\ HasGPS(m.fields) <=> HasGPS(l.fields),
         \A f \in NamesOf(m) : m.fields[f] = l.fields[f]
  PROVE  PassedFields(m) = PassedFields(l)
  <1>1. m.envelope.kind \in {ContactType, RangeType, MetadataType}
    BY MessageTypes DEF Kinds
  <1>2. CASE m.envelope.kind = ContactType
    <2>1. LayoutOf(m) = <<"regionNbr", "fromNode", "toNode", "fromTime", "toTime", "xmitRate",
                          "confidence">>
      BY <1>2 DEF LayoutOf
    <2>2. NamesOf(m) = {"regionNbr", "fromNode", "toNode", "fromTime", "toTime", "xmitRate",
                        "confidence"}
      BY <2>1 DEF NamesOf
    <2>3. m.fields \in ContactFields /\ l.fields \in ContactFields
      BY <1>2, MessageTypes, ContactTypes
    <2>4. m.fields = l.fields
      BY <2>2, <2>3 DEF ContactFields
    <2> QED
      BY <1>2, <2>4, KindsDiffer DEF PassedFields
  <1>3. CASE m.envelope.kind = RangeType
    <2>1. LayoutOf(m) = <<"fromNode", "toNode", "fromTime", "toTime", "owlt">>
      BY <1>3, KindsDiffer DEF LayoutOf
    <2>2. NamesOf(m) = {"fromNode", "toNode", "fromTime", "toTime", "owlt"}
      BY <2>1 DEF NamesOf
    <2>3. m.fields \in RangeFields /\ l.fields \in RangeFields
      BY <1>3, MessageTypes, RangeTypes
    <2>4. m.fields = l.fields
      BY <2>2, <2>3 DEF RangeFields
    <2> QED
      BY <1>3, <2>4, KindsDiffer DEF PassedFields
  <1>4. CASE m.envelope.kind = MetadataType
    <2> DEFINE a == m.fields
               b == l.fields
    <2>1. a \in MetadataFields /\ b \in MetadataFields
      <3>1. m.fields \in MetadataRecord /\ l.fields \in MetadataRecord
        BY <1>4, MessageTypes
      <3> QED
        BY <3>1, MetadataTypes
    <2>2. a.nodeId = b.nodeId /\ a.name = b.name /\ a.contact = b.contact
      BY <1>4, MetadataNames
    <2>3. a.location = b.location
      <3>1. CASE HasLocation(a)
        BY <1>4, <3>1, MetadataNames
      <3>2. CASE ~HasLocation(a)
        BY <1>4, <3>2 DEF HasLocation
      <3> QED
        BY <3>1, <3>2
    <2>4. CASE HasGPS(a)
      <3>1. a.latitude = b.latitude /\ a.longitude = b.longitude
        BY <1>4, <2>4, MetadataNames
      <3>2. a = b
        <4> HIDE DEF a, b
        <4> QED
          BY <2>1, <2>2, <2>3, <3>1 DEF MetadataFields
      <3> QED
        BY <1>4, <2>4, <3>2 DEF PassedFields
    <2>5. CASE ~HasGPS(a)
      <3>1. /\ PassedFields(m) = [a EXCEPT !.latitude = Zero, !.longitude = Zero]
            /\ PassedFields(l) = [b EXCEPT !.latitude = Zero, !.longitude = Zero]
        BY <1>4, <2>5 DEF PassedFields
      <3> HIDE DEF a, b
      <3>2. [a EXCEPT !.latitude = Zero, !.longitude = Zero]
              = [b EXCEPT !.latitude = Zero, !.longitude = Zero]
        BY <2>1, <2>2, <2>3 DEF MetadataFields
      <3> QED
        BY <3>1, <3>2
    <2> QED
      BY <2>4, <2>5
  <1> QED
    BY <1>1, <1>2, <1>3, <1>4

\* The bytes that writeCborEnvelope and encodeCbor*Message hand to the HMAC are those of
\* one announcement from one sender: two records, or two envelopes, never share a
\* signature, since no item is taken for another and no text runs over into the next.
\* The one thing the bytes leave open is a position with a coordinate zero, which none
\* of them carries.
THEOREM SignatureVouchesForOne ==
  ASSUME NEW m, IsMessage(m), NEW l, IsMessage(l), NEW from \in Vast, NEW relay \in Vast,
         SignedBytes(m, from) = SignedBytes(l, relay)
  PROVE  Passed(m) = Passed(l) /\ from = relay
  <1> DEFINE x == SignedItems(m, from)
             y == SignedItems(l, relay)
             n == Len(LayoutOf(m))
             k == Len(LayoutOf(l))
             buf == SignedBytes(m, from)
  <1>1. /\ n \in 3..7 /\ k \in 3..7 /\ buf \in Seq(Byte)
        /\ Spelt(buf, x, 9 + n) /\ Spelt(buf, y, 9 + k)
    BY SignedItemsAre, SignedSpelt
  <1>2. /\ \A i \in 1..(9 + n) : Coded(x[i])
        /\ \A i \in 1..(9 + k) : Coded(y[i])
    BY SignedCoded
  <1>3. ASSUME NEW last \in Nat, last <= 9 + n, last <= 9 + k
        PROVE  \A i \in 1..last : x[i] = y[i]
    <2> HIDE DEF x, y, n, k, buf
    <2>1. 9 + n \in Nat /\ 9 + k \in Nat
      BY <1>1
    <2>2. \A i \in 1..last : Coded(x[i]) /\ Coded(y[i])
      BY <1>1, <1>2, <1>3
    <2> QED
      BY <1>1, <1>3, <2>1, <2>2, SameItems
  <1>4. \A i \in 1..9 : x[i] = y[i]
    <2>1. 9 \in Nat /\ 9 <= 9 + n /\ 9 <= 9 + k
      BY <1>1
    <2> QED
      BY <1>3, <2>1
  <1>5. m.envelope = l.envelope /\ from = relay
    <2>1. \A i \in 1..8 : EnvelopeItems(m.envelope, from)[i]
                            = EnvelopeItems(l.envelope, relay)[i]
      BY <1>4, SignedItemsAre
    <2> QED
      BY <2>1, MessageTypes, EnvelopeOnce
  <1>6. n = k
    <2>1. EncodeArrayOpen(n) = EncodeArrayOpen(k)
      BY <1>4, SignedItemsAre
    <2>2. n \in 0..23 /\ k \in 0..23
      BY <1>1
    <2> QED
      BY <2>1, <2>2, ArrayOnce
  <1>7. /\ LayoutOf(m) = LayoutOf(l)
        /\ m.envelope.kind = MetadataType => /\ HasLocation(m.fields) <=> HasLocation(l.fields)
                                             /\ HasGPS(m.fields) <=> HasGPS(l.fields)
    BY <1>5, <1>6, LayoutOnce
  <1>8. \A j \in 1..n : x[9 + j] = y[9 + j]
    <2>1. 9 + n \in Nat /\ 9 + n <= 9 + n /\ 9 + n <= 9 + k
      BY <1>1, <1>6
    <2>2. \A i \in 1..(9 + n) : x[i] = y[i]
      BY <1>3, <2>1
    <2>3. \A j \in 1..n : 9 + j \in 1..(9 + n)
      BY <1>1
    <2> QED
      BY <2>2, <2>3
  <1>9. ASSUME NEW f \in NamesOf(m) PROVE m.fields[f] = l.fields[f]
    <2> PICK j \in 1..n : f = LayoutOf(m)[j]
      BY DEF NamesOf
    <2>1. FieldItem(m, f) = FieldItem(l, f)
      <3>1. x[9 + j] = FieldItem(m, LayoutOf(m)[j]) /\ y[9 + j] = FieldItem(l, LayoutOf(l)[j])
        BY <1>6, SignedItemsAre
      <3> QED
        BY <1>7, <1>8, <3>1
    <2> QED
      BY <1>7, <2>1, FieldOnce
  <1>10. PassedFields(m) = PassedFields(l)
    <2>1. m.envelope.kind = l.envelope.kind
      BY <1>5
    <2> QED
      BY <1>7, <1>9, <2>1, FieldsOnce
  <1> QED
    BY <1>5, <1>10 DEF Passed
=============================================================================
