------------------------------- MODULE MCWire -------------------------------
(* Instance of Wire for TLC: a chain of four nodes with numbers of all widths,
   the numbers and texts at which an encoding changes its form, and bundles cut
   short, altered, or written by older releases. *)
EXTENDS Wire, FiniteSets

\* The bytes of a number, most significant first, filled to eight.
Num(s) == [i \in 1..8 |-> IF i <= 8 - Len(s) THEN 0 ELSE s[i - 8 + Len(s)]]
Minus(s) == [i \in 1..8 |-> IF i <= 8 - Len(s) THEN 255 ELSE s[i - 8 + Len(s)]]
Str(n) == [i \in 1..n |-> 65 + (n % 26)]

Wide == Num(<<200, 0, 0, 0, 1>>)
MCChain == <<Wide, Small(300), Num(<<1, 2, 3, 4, 5, 6, 7, 8>>), Small(70)>>
MCOwn == MCChain[2]
MCNow == Num(<<105, 0, 0, 0>>)
Soon == Num(<<105, 0, 2, 0>>)
Past == Num(<<104, 255, 255, 255>>)
PosixMax == Num(<<127, 255, 255, 255>>)
UIntMax == Num(<<255, 255, 255, 255>>)

\* A checksum that tells the bundles of the instance apart: each byte weighted by
\* its place, summed by halves.
MCHmac(key, bytes) ==
  LET n == Len(bytes)
      sum[lo \in 1..n, hi \in 1..n] ==
        IF lo = hi THEN ((bytes[lo] + 1) * (lo * lo + 31)) % 65521
        ELSE (sum[lo, (lo + hi) \div 2] + sum[(lo + hi) \div 2 + 1, hi]) % 65521
      s == (sum[1, n] + key) % 65521
  IN <<1, s % 256, s \div 256, 7, (3 * s) % 256, 5, 9, key % 256>>

Edge == {Zero, Small(23), Small(24), Small(255), Small(256), Small(65535),
         Num(<<1, 0, 0>>), UIntMax}

ContactOf(region, to, rate) ==
  [kind |-> ContactType,
   fields |-> [regionNbr |-> region, fromNode |-> MCChain[1], toNode |-> to, fromTime |-> Zero,
               toTime |-> PosixMax, xmitRate |-> rate, confidence |-> Small(100)]]

RangeOf(owlt, until) ==
  [kind |-> RangeType,
   fields |-> [fromNode |-> MCChain[1], toNode |-> MCOwn, fromTime |-> MCNow, toTime |-> until,
               owlt |-> owlt]]

North == Num(<<2, 189, 231, 128>>)
East == Num(<<200, 1>>)
South == Minus(<<255, 0, 10>>)
West == Minus(<<128, 7, 0, 24>>)

MetadataOf(raw, lat, lon) ==
  [kind |-> MetadataType, expire |-> Soon, nodemetadata |-> raw, latitude |-> lat, longitude |-> lon]

MCLater == {MetadataOf(<<Str(3), Str(4)>>, Zero, Zero), RangeOf(Small(1), Soon)}

MCAnnounced ==
  {ContactOf(e, Small(300), UIntMax) : e \in Edge}
    \cup {ContactOf(Small(1), Wide, Num(<<1, 0, 0, 0, 0>>))}
    \cup {RangeOf(e, PosixMax) : e \in {Zero, Small(24), UIntMax}} \cup {RangeOf(Small(1), Past)}
    \cup {MetadataOf(<<Str(5), Str(6), Str(7)>>, lat, lon) :
            lat \in {Zero, North, South}, lon \in {Zero, East, West}}
    \cup {MetadataOf(raw, South, West) :
            raw \in {<<Str(24), Str(25), Str(1)>>, <<Str(24), Str(26), Str(1)>>,
                     <<Str(62), Str(1)>>, <<Str(63), Str(1)>>, <<Str(1), Str(130)>>,
                     <<Str(2), <<>>, Str(9)>>, <<Str(2), <<Blank, 66>>, <<Blank>>>>}}
    \cup MCLater

\* Bundles built item by item: the envelope of an announcement, any data.
EnvelopeBytes(kind, expire, n) ==
  writeCborEnvelope([kind |-> kind, timestamp |-> MCNow, expire |-> expire,
                     origin |-> MCChain[1], nonce |-> n], MCChain[1])

Signed(bytes) == [bytes |-> bytes \o EncodeBytes(MCHmac(Key, bytes)), signed |-> TRUE]
Foreign(bytes) == [bytes |-> bytes \o EncodeBytes(MCHmac(Key + 1, bytes)), signed |-> FALSE]

Draw(n) == [i \in 1..DTNEX_NONCE_SIZE |-> n]
MCNonce == {Draw(0), Draw(255)}

Data(items) == EnvelopeBytes(MetadataType, Soon, Draw(7)) \o items

Older ==
  {EncodeArrayOpen(2) \o EncodeText(Str(5)) \o EncodeText(Str(6))}
    \cup {EncodeArrayOpen(4) \o EncodeText(Str(5)) \o EncodeText(Str(6)) \o EncodeInteger(lat)
            \o EncodeInteger(lon) : lat \in {Zero, South}, lon \in {Zero, East}}

\* Data that are signed and of no use: too long, of another type or size, nested.
Odd ==
  {EncodeArrayOpen(3) \o EncodeInteger(Small(5)) \o EncodeText(Str(64)) \o EncodeText(Str(6)),
   EncodeArrayOpen(3) \o EncodeText(Str(5)) \o EncodeText(Str(6)) \o EncodeText(Str(7)),
   EncodeArrayOpen(3) \o EncodeInteger(Small(5)) \o EncodeText(<<65, 0, 66>>) \o EncodeText(<<>>),
   EncodeArrayOpen(1) \o EncodeText(Str(300)),
   EncodeArrayOpen(0),
   EncodeArrayOpen(2) \o EncodeArrayOpen(4) \o EncodeInteger(Small(9)),
   EncodeArrayOpen(30) \o EncodeInteger(Small(9))}

Whole == Signed(EnvelopeBytes(ContactType, PosixMax, Draw(7))
                  \o ContactPayload(ContactOf(Small(24), Small(300), UIntMax).fields)).bytes
Texted == Signed(Data(EncodeArrayOpen(6) \o EncodeInteger(MCChain[1]) \o EncodeText(Str(5))
                  \o EncodeText(Str(25)) \o EncodeText(Str(7)) \o EncodeInteger(North)
                  \o EncodeInteger(West))).bytes

Damaged(bytes) ==
  {[bytes |-> SubSeq(bytes, 1, n), signed |-> FALSE] : n \in 0..(Len(bytes) - 1)}
    \cup {[bytes |-> [bytes EXCEPT ![i] = b], signed |-> b = bytes[i]] :
            i \in 1..Len(bytes), b \in {1, 26, 91, 120, 155}}

MCStray ==
  {Signed(Data(d)) : d \in Older \cup Odd} \cup {Foreign(Data(d)) : d \in Older}
    \cup {Signed(EnvelopeBytes(k, Soon, Draw(7)) \o EncodeArrayOpen(5)) : k \in {1, ContactType}}
    \cup Damaged(Whole) \cup Damaged(Texted)

MCOwnText == <<"own">>
=============================================================================
