---------------------------- MODULE CommonProofs ----------------------------
(***************************************************************************)
(* Proofs about the two modules that others are made of.  Of Cbor: what    *)
(* its items do to a cursor, for any buffer, that the reader takes back    *)
(* what the encoder wrote, for every number of 64 bits and every text of   *)
(* up to 65535 bytes, and how a buffer made of items is read, one by one.  *)
(* Of MetadataTable: what two threads that write the address book keep.    *)
(***************************************************************************)
EXTENDS Cbor, MetadataTable, SequenceTheorems, WellFoundedInduction, TLAPS

\* A set of numbers that is not empty has a least one.
LEMMA LeastOf ==
  ASSUME NEW S \in SUBSET Nat, S # {}
  PROVE  \E x \in S : \A y \in S : x <= y
  <1> DEFINE R == {ss \in Nat \X Nat : ss[1] < ss[2]}
  <1>1. IsWellFoundedOn(R, Nat)
    BY NatLessThanWellFounded, Zenon DEF OpToRel
  <1> HIDE DEF R
  <1>2. PICK x \in S : \A y \in S : ~(<<y, x>> \in R)
    BY <1>1, WFMin
  <1>3. \A y \in S : x <= y
    <2> SUFFICES ASSUME NEW y \in S PROVE x <= y
      OBVIOUS
    <2>1. ~(y < x)
      BY <1>2 DEF R
    <2> QED
      BY <2>1
  <1> QED
    BY <1>3

-----------------------------------------------------------------------------
(* Items.                                                                  *)

\* The cursor and the count of the bytes left belong together and to the buffer.
InBuffer(buf, c) ==
  /\ c = [at |-> c.at, left |-> c.left]
  /\ c.at \in Nat /\ c.at >= 1 /\ c.left \in Nat
  /\ c.at + c.left = Len(buf) + 1

LEMMA StartInBuffer ==
  ASSUME NEW buf \in Seq(Byte)
  PROVE  InBuffer(buf, Start(buf))
  BY DEF InBuffer, Start

LEMMA AdvanceInBuffer ==
  ASSUME NEW buf \in Seq(Byte), NEW c, InBuffer(buf, c), NEW n \in Nat, n <= c.left
  PROVE  InBuffer(buf, Advance(c, n))
  <1>1. Len(buf) \in Nat /\ c.at \in Nat /\ c.left \in Nat
    BY DEF InBuffer
  <1>2. Advance(c, n) = [at |-> c.at + n, left |-> c.left - n]
    BY DEF Advance
  <1>3. Advance(c, n).at = c.at + n /\ Advance(c, n).left = c.left - n
    BY <1>2
  <1> QED
    BY <1>1, <1>2, <1>3 DEF InBuffer

LEMMA FollowsTypes == \A info : Follows(info) \in {0, 1, 2, 4, 8}
  BY DEF Follows

\* The low bytes of a number.
LEMMA LowBytes ==
  ASSUME NEW v \in Vast
  PROVE  v[5] \in Nat /\ v[6] \in Nat /\ v[7] \in Nat /\ v[8] \in Nat
  BY DEF Vast, Byte

LEMMA LowNumber ==
  ASSUME NEW v \in Vast
  PROVE  ((v[5] * 256 + v[6]) * 256 + v[7]) * 256 + v[8] \in Nat
  <1>1. \A x, y \in Nat : x * 256 + y \in Nat
    OBVIOUS
  <1> QED
    BY <1>1, LowBytes

LEMMA ByteParts == \A b \in Byte : b \div 32 \in 0..7 /\ b % 32 \in 0..31
  <1> SUFFICES ASSUME NEW b \in 0..255 PROVE b \div 32 \in 0..7 /\ b % 32 \in 0..31
    BY DEF Byte
  <1>1. b \div 32 \in 0..7
    BY SMT
  <1>2. b % 32 \in 0..31
    BY SMT
  <1> QED
    BY <1>1, <1>2

\* The byte a cursor with something left stands on.
LEMMA FirstByte ==
  ASSUME NEW buf \in Seq(Byte), NEW c, InBuffer(buf, c), c.left >= 1
  PROVE  buf[c.at] \in Byte /\ MajorAt(buf, c) \in 0..7 /\ InfoAt(buf, c) \in 0..31
  <1>1. c.at \in 1..Len(buf)
    BY DEF InBuffer
  <1>2. buf[c.at] \in Byte
    BY <1>1
  <1> QED
    BY <1>2, ByteParts DEF MajorAt, InfoAt

\* Its argument is a number of 64 bits.
LEMMA ArgumentTypes ==
  ASSUME NEW buf \in Seq(Byte), NEW c, InBuffer(buf, c), c.left >= 1,
         c.left - 1 >= Follows(InfoAt(buf, c))
  PROVE  Argument(buf, c) \in Vast
  <1> DEFINE w == Follows(InfoAt(buf, c))
  <1>1. w \in {0, 1, 2, 4, 8} /\ c.at \in Nat /\ c.left \in Nat /\ Len(buf) \in Nat
    BY FollowsTypes DEF InBuffer
  <1>2. InfoAt(buf, c) \in Byte
    <2>1. InfoAt(buf, c) \in 0..31
      BY FirstByte
    <2> QED
      BY <2>1 DEF Byte
  <1>3. c.at + c.left = Len(buf) + 1 /\ c.at >= 1 /\ c.left - 1 >= w
    BY DEF InBuffer
  <1> HIDE DEF w
  <1>4. ASSUME NEW i \in 1..8, ~(i <= 8 - w)
        PROVE  buf[c.at + w - 8 + i] \in Byte
    <2>1. c.at + w - 8 + i \in 1..Len(buf)
      <3>1. PICK o \in Nat, left \in Nat, W \in 0..8 : o = c.at /\ left = c.left /\ W = w
        BY <1>1
      <3>2. o + left = Len(buf) + 1 /\ o >= 1 /\ left - 1 >= W /\ Len(buf) \in Nat /\ i > 8 - W
        BY <1>1, <1>3, <1>4, <3>1
      <3>3. o + W - 8 + i \in 1..Len(buf)
        BY <3>2
      <3> QED
        BY <3>1, <3>3
    <2> QED
      BY <2>1
  <1>5. 0 \in Byte
    BY DEF Byte
  <1>6. \A i \in 1..8 : (IF w = 0 THEN IF i = 8 THEN InfoAt(buf, c) ELSE 0
                         ELSE IF i <= 8 - w THEN 0 ELSE buf[c.at + w - 8 + i]) \in Byte
    BY <1>2, <1>4, <1>5
  <1> QED
    BY <1>6 DEF Argument, Vast, w

LEMMA AfterHeadInBuffer ==
  ASSUME NEW buf \in Seq(Byte), NEW c, InBuffer(buf, c), c.left >= 1,
         c.left - 1 >= Follows(InfoAt(buf, c))
  PROVE  InBuffer(buf, AfterHead(buf, c))
  <1>1. Follows(InfoAt(buf, c)) \in Nat
    BY FollowsTypes
  <1>2. 1 + Follows(InfoAt(buf, c)) \in Nat /\ 1 + Follows(InfoAt(buf, c)) <= c.left
    BY <1>1 DEF InBuffer
  <1> QED
    BY <1>2, AdvanceInBuffer DEF AfterHead

\* A string's length is a natural number, as far as its argument is there.
LEMMA SkipLengthTypes ==
  ASSUME NEW buf \in Seq(Byte), NEW c, InBuffer(buf, c), c.left >= 1,
         c.left - 1 >= Follows(InfoAt(buf, c))
  PROVE  SkipLength(buf, c) \in Nat
  <1>1. Argument(buf, c) \in Vast
    BY ArgumentTypes
  <1> QED
    BY <1>1, LowNumber DEF SkipLength

\* What skipCborElement accepts, it can step over.
LEMMA AfterSkipInBuffer ==
  ASSUME NEW buf \in Seq(Byte), NEW c, InBuffer(buf, c), Skippable(buf, c)
  PROVE  InBuffer(buf, AfterSkip(buf, c))
  <1>1. c.left >= 1 /\ c.left - 1 >= Follows(InfoAt(buf, c))
        /\ AfterHead(buf, c).left >= SkipLength(buf, c)
    BY DEF Skippable
  <1>2. InBuffer(buf, AfterHead(buf, c)) /\ SkipLength(buf, c) \in Nat
    BY <1>1, AfterHeadInBuffer, SkipLengthTypes
  <1>3. SkipLength(buf, c) <= AfterHead(buf, c).left
    BY <1>1, <1>2 DEF InBuffer
  <1> QED
    BY <1>2, <1>3, AdvanceInBuffer DEF AfterSkip

\* An item that is no string ends with its head.
LEMMA SkipOfHead ==
  ASSUME NEW buf \in Seq(Byte), NEW c, InBuffer(buf, c), NEW major \in 0..7, NEW infos,
         major \notin {ByteString, TextString}, HeadAt(buf, c, major, infos)
  PROVE  AfterSkip(buf, c) = AfterHead(buf, c) /\ InBuffer(buf, AfterHead(buf, c))
  <1>1. InBuffer(buf, AfterHead(buf, c))
    BY AfterHeadInBuffer DEF HeadAt
  <1>2. SkipLength(buf, c) = 0
    BY DEF HeadAt, SkipLength, IsString
  <1>3. AfterHead(buf, c).at + 0 = AfterHead(buf, c).at
        /\ AfterHead(buf, c).left - 0 = AfterHead(buf, c).left
    BY <1>1 DEF InBuffer
  <1>4. AfterSkip(buf, c) = [at |-> AfterHead(buf, c).at, left |-> AfterHead(buf, c).left]
    BY <1>2, <1>3 DEF AfterSkip, Advance
  <1> QED
    BY <1>1, <1>4 DEF InBuffer

\* A short text is stepped over as it is read.
LEMMA SkipOfText ==
  ASSUME NEW buf \in Seq(Byte), NEW c, InBuffer(buf, c), NEW max, TextAt(buf, c, max)
  PROVE  AfterText(buf, c) = AfterSkip(buf, c)
  <1> DEFINE a == Argument(buf, c)
  <1>1. HeadAt(buf, c, TextString, 0..25)
    BY DEF TextAt
  <1>2. c.left >= 1 /\ c.left - 1 >= Follows(InfoAt(buf, c)) /\ IsString(buf, c)
        /\ InfoAt(buf, c) \in 0..25
    BY <1>1 DEF HeadAt, IsString
  <1>3. Follows(InfoAt(buf, c)) \in {0, 1, 2}
    <2>1. \A f \in 0..25 : f # 26 /\ f # 27
      OBVIOUS
    <2>2. InfoAt(buf, c) # 26 /\ InfoAt(buf, c) # 27
      BY <1>2, <2>1
    <2> HIDE DEF a
    <2> QED
      BY <2>2, Zenon DEF Follows
  <1>4. a[5] = 0 /\ a[6] = 0
    <2> DEFINE w == Follows(InfoAt(buf, c))
    <2>1. 5 <= 8 - w /\ 6 <= 8 - w
      BY <1>3
    <2>2. \A i \in 1..8 : a[i] = IF w = 0 THEN IF i = 8 THEN InfoAt(buf, c) ELSE 0
                                 ELSE IF i <= 8 - w THEN 0 ELSE buf[c.at + w - 8 + i]
      BY DEF Argument
    <2> HIDE DEF w, a
    <2>3. 5 \in 1..8 /\ 6 \in 1..8 /\ 5 # 8 /\ 6 # 8
      OBVIOUS
    <2> QED
      BY <2>1, <2>2, <2>3
  <1>5. a[7] \in Nat /\ a[8] \in Nat
    <2>1. Argument(buf, c) \in Vast
      BY <1>2, ArgumentTypes
    <2> QED
      BY <2>1, LowBytes
  <1>6. SkipLength(buf, c) = ((a[5] * 256 + a[6]) * 256 + a[7]) * 256 + a[8]
    BY <1>2 DEF SkipLength
  <1>7. ((0 * 256 + 0) * 256 + a[7]) * 256 + a[8] = a[7] * 256 + a[8]
    BY <1>5
  <1>8. SkipLength(buf, c) = TextLength(buf, c)
    BY <1>4, <1>6, <1>7 DEF TextLength
  <1> QED
    BY <1>8 DEF AfterText, AfterSkip

-----------------------------------------------------------------------------
(* What is written is read.                                                *)

\* The bytes of item stand at the cursor.
StandsAt(buf, c, item) ==
  /\ Len(item) <= c.left
  /\ \A i \in 1..Len(item) : buf[c.at + i - 1] = item[i]

\* The classes of cbor_encode_integer: what lies above the width is zero.
LEMMA WidthHolds ==
  ASSUME NEW v \in Vast
  PROVE  /\ Width(v) \in {0, 1, 2, 4, 8}
         /\ \A i \in 1..8 : i <= 7 /\ i <= 8 - Width(v) => v[i] = 0
         /\ Width(v) = 0 => v[8] \in 0..23
  <1>0. \A i \in 1..8 : v[i] \in 0..255
    BY DEF Vast, Byte
  <1>1. CASE \E i \in 1..4 : v[i] # 0
    <2>1. Width(v) = 8
      BY <1>1 DEF Width
    <2> QED
      BY <2>1
  <1>2. CASE ~(\E i \in 1..4 : v[i] # 0) /\ (v[5] # 0 \/ v[6] # 0)
    <2>1. Width(v) = 4
      BY <1>2 DEF Width
    <2>2. \A i \in 1..8 : i <= 4 => i \in 1..4
      OBVIOUS
    <2> QED
      BY <1>2, <2>1, <2>2
  <1> DEFINE High == v[1] = 0 /\ v[2] = 0 /\ v[3] = 0 /\ v[4] = 0 /\ v[5] = 0 /\ v[6] = 0
  <1>3. CASE ~(\E i \in 1..4 : v[i] # 0) /\ ~(v[5] # 0 \/ v[6] # 0) /\ v[7] # 0
    <2>1. Width(v) = 2
      BY <1>3 DEF Width
    <2>2. High
      BY <1>3
    <2> QED
      BY <2>1, <2>2
  <1>4. CASE ~(\E i \in 1..4 : v[i] # 0) /\ ~(v[5] # 0 \/ v[6] # 0) /\ v[7] = 0 /\ v[8] >= 24
    <2>1. Width(v) = 1
      BY <1>4 DEF Width
    <2>2. High
      BY <1>4
    <2> QED
      BY <1>4, <2>1, <2>2
  <1>5. CASE /\ ~(\E i \in 1..4 : v[i] # 0) /\ ~(v[5] # 0 \/ v[6] # 0)
             /\ v[7] = 0 /\ ~(v[8] >= 24)
    <2>1. Width(v) = 0
      BY <1>5 DEF Width
    <2>2. High
      BY <1>5
    <2>3. v[8] \in 0..23
      BY <1>0, <1>5
    <2> QED
      BY <1>5, <2>1, <2>2, <2>3
  <1> QED
    BY <1>1, <1>2, <1>3, <1>4, <1>5

\* The low bits of the first byte say how many follow.
LEMMA InfoFollows ==
  ASSUME NEW v \in Vast
  PROVE  /\ Info(v) \in 0..27 /\ Follows(Info(v)) = Width(v)
         /\ Width(v) = 0 => Info(v) = v[8]
         /\ Width(v) <= 2 => Info(v) \in 0..25
  <1>1. CASE Width(v) = 8
    BY <1>1 DEF Info, Follows
  <1>2. CASE Width(v) = 4
    BY <1>2 DEF Info, Follows
  <1>3. CASE Width(v) = 2
    BY <1>3 DEF Info, Follows
  <1>4. CASE Width(v) = 1
    BY <1>4 DEF Info, Follows
  <1>5. CASE Width(v) = 0
    <2>1. Info(v) = v[8] /\ v[8] \in 0..23
      BY <1>5, WidthHolds DEF Info
    <2>2. Info(v) # 24 /\ Info(v) # 25 /\ Info(v) # 26 /\ Info(v) # 27
      BY <2>1
    <2>3. Follows(Info(v)) = 0
      BY <2>2 DEF Follows
    <2> QED
      BY <1>5, <2>1, <2>3
  <1> QED
    BY <1>1, <1>2, <1>3, <1>4, <1>5, WidthHolds

LEMMA InitialParts ==
  ASSUME NEW major \in 0..7, NEW info \in 0..31
  PROVE  Initial(major, info) \div 32 = major /\ Initial(major, info) % 32 = info
  <1>1. (major * 32 + info) \div 32 = major
    BY SMT
  <1>2. (major * 32 + info) % 32 = info
    BY SMT
  <1> QED
    BY <1>1, <1>2 DEF Initial

\* A head is read as it was written, whatever its number: manualDecodeCborInteger and
\* the heads of strings and arrays undo cbor_encode_integer's choice among five widths.
THEOREM HeadRoundTrip ==
  ASSUME NEW buf \in Seq(Byte), NEW c, InBuffer(buf, c), NEW major \in 0..7, NEW v \in Vast,
         StandsAt(buf, c, EncodeHead(major, v))
  PROVE  /\ HeadAt(buf, c, major, 0..27) /\ Argument(buf, c) = v
         /\ InfoAt(buf, c) = Info(v)
         /\ AfterHead(buf, c) = Advance(c, Len(EncodeHead(major, v)))
  <1> DEFINE w == Width(v)
             e == EncodeHead(major, v)
  <1>1. w \in {0, 1, 2, 4, 8} /\ Info(v) \in 0..27 /\ Follows(Info(v)) = w
    BY WidthHolds, InfoFollows
  <1>2. e = [i \in 1..(1 + w) |->
               IF i = 1 THEN Initial(major, Info(v)) ELSE v[7 - w + i]]
    BY DEF EncodeHead
  <1>3. 1 + w \in Nat
    BY <1>1
  <1>4. Len(e) = 1 + w
    BY <1>2, <1>3
  <1>5. /\ c.left >= 1 + w /\ c.at \in Nat /\ c.left \in Nat
        /\ \A i \in 1..(1 + w) : buf[c.at + i - 1] = e[i]
    BY <1>4 DEF StandsAt, InBuffer
  <1>6. e[1] = Initial(major, Info(v)) /\ \A i \in 2..(1 + w) : e[i] = v[7 - w + i]
    BY <1>1, <1>2
  <1> HIDE DEF w, e
  <1>7. buf[c.at] = Initial(major, Info(v))
    <2>1. 1 \in 1..(1 + w) /\ c.at + 1 - 1 = c.at
      BY <1>1, <1>5
    <2> QED
      BY <1>5, <1>6, <2>1
  <1>8. MajorAt(buf, c) = major /\ InfoAt(buf, c) = Info(v)
    <2>1. Info(v) \in 0..31
      BY <1>1
    <2> QED
      BY <1>7, <2>1, InitialParts DEF MajorAt, InfoAt
  <1>9. HeadAt(buf, c, major, 0..27)
    <2>1. c.left >= 1 /\ c.left - 1 >= w
      BY <1>1, <1>5
    <2> QED
      BY <1>1, <1>8, <2>1 DEF HeadAt
  <1>10. ASSUME NEW i \in 1..8
         PROVE  (IF w = 0 THEN IF i = 8 THEN Info(v) ELSE 0
                 ELSE IF i <= 8 - w THEN 0 ELSE buf[c.at + w - 8 + i]) = v[i]
    <2>1. CASE w = 0
      <3>1. i # 8 => v[i] = 0
        BY <2>1, WidthHolds DEF w
      <3>2. Info(v) = v[8]
        BY <2>1, InfoFollows DEF w
      <3> QED
        BY <2>1, <3>1, <3>2
    <2>2. CASE w # 0 /\ i <= 8 - w
      <3>1. i <= 7
        BY <1>1, <2>2
      <3>2. v[i] = 0
        BY <2>2, <3>1, WidthHolds DEF w
      <3> QED
        BY <2>2, <3>2
    <2>3. CASE w # 0 /\ ~(i <= 8 - w)
      <3>1. w - 7 + i \in 2..(1 + w)
        BY <1>1, <2>3
      <3>2. c.at + (w - 7 + i) - 1 = c.at + w - 8 + i /\ 7 - w + (w - 7 + i) = i
        <4>1. w \in Int /\ c.at \in Int
          BY <1>1, <1>5
        <4> QED
          BY <4>1
      <3>3. w - 7 + i \in 1..(1 + w)
        BY <1>1, <3>1
      <3>4. buf[c.at + (w - 7 + i) - 1] = v[7 - w + (w - 7 + i)]
        BY <1>5, <1>6, <3>1, <3>3
      <3> QED
        BY <2>3, <3>2, <3>4
    <2> QED
      BY <2>1, <2>2, <2>3
  <1>11. Argument(buf, c) = v
    <2>1. v = [i \in 1..8 |-> v[i]]
      BY DEF Vast
    <2>2. Argument(buf, c) =
            [i \in 1..8 |-> IF w = 0 THEN IF i = 8 THEN Info(v) ELSE 0
                            ELSE IF i <= 8 - w THEN 0 ELSE buf[c.at + w - 8 + i]]
      BY <1>1, <1>8 DEF Argument
    <2> QED
      BY <1>10, <2>1, <2>2
  <1>12. AfterHead(buf, c) = Advance(c, Len(e))
    BY <1>1, <1>4, <1>8 DEF AfterHead
  <1> QED
    BY <1>8, <1>9, <1>11, <1>12 DEF e

\* The lengths of the texts dtnex sends.
LEMMA SmallNumbers ==
  ASSUME NEW n \in Nat, n < 65536
  PROVE  /\ Small(n) \in Vast /\ Width(Small(n)) <= 2
         /\ Small(n)[7] * 256 + Small(n)[8] = n
  <1>1. n \div 256 \in 0..255 /\ n % 256 \in 0..255 /\ (n \div 256) * 256 + (n % 256) = n
    <2>1. n \div 256 \in 0..255
      BY SMT
    <2>2. n % 256 \in 0..255
      BY SMT
    <2>3. (n \div 256) * 256 + (n % 256) = n
      BY SMT
    <2> QED
      BY <2>1, <2>2, <2>3
  <1> DEFINE hi == n \div 256
             lo == n % 256
  <1>2. Small(n) = [i \in 1..8 |-> IF i = 7 THEN hi ELSE IF i = 8 THEN lo ELSE 0]
    BY DEF Small
  <1> HIDE DEF hi, lo
  <1>3. Small(n)[7] = hi /\ Small(n)[8] = lo /\ \A i \in 1..6 : Small(n)[i] = 0
    BY <1>2
  <1>4. Small(n) \in Vast
    BY <1>1, <1>2 DEF Vast, Byte, hi, lo
  <1>5. Width(Small(n)) \in {0, 1, 2}
    <2>1. ~(\E i \in 1..4 : Small(n)[i] # 0) /\ ~(Small(n)[5] # 0 \/ Small(n)[6] # 0)
      BY <1>3
    <2> QED
      BY <2>1 DEF Width
  <1> QED
    BY <1>1, <1>3, <1>4, <1>5 DEF hi, lo

LEMMA FunctionIsSequence ==
  ASSUME NEW n \in Nat, NEW S, NEW f \in [1..n -> S]
  PROVE  f \in Seq(S)
  <1>1. [1..n -> S] \in {[1..m -> S] : m \in Nat}
    OBVIOUS
  <1>2. [1..n -> S] \subseteq UNION {[1..m -> S] : m \in Nat}
    BY <1>1
  <1> QED
    BY <1>2, SeqDef

\* A text is read as it was written, when the member it goes to has room for it and for
\* its final zero: manualDecodeCborString undoes cbor_encode_text_string.
THEOREM TextRoundTrip ==
  ASSUME NEW buf \in Seq(Byte), NEW c, InBuffer(buf, c), NEW s \in Seq(Byte),
         Len(s) < 65536, NEW max \in Nat, Len(s) <= max - 1,
         StandsAt(buf, c, EncodeText(s))
  PROVE  /\ TextAt(buf, c, max) /\ TextValue(buf, c) = s
         /\ AfterText(buf, c) = Advance(c, Len(EncodeText(s)))
  <1> DEFINE v == Small(Len(s))
             h == EncodeHead(TextString, v)
  <1>1. v \in Vast /\ Width(v) <= 2 /\ v[7] * 256 + v[8] = Len(s) /\ TextString \in 0..7
    BY SmallNumbers DEF TextString
  <1>2. /\ Width(v) \in Nat
        /\ h = [i \in 1..(1 + Width(v)) |->
                  IF i = 1 THEN Initial(TextString, Info(v)) ELSE v[7 - Width(v) + i]]
    BY <1>1, WidthHolds DEF EncodeHead
  <1>3. Len(h) = 1 + Width(v) /\ Len(h) \in Nat
    <2>1. 1 + Width(v) \in Nat
      BY <1>2
    <2> QED
      BY <1>2, <2>1
  <1>4. \E S : h \in Seq(S)
    <2> DEFINE n == 1 + Width(v)
               H == {h[i] : i \in 1..n}
    <2>1. h \in [1..n -> H] /\ n \in Nat
      BY <1>2
    <2> HIDE DEF h, H, n
    <2>4. h \in Seq(H)
      BY <2>1, FunctionIsSequence
    <2> QED
      BY <2>4
  <1>5. EncodeText(s) = h \o s
    BY DEF EncodeText
  <1>text. /\ Len(h \o s) <= c.left
           /\ \A i \in 1..Len(h \o s) : buf[c.at + i - 1] = (h \o s)[i]
    <2>1. StandsAt(buf, c, h \o s)
      BY <1>5
    <2> QED
      BY <2>1 DEF StandsAt
  <1> HIDE DEF v, h
  <1>6. PICK S : h \in Seq(S)
    BY <1>4
  <1>7. /\ Len(h \o s) = Len(h) + Len(s)
        /\ \A i \in 1..Len(h) : (h \o s)[i] = h[i]
        /\ \A i \in 1..Len(s) : (h \o s)[Len(h) + i] = s[i]
    <2>1. h \in Seq(S \cup Byte) /\ s \in Seq(S \cup Byte)
      BY <1>6
    <2> QED
      BY <2>1
  <1>8. StandsAt(buf, c, h)
    <2>2. Len(h) \in Nat /\ Len(s) \in Nat /\ c.left \in Nat
      BY <1>6 DEF InBuffer
    <2>3. Len(h) <= c.left /\ \A i \in 1..Len(h) : i \in 1..Len(h \o s)
      BY <1>7, <1>text, <2>2
    <2> QED
      BY <1>7, <1>text, <2>3 DEF StandsAt
  <1>9. /\ HeadAt(buf, c, TextString, 0..27) /\ Argument(buf, c) = v
        /\ InfoAt(buf, c) = Info(v) /\ AfterHead(buf, c) = Advance(c, Len(h))
    BY <1>1, <1>8, HeadRoundTrip DEF h
  <1>10. HeadAt(buf, c, TextString, 0..25)
    BY <1>1, <1>9, InfoFollows DEF HeadAt
  <1>11. TextLength(buf, c) = Len(s)
    BY <1>1, <1>9 DEF TextLength
  <1>12. /\ AfterHead(buf, c).at = c.at + Len(h) /\ AfterHead(buf, c).left = c.left - Len(h)
         /\ c.at \in Nat /\ c.left \in Nat /\ Len(s) \in Nat
         /\ Len(h) + Len(s) <= c.left
    BY <1>5, <1>7, <1>9 DEF Advance, StandsAt, InBuffer
  <1>13. TextAt(buf, c, max)
    <2>1. AfterHead(buf, c).left >= Len(s)
      BY <1>6, <1>12
    <2> QED
      BY <1>10, <1>11, <2>1 DEF TextAt
  <1>14. TextValue(buf, c) = s
    <2>1. ASSUME NEW i \in 1..Len(s)
          PROVE  buf[AfterHead(buf, c).at + i - 1] = s[i]
      <3>1. PICK g \in Nat : g = Len(h)
        BY <1>6
      <3>2. PICK o \in Nat : o = c.at
        BY <1>12
      <3>3. PICK n \in Nat : n = Len(s)
        BY <1>12
      <3>4. PICK k \in Nat : k = g + i
        OBVIOUS
      <3>5. k \in 1..(g + n)
        BY <3>3, <3>4
      <3>6. k \in 1..Len(h \o s)
        BY <1>7, <3>1, <3>3, <3>5
      <3>7. buf[c.at + k - 1] = (h \o s)[k]
        BY <1>text, <3>6
      <3>8. AfterHead(buf, c).at + i - 1 = c.at + k - 1
        <4>1. o + g + i - 1 = o + k - 1
          BY <3>4
        <4> QED
          BY <1>12, <3>1, <3>2, <4>1
      <3>9. (h \o s)[k] = s[i]
        BY <1>7, <3>1, <3>4
      <3> QED
        BY <3>7, <3>8, <3>9
    <2>2. s = [i \in 1..Len(s) |-> s[i]]
      OBVIOUS
    <2> QED
      BY <1>11, <2>1, <2>2 DEF TextValue
  <1>15. AfterText(buf, c) = Advance(c, Len(EncodeText(s)))
    <2>1. c.at + Len(h) + Len(s) = c.at + (Len(h) + Len(s))
          /\ c.left - Len(h) - Len(s) = c.left - (Len(h) + Len(s))
      BY <1>3, <1>12
    <2> QED
      BY <1>5, <1>7, <1>11, <1>12, <2>1 DEF AfterText, Advance
  <1> QED
    BY <1>13, <1>14, <1>15

-----------------------------------------------------------------------------
(* A buffer made of items, one behind the other.                           *)

\* An item that is a head: its bytes, and how many.
LEMMA HeadBytes ==
  ASSUME NEW major \in 0..7, NEW v \in Vast
  PROVE  /\ EncodeHead(major, v) \in Seq(Byte)
         /\ Len(EncodeHead(major, v)) = 1 + Width(v) /\ Width(v) \in {0, 1, 2, 4, 8}
  <1> DEFINE w == Width(v)
  <1>1. w \in {0, 1, 2, 4, 8} /\ Info(v) \in 0..27
    BY WidthHolds, InfoFollows
  <1>2. EncodeHead(major, v) = [i \in 1..(1 + w) |->
               IF i = 1 THEN Initial(major, Info(v)) ELSE v[7 - w + i]]
    BY DEF EncodeHead
  <1>3. Initial(major, Info(v)) \in Byte
    BY <1>1 DEF Initial, Byte
  <1> HIDE DEF w
  <1>4. ASSUME NEW i \in 1..(1 + w), i # 1 PROVE v[7 - w + i] \in Byte
    <2>1. 7 - w + i \in 1..8
      BY <1>1, <1>4
    <2> QED
      BY <2>1 DEF Vast
  <1>5. 1 + w \in Nat /\ EncodeHead(major, v) \in [1..(1 + w) -> Byte]
    <2>1. 1 + w \in Nat
      BY <1>1
    <2>2. \A i \in 1..(1 + w) :
            (IF i = 1 THEN Initial(major, Info(v)) ELSE v[7 - w + i]) \in Byte
      BY <1>3, <1>4
    <2> QED
      BY <1>2, <2>1, <2>2
  <1>6. EncodeHead(major, v) \in Seq(Byte) /\ Len(EncodeHead(major, v)) = 1 + w
    BY <1>2, <1>5
  <1> QED
    BY <1>1, <1>6 DEF w

\* A string of this major type, EncodeText and EncodeBytes.
EncodeString(major, s) == EncodeHead(major, Small(Len(s))) \o s

LEMMA StringBytes ==
  ASSUME NEW major \in 0..7, NEW s \in Seq(Byte), Len(s) < 65536
  PROVE  /\ EncodeString(major, s) \in Seq(Byte)
         /\ Len(EncodeString(major, s)) = 1 + Width(Small(Len(s))) + Len(s)
         /\ Width(Small(Len(s))) \in {0, 1, 2}
  <1> DEFINE h == EncodeHead(major, Small(Len(s)))
  <1>1. Small(Len(s)) \in Vast /\ Width(Small(Len(s))) <= 2
    BY SmallNumbers
  <1>2. /\ h \in Seq(Byte) /\ Len(h) = 1 + Width(Small(Len(s)))
        /\ Width(Small(Len(s))) \in {0, 1, 2, 4, 8}
    BY <1>1, HeadBytes
  <1> HIDE DEF h
  <1>3. h \o s \in Seq(Byte) /\ Len(h \o s) = Len(h) + Len(s)
    BY <1>2
  <1> QED
    BY <1>1, <1>2, <1>3 DEF EncodeString, h

-----------------------------------------------------------------------------
(* A message, item after item.                                             *)

\* The bytes of buf are those of the n items, one after the other.
Spells(buf, items, n, pos) ==
  /\ pos \in [1..(n + 1) -> 1..(Len(buf) + 1)]
  /\ pos[1] = 1 /\ pos[n + 1] = Len(buf) + 1
  /\ \A i \in 1..n :
       /\ pos[i + 1] = pos[i] + Len(items[i])
       /\ \A j \in 1..Len(items[i]) : buf[pos[i] + j - 1] = items[i][j]

Spelt(buf, items, n) == \E pos : Spells(buf, items, n, pos)

\* The cursor stands on item k.
AtItem(buf, items, n, c, k) ==
  /\ InBuffer(buf, c)
  /\ \E pos : Spells(buf, items, n, pos) /\ c.at = pos[k]

\* Two messages, one after the other.
LEMMA SpeltJoined ==
  ASSUME NEW a \in Seq(Byte), NEW b \in Seq(Byte), NEW x, NEW y, NEW z, NEW n \in Nat, NEW m \in Nat,
         Spelt(a, x, n), Spelt(b, y, m),
         \A i \in 1..n : z[i] = x[i], \A i \in 1..m : z[n + i] = y[i],
         \A i \in 1..n : x[i] \in Seq(Byte), \A i \in 1..m : y[i] \in Seq(Byte)
  PROVE  Spelt(a \o b, z, n + m)
  <1>1. PICK p : Spells(a, x, n, p)
    BY DEF Spelt
  <1>2. PICK q : Spells(b, y, m, q)
    BY DEF Spelt
  <1> DEFINE l == Len(a)
             r == [i \in 1..(n + m + 1) |-> IF i <= n THEN p[i] ELSE l + q[i - n]]
  <1>3. /\ l \in Nat /\ Len(b) \in Nat /\ Len(a \o b) = l + Len(b)
        /\ \A i \in 1..l : (a \o b)[i] = a[i]
        /\ \A i \in 1..Len(b) : (a \o b)[l + i] = b[i]
    OBVIOUS
  <1>4. /\ \A i \in 1..(n + 1) : p[i] \in 1..(l + 1)
        /\ p[1] = 1 /\ p[n + 1] = l + 1
        /\ \A i \in 1..n : p[i + 1] = p[i] + Len(x[i])
    BY <1>1 DEF Spells
  <1>5. /\ \A i \in 1..(m + 1) : q[i] \in 1..(Len(b) + 1)
        /\ q[1] = 1 /\ q[m + 1] = Len(b) + 1
        /\ \A i \in 1..m : q[i + 1] = q[i] + Len(y[i])
    BY <1>2 DEF Spells
  <1>6. /\ \A i \in 1..n : \A j \in 1..Len(x[i]) : a[p[i] + j - 1] = x[i][j]
        /\ \A i \in 1..m : \A j \in 1..Len(y[i]) : b[q[i] + j - 1] = y[i][j]
    BY <1>1, <1>2 DEF Spells
  <1>7. \A i \in 1..(n + m + 1) : r[i] = IF i <= n THEN p[i] ELSE l + q[i - n]
    OBVIOUS
  <1>8. DOMAIN r = 1..(n + m + 1) /\ r = [i \in 1..(n + m + 1) |-> r[i]]
    OBVIOUS
  <1>9. \A i \in 1..(n + 1) : r[i] = p[i]
    <2> SUFFICES ASSUME NEW i \in 1..(n + 1) PROVE r[i] = p[i]
      OBVIOUS
    <2>1. i \in 1..(n + m + 1)
      OBVIOUS
    <2>2. CASE i <= n
      BY <1>7, <2>1, <2>2
    <2>3. CASE i = n + 1
      <3>1. r[i] = l + q[i - n] /\ i - n = 1
        BY <1>7, <2>1, <2>3
      <3> QED
        BY <1>3, <1>4, <1>5, <2>3, <3>1
    <2> QED
      BY <2>2, <2>3
  <1>10. \A i \in 1..(m + 1) : r[n + i] = l + q[i]
    <2> SUFFICES ASSUME NEW i \in 1..(m + 1) PROVE r[n + i] = l + q[i]
      OBVIOUS
    <2>1. n + i \in 1..(n + m + 1) /\ ~(n + i <= n) /\ n + i - n = i
      OBVIOUS
    <2>2. r[n + i] = IF n + i <= n THEN p[n + i] ELSE l + q[n + i - n]
      BY <1>7, <2>1
    <2> QED
      BY <2>1, <2>2
  <1> HIDE DEF r, l
  <1>11. \A i \in 1..(n + m + 1) : r[i] \in 1..(Len(a \o b) + 1)
    <2> SUFFICES ASSUME NEW i \in 1..(n + m + 1) PROVE r[i] \in 1..(Len(a \o b) + 1)
      OBVIOUS
    <2>1. CASE i <= n
      <3>1. i \in 1..(n + 1)
        BY <2>1
      <3>2. r[i] = p[i] /\ p[i] \in 1..(l + 1)
        BY <1>4, <1>9, <3>1
      <3> QED
        BY <1>3, <3>2
    <2>2. CASE ~(i <= n)
      <3> DEFINE k == i - n
      <3>1. k \in 1..(m + 1) /\ n + k = i
        BY <2>2
      <3> HIDE DEF k
      <3>2. r[i] = l + q[k] /\ q[k] \in 1..(Len(b) + 1)
        BY <1>5, <1>10, <3>1
      <3>3. PICK Q \in Nat : Q = q[k]
        BY <1>3, <3>2
      <3>4. l + Q \in 1..((l + Len(b)) + 1)
        BY <1>3, <3>2, <3>3
      <3> QED
        BY <1>3, <3>2, <3>3, <3>4
    <2> QED
      BY <2>1, <2>2
  <1>12. r \in [1..((n + m) + 1) -> 1..(Len(a \o b) + 1)]
    BY <1>8, <1>11
  <1>13. r[1] = 1 /\ r[(n + m) + 1] = Len(a \o b) + 1
    <2>1. r[1] = 1
      BY <1>4, <1>9
    <2>2. m + 1 \in 1..(m + 1) /\ n + (m + 1) = (n + m) + 1
      OBVIOUS
    <2>3. r[(n + m) + 1] = l + (Len(b) + 1)
      BY <1>5, <1>10, <2>2
    <2> QED
      BY <1>3, <2>1, <2>3
  <1>14. ASSUME NEW i \in 1..(n + m)
         PROVE  /\ r[i + 1] = r[i] + Len(z[i])
                /\ \A j \in 1..Len(z[i]) : (a \o b)[r[i] + j - 1] = z[i][j]
    <2>1. CASE i <= n
      <3>1. i \in 1..n /\ i \in 1..(n + 1) /\ i + 1 \in 1..(n + 1)
        BY <2>1
      <3>2. /\ r[i] = p[i] /\ r[i + 1] = p[i + 1] /\ z[i] = x[i] /\ x[i] \in Seq(Byte)
            /\ p[i + 1] = p[i] + Len(x[i])
            /\ p[i] \in 1..(l + 1) /\ p[i + 1] \in 1..(l + 1)
        BY <1>4, <1>9, <3>1
      <3>3. ASSUME NEW j \in 1..Len(x[i]) PROVE (a \o b)[p[i] + j - 1] = x[i][j]
        <4>1. p[i] + j - 1 \in 1..l
          <5>1. Len(x[i]) \in Nat /\ l \in Nat
            BY <1>3, <3>2
          <5>2. PICK P \in Int : P = p[i]
            BY <3>2, <5>1
          <5>3. PICK T \in Int : T = p[i + 1]
            BY <3>2, <5>1
          <5>4. PICK N \in Int : N = Len(x[i])
            BY <5>1
          <5>5. P \in 1..(l + 1) /\ T \in 1..(l + 1) /\ T = P + N /\ j \in 1..N
            BY <3>2, <5>2, <5>3, <5>4
          <5>6. P + j - 1 \in 1..l
            BY <5>1, <5>5
          <5> QED
            BY <5>2, <5>6
        <4>2. a[p[i] + j - 1] = x[i][j]
          BY <1>6, <3>1
        <4> QED
          BY <1>3, <4>1, <4>2
      <3> QED
        BY <3>2, <3>3
    <2>2. CASE ~(i <= n)
      <3> DEFINE k == i - n
      <3>1. k \in 1..m /\ k \in 1..(m + 1) /\ k + 1 \in 1..(m + 1)
            /\ n + k = i /\ n + (k + 1) = i + 1
        BY <2>2
      <3> HIDE DEF k
      <3>2. /\ r[i] = l + q[k] /\ r[i + 1] = l + q[k + 1]
            /\ z[i] = y[k] /\ y[k] \in Seq(Byte)
            /\ q[k + 1] = q[k] + Len(y[k])
            /\ q[k] \in 1..(Len(b) + 1) /\ q[k + 1] \in 1..(Len(b) + 1)
        BY <1>5, <1>10, <3>1
      <3>3. Len(y[k]) \in Nat
        BY <3>2
      <3>4. ASSUME NEW j \in 1..Len(y[k]) PROVE (a \o b)[l + q[k] + j - 1] = y[k][j]
        <4>1. q[k] + j - 1 \in 1..Len(b) /\ l + q[k] + j - 1 = l + (q[k] + j - 1)
          <5>1. PICK P \in Int : P = q[k]
            BY <1>3, <3>2
          <5>2. PICK T \in Int : T = q[k + 1]
            BY <1>3, <3>2
          <5>3. PICK N \in Int : N = Len(y[k])
            BY <3>3
          <5>4. P \in 1..(Len(b) + 1) /\ T \in 1..(Len(b) + 1) /\ T = P + N /\ j \in 1..N
            BY <3>2, <5>1, <5>2, <5>3
          <5>5. P + j - 1 \in 1..Len(b) /\ l + P + j - 1 = l + (P + j - 1)
            BY <1>3, <5>4
          <5> QED
            BY <5>1, <5>5
        <4>2. b[q[k] + j - 1] = y[k][j]
          BY <1>6, <3>1
        <4> QED
          BY <1>3, <4>1, <4>2
      <3>5. l + q[k + 1] = l + q[k] + Len(y[k])
        <4>1. PICK P \in Nat : P = q[k]
          BY <1>3, <3>2
        <4>2. PICK N \in Nat : N = Len(y[k])
          BY <3>3
        <4>3. l + (P + N) = l + P + N
          BY <1>3
        <4> QED
          BY <3>2, <4>1, <4>2, <4>3
      <3> QED
        BY <3>2, <3>4, <3>5
    <2> QED
      BY <2>1, <2>2
  <1>15. Spells(a \o b, z, n + m, r)
    BY <1>12, <1>13, <1>14 DEF Spells
  <1> QED
    BY <1>15 DEF Spelt

\* One item by itself, and one item more.
LEMMA SpeltOne ==
  ASSUME NEW item \in Seq(Byte), NEW z, z[1] = item
  PROVE  Spelt(item, z, 1)
  <1> DEFINE p == [i \in 1..2 |-> IF i = 1 THEN 1 ELSE Len(item) + 1]
  <1>1. Len(item) \in Nat /\ p[1] = 1 /\ p[2] = Len(item) + 1
    OBVIOUS
  <1>2. p \in [1..(1 + 1) -> 1..(Len(item) + 1)]
    BY <1>1
  <1> HIDE DEF p
  <1>3. \A i \in 1..1 : i = 1
    OBVIOUS
  <1>4. \A j \in 1..Len(item) : item[1 + j - 1] = item[j]
    BY <1>1
  <1>5. 1 + 1 = 2 /\ Len(item) + 1 = 1 + Len(item)
    BY <1>1
  <1>6. Spells(item, z, 1, p)
    BY <1>1, <1>2, <1>3, <1>4, <1>5 DEF Spells
  <1> QED
    BY <1>6 DEF Spelt

LEMMA SpeltMore ==
  ASSUME NEW a \in Seq(Byte), NEW z, NEW size \in Nat, NEW n \in Nat, NEW k, k = n + 1, k <= size,
         \A i \in 1..size : z[i] \in Seq(Byte), Spelt(a, z, n)
  PROVE  Spelt(a \o z[k], z, k) /\ a \o z[k] \in Seq(Byte)
  <1> DEFINE y == [i \in 1..1 |-> z[k]]
  <1>1. y[1] = z[k]
    OBVIOUS
  <1> HIDE DEF y
  <1>2. \A i \in 1..1 : i = 1
    OBVIOUS
  <1>3. z[k] \in Seq(Byte) /\ \A i \in 1..n : z[i] \in Seq(Byte)
    OBVIOUS
  <1>4. Spelt(z[k], y, 1)
    BY <1>1, <1>3, SpeltOne
  <1>5. \A i \in 1..1 : z[n + i] = y[i] /\ y[i] \in Seq(Byte)
    BY <1>1, <1>2, <1>3
  <1>6. Spelt(a \o z[k], z, n + 1)
    BY <1>3, <1>4, <1>5, SpeltJoined
  <1> QED
    BY <1>3, <1>6

LEMMA SpeltStart ==
  ASSUME NEW buf \in Seq(Byte), NEW items, NEW n \in Nat, Spelt(buf, items, n)
  PROVE  AtItem(buf, items, n, Start(buf), 1)
  <1>1. InBuffer(buf, Start(buf))
    BY StartInBuffer
  <1>2. PICK pos : Spells(buf, items, n, pos)
    BY DEF Spelt
  <1> QED
    BY <1>1, <1>2 DEF AtItem, Spells, Start

\* The item stands at the cursor, and the next one behind it.
LEMMA ItemStands ==
  ASSUME NEW buf \in Seq(Byte), NEW items, NEW n \in Nat, NEW c, NEW k \in 1..n,
         AtItem(buf, items, n, c, k), items[k] \in Seq(Byte)
  PROVE  /\ InBuffer(buf, c) /\ StandsAt(buf, c, items[k])
         /\ AtItem(buf, items, n, Advance(c, Len(items[k])), k + 1)
  <1>1. PICK pos : Spells(buf, items, n, pos) /\ c.at = pos[k]
    BY DEF AtItem
  <1>2. InBuffer(buf, c) /\ Len(buf) \in Nat /\ Len(items[k]) \in Nat
    BY DEF AtItem
  <1>3. /\ pos[k + 1] = c.at + Len(items[k]) /\ pos[k + 1] \in 1..(Len(buf) + 1)
        /\ \A j \in 1..Len(items[k]) : buf[c.at + j - 1] = items[k][j]
    <2>1. k + 1 \in 1..(n + 1)
      OBVIOUS
    <2> QED
      BY <1>1, <2>1 DEF Spells
  <1>4. Len(items[k]) <= c.left
    BY <1>2, <1>3 DEF InBuffer
  <1>5. InBuffer(buf, Advance(c, Len(items[k])))
    BY <1>2, <1>4, AdvanceInBuffer
  <1>6. Advance(c, Len(items[k])).at = pos[k + 1]
    BY <1>3 DEF Advance
  <1> QED
    BY <1>1, <1>2, <1>3, <1>4, <1>5, <1>6 DEF StandsAt, AtItem

\* Behind the last item is the end.
LEMMA LastItem ==
  ASSUME NEW buf \in Seq(Byte), NEW items, NEW n \in Nat, NEW c, n >= 1,
         AtItem(buf, items, n, c, n), items[n] \in Seq(Byte)
  PROVE  c.left = Len(items[n])
  <1>1. PICK pos : Spells(buf, items, n, pos) /\ c.at = pos[n]
    BY DEF AtItem
  <1>2. InBuffer(buf, c) /\ Len(buf) \in Nat /\ Len(items[n]) \in Nat
    BY DEF AtItem
  <1>3. pos[n + 1] = c.at + Len(items[n]) /\ pos[n + 1] = Len(buf) + 1
    BY <1>1 DEF Spells
  <1>4. PICK o \in Nat, left \in Nat : o = c.at /\ left = c.left
    BY <1>2 DEF InBuffer
  <1>5. o + left = Len(buf) + 1 /\ o + Len(items[n]) = Len(buf) + 1
    BY <1>2, <1>3, <1>4 DEF InBuffer
  <1>6. left = Len(items[n])
    BY <1>2, <1>5
  <1> QED
    BY <1>4, <1>6

\* An integer or the head of an array is read, and stepped over, as it was written.
LEMMA HeadItem ==
  ASSUME NEW buf \in Seq(Byte), NEW items, NEW n \in Nat, NEW c, NEW k \in 1..n,
         AtItem(buf, items, n, c, k), NEW major \in {UnsignedInteger, ArrayOpen},
         NEW v \in Vast, items[k] = EncodeHead(major, v)
  PROVE  /\ HeadAt(buf, c, major, 0..27) /\ Argument(buf, c) = v /\ InfoAt(buf, c) = Info(v)
         /\ Skippable(buf, c) /\ AfterSkip(buf, c) = AfterHead(buf, c)
         /\ AtItem(buf, items, n, AfterHead(buf, c), k + 1)
  <1>1. major \in 0..7 /\ major \notin {ByteString, TextString}
    BY DEF UnsignedInteger, ArrayOpen, ByteString, TextString
  <1>2. items[k] \in Seq(Byte)
    BY <1>1, HeadBytes
  <1>3. /\ InBuffer(buf, c) /\ StandsAt(buf, c, EncodeHead(major, v))
        /\ AtItem(buf, items, n, Advance(c, Len(items[k])), k + 1)
    BY <1>2, ItemStands
  <1>4. /\ HeadAt(buf, c, major, 0..27) /\ Argument(buf, c) = v /\ InfoAt(buf, c) = Info(v)
        /\ AfterHead(buf, c) = Advance(c, Len(items[k]))
    BY <1>1, <1>3, HeadRoundTrip
  <1>5. AfterSkip(buf, c) = AfterHead(buf, c) /\ InBuffer(buf, AfterHead(buf, c))
    BY <1>1, <1>3, <1>4, SkipOfHead
  <1>6. Skippable(buf, c)
    <2>1. ~IsString(buf, c) /\ SkipLength(buf, c) = 0
      BY <1>1, <1>4 DEF HeadAt, IsString, SkipLength
    <2>2. AfterHead(buf, c).left >= 0
      BY <1>5 DEF InBuffer
    <2> QED
      BY <1>4, <2>1, <2>2 DEF Skippable, HeadAt
  <1> QED
    BY <1>3, <1>4, <1>5, <1>6

\* A string is stepped over as it was written, and read by whoever has the room.
LEMMA StringItem ==
  ASSUME NEW buf \in Seq(Byte), NEW items, NEW n \in Nat, NEW c, NEW k \in 1..n,
         AtItem(buf, items, n, c, k), NEW major \in {ByteString, TextString},
         NEW s \in Seq(Byte), Len(s) < 65536, items[k] = EncodeString(major, s)
  PROVE  /\ HeadAt(buf, c, major, 0..25) /\ InfoAt(buf, c) = Info(Small(Len(s)))
         /\ Skippable(buf, c) /\ SkipLength(buf, c) = Len(s) /\ TextLength(buf, c) = Len(s)
         /\ AfterHead(buf, c).left >= Len(s)
         /\ \A i \in 1..Len(s) : buf[AfterHead(buf, c).at + i - 1] = s[i]
         /\ AtItem(buf, items, n, AfterSkip(buf, c), k + 1)
  <1> DEFINE v == Small(Len(s))
             h == EncodeHead(major, v)
  <1>1. /\ v \in Vast /\ Width(v) <= 2 /\ v[7] * 256 + v[8] = Len(s)
        /\ \A i \in 1..6 : v[i] = 0
    <2>1. v = [i \in 1..8 |-> IF i = 7 THEN Len(s) \div 256 ELSE IF i = 8 THEN Len(s) % 256 ELSE 0]
      BY DEF Small
    <2>2. \A i \in 1..6 : v[i] = 0
      BY <2>1
    <2> QED
      BY <2>2, SmallNumbers
  <1>2. major \in 0..7
    BY DEF ByteString, TextString
  <1>3. h \in Seq(Byte) /\ items[k] \in Seq(Byte) /\ items[k] = h \o s
    <2>1. h \in Seq(Byte)
      BY <1>1, <1>2, HeadBytes
    <2>2. EncodeString(major, s) \in Seq(Byte)
      BY <1>2, StringBytes
    <2>3. EncodeString(major, s) = h \o s
      BY DEF EncodeString
    <2> QED
      BY <2>1, <2>2, <2>3
  <1>4. Info(v) \in 0..25 /\ Info(v) \in 0..27
    BY <1>1, InfoFollows
  <1> HIDE DEF v, h
  <1>5. /\ InBuffer(buf, c) /\ StandsAt(buf, c, items[k])
        /\ AtItem(buf, items, n, Advance(c, Len(items[k])), k + 1)
    <2>1. items[k] \in Seq(Byte)
      BY <1>3
    <2> QED
      BY <2>1, ItemStands
  <1>6. /\ Len(h) \in Nat /\ Len(s) \in Nat /\ Len(items[k]) = Len(h) + Len(s)
        /\ \A i \in 1..Len(h) : items[k][i] = h[i]
        /\ \A i \in 1..Len(s) : items[k][Len(h) + i] = s[i]
    <2>1. /\ Len(h) \in Nat /\ Len(s) \in Nat /\ Len(h \o s) = Len(h) + Len(s)
          /\ \A i \in 1..Len(h) : (h \o s)[i] = h[i]
          /\ \A i \in 1..Len(s) : (h \o s)[Len(h) + i] = s[i]
      BY <1>3
    <2> QED
      BY <1>3, <2>1
  <1>7. StandsAt(buf, c, h)
    <2>1. Len(items[k]) <= c.left /\ \A i \in 1..Len(items[k]) : buf[c.at + i - 1] = items[k][i]
      BY <1>5 DEF StandsAt
    <2>2. \A i \in 1..Len(h) : i \in 1..Len(items[k])
      BY <1>6
    <2>3. c.left \in Nat
      BY <1>5 DEF InBuffer
    <2>4. Len(h) <= c.left
      BY <1>6, <2>1, <2>3
    <2> QED
      BY <1>6, <2>1, <2>2, <2>4 DEF StandsAt
  <1>8. /\ HeadAt(buf, c, major, 0..27) /\ Argument(buf, c) = v
        /\ InfoAt(buf, c) = Info(v) /\ AfterHead(buf, c) = Advance(c, Len(h))
    <2>1. v \in Vast
      BY <1>1
    <2>2. InBuffer(buf, c) /\ StandsAt(buf, c, EncodeHead(major, v))
      BY <1>5, <1>7 DEF h
    <2> QED
      BY <1>2, <2>1, <2>2, HeadRoundTrip DEF h
  <1>9. HeadAt(buf, c, major, 0..25)
    BY <1>4, <1>8 DEF HeadAt
  <1>10. IsString(buf, c)
    BY <1>8 DEF HeadAt, IsString
  <1>11. TextLength(buf, c) = Len(s)
    BY <1>1, <1>8 DEF TextLength
  <1>12. SkipLength(buf, c) = Len(s)
    <2>1. v[5] = 0 /\ v[6] = 0 /\ v[7] \in Nat /\ v[8] \in Nat
      BY <1>1, LowBytes
    <2>2. SkipLength(buf, c) = ((v[5] * 256 + v[6]) * 256 + v[7]) * 256 + v[8]
      BY <1>8, <1>10 DEF SkipLength
    <2>3. ((0 * 256 + 0) * 256 + v[7]) * 256 + v[8] = v[7] * 256 + v[8]
      BY <2>1
    <2> QED
      BY <1>1, <2>1, <2>2, <2>3
  <1>13. /\ AfterHead(buf, c).at = c.at + Len(h) /\ AfterHead(buf, c).left = c.left - Len(h)
         /\ c.at \in Nat /\ c.left \in Nat /\ Len(h) + Len(s) <= c.left
    <2>1. c.at \in Nat /\ c.left \in Nat
      BY <1>5 DEF InBuffer
    <2>2. Len(h) + Len(s) <= c.left
      BY <1>5, <1>6 DEF StandsAt
    <2> QED
      BY <1>8, <2>1, <2>2 DEF Advance
  <1>14. AfterHead(buf, c).left >= Len(s)
    BY <1>6, <1>13
  <1>15. Skippable(buf, c)
    <2>1. Argument(buf, c)[5] < 128
      BY <1>1, <1>8
    <2> QED
      BY <1>8, <1>12, <1>14, <2>1 DEF Skippable, HeadAt
  <1>16. ASSUME NEW i \in 1..Len(s)
         PROVE  buf[AfterHead(buf, c).at + i - 1] = s[i]
    <2>1. Len(h) + i \in 1..Len(items[k]) /\ c.at + (Len(h) + i) - 1 = c.at + Len(h) + i - 1
      BY <1>6, <1>13
    <2>2. buf[c.at + (Len(h) + i) - 1] = items[k][Len(h) + i]
      BY <1>5, <2>1 DEF StandsAt
    <2> QED
      BY <1>6, <1>13, <2>1, <2>2
  <1>17. AfterSkip(buf, c) = Advance(c, Len(items[k]))
    <2>1. c.at + Len(h) + Len(s) = c.at + (Len(h) + Len(s))
          /\ c.left - Len(h) - Len(s) = c.left - (Len(h) + Len(s))
      BY <1>6, <1>13
    <2> QED
      BY <1>6, <1>12, <1>13, <2>1 DEF AfterSkip, Advance
  <1> QED
    BY <1>5, <1>8, <1>9, <1>11, <1>12, <1>14, <1>15, <1>16, <1>17 DEF v

\* What a text's reader makes of it: all of it or, without the room, nothing.
LEMMA TextItem ==
  ASSUME NEW buf \in Seq(Byte), NEW items, NEW n \in Nat, NEW c, NEW k \in 1..n,
         AtItem(buf, items, n, c, k),
         NEW s \in Seq(Byte), Len(s) < 65536, items[k] = EncodeText(s)
  PROVE  /\ \A max \in Int : TextAt(buf, c, max) <=> Len(s) <= max - 1
         /\ TextValue(buf, c) = s /\ Skippable(buf, c)
         /\ AtItem(buf, items, n, AfterSkip(buf, c), k + 1)
  <1>1. items[k] = EncodeString(TextString, s)
    BY DEF EncodeString, EncodeText
  <1>2. /\ HeadAt(buf, c, TextString, 0..25)
        /\ Skippable(buf, c) /\ TextLength(buf, c) = Len(s)
        /\ AfterHead(buf, c).left >= Len(s)
        /\ \A i \in 1..Len(s) : buf[AfterHead(buf, c).at + i - 1] = s[i]
        /\ AtItem(buf, items, n, AfterSkip(buf, c), k + 1)
    BY <1>1, StringItem
  <1>3. \A max \in Int : TextAt(buf, c, max) <=> Len(s) <= max - 1
    BY <1>2 DEF TextAt
  <1>4. TextValue(buf, c) = s
    <2>1. s = [i \in 1..Len(s) |-> s[i]]
      OBVIOUS
    <2> QED
      BY <1>2, <2>1 DEF TextValue
  <1> QED
    BY <1>2, <1>3, <1>4

-----------------------------------------------------------------------------
(* The table by itself: main, and the reception thread handing rows over.  *)

Stage(t) == call[t].stage

\* A row, or a call, and nothing else.
WholeRow(i) ==
  nodeMetadataList[i] = [nodeId |-> nodeMetadataList[i].nodeId, text |-> nodeMetadataList[i].text]

WholeCall(t) ==
  call[t] = [stage |-> call[t].stage, nodeId |-> call[t].nodeId, text |-> call[t].text]

\* The rows that count are whole, handed in, and of one node each.
ListOK ==
  /\ nodeMetadataCount \in 0..MAX_PLANS
  /\ nodeMetadataList = [i \in 1..MAX_PLANS |-> nodeMetadataList[i]]
  /\ \A i \in 1..nodeMetadataCount : WholeRow(i) /\ nodeMetadataList[i] \in handed
  /\ \A i, j \in 1..nodeMetadataCount :
       nodeMetadataList[i].nodeId = nodeMetadataList[j].nodeId => i = j

\* What a call has found is still so when it writes.
CallOK(t) ==
  /\ Stage(t) \in {"idle", "find", "overwrite", "append", "count"}
  /\ Stage(t) = "idle" => call[t] = Idle
  /\ Stage(t) \in {"find", "append", "count"} => WholeCall(t)
  /\ Stage(t) = "overwrite" =>
       /\ call[t].slot \in 1..nodeMetadataCount
       /\ nodeMetadataList[call[t].slot].nodeId = call[t].nodeId
  /\ Stage(t) \in {"append", "count"} =>
       /\ nodeMetadataCount < MAX_PLANS
       /\ \A i \in 1..nodeMetadataCount : nodeMetadataList[i].nodeId # call[t].nodeId
  /\ Stage(t) = "count" => nodeMetadataList[nodeMetadataCount + 1] = Row(t) /\ Row(t) \in handed

CallsOK == call = [t \in Thread |-> call[t]] /\ \A t \in Thread : CallOK(t)

\* Main writes its own row only, and adds it before there is a reception thread.
InTurn ==
  /\ Stage("reception") # "idle" => receiving
  /\ receiving => Stage("main") \notin {"append", "count"}
  /\ Stage("main") # "idle" => main = "connecting" /\ sharing /\ call["main"].nodeId = Own

OwnFirst == nodeMetadataCount > 0 /\ nodeMetadataList[1].nodeId = Own

OwnBeforeOthers ==
  sharing => /\ OwnFirst \/ (nodeMetadataCount = 0 /\ ~receiving)
             /\ main = "connecting" /\ Stage("main") = "idle" => OwnFirst

TableInv == ListOK /\ CallsOK /\ InTurn /\ OwnBeforeOthers

\* A message's row handed over by the reception thread, as Handle does.
Hand(n, text) ==
  /\ receiving
  /\ call["reception"] = Idle
  /\ call' = [call EXCEPT !["reception"] = Calling(n, text)]
  /\ UNCHANGED <<nodeMetadataList, nodeMetadataCount, main, receiving, sharing, handed, connects>>

LEMMA TableParameters == MAX_PLANS \in Nat /\ MAX_PLANS > 0
  BY TableAssumption

LEMMA InitTable == TableInit => TableInv
  <1> SUFFICES ASSUME TableInit PROVE TableInv
    OBVIOUS
  <1>1. ListOK
    BY TableParameters DEF TableInit, ListOK
  <1>2. \A t \in Thread : call[t] = Idle /\ Stage(t) = "idle"
    BY DEF TableInit, Stage, Idle
  <1>3. CallsOK
    BY <1>2 DEF TableInit, CallsOK, CallOK
  <1>4. InTurn /\ OwnBeforeOthers
    BY <1>2 DEF TableInit, InTurn, OwnBeforeOthers, Thread
  <1> QED
    BY <1>1, <1>3, <1>4 DEF TableInv

\* The search finds the one row of a node.
LEMMA FirstRowIsRow ==
  ASSUME ListOK, NEW n, RowsOf(n) # {}
  PROVE  FirstRow(n) \in 1..nodeMetadataCount /\ nodeMetadataList[FirstRow(n)].nodeId = n
  <1>1. PICK i \in RowsOf(n) : TRUE
    BY Zenon
  <1>2. \A j \in RowsOf(n) : i <= j
    <2>1. i \in 1..nodeMetadataCount /\ nodeMetadataList[i].nodeId = n
      BY <1>1 DEF RowsOf
    <2>2. i \in Int
      BY <2>1 DEF ListOK
    <2>3. ASSUME NEW j \in RowsOf(n) PROVE j = i
      <3>1. j \in 1..nodeMetadataCount /\ nodeMetadataList[j].nodeId = n
        BY DEF RowsOf
      <3> QED
        BY <2>1, <3>1 DEF ListOK
    <2> QED
      BY <2>2, <2>3
  <1>3. FirstRow(n) \in RowsOf(n)
    <2>1. \E k \in RowsOf(n) : \A j \in RowsOf(n) : k <= j
      BY <1>1, <1>2
    <2> QED
      BY <2>1, Zenon DEF FirstRow
  <1> QED
    BY <1>3 DEF RowsOf

\* Only one of the threads adds a row.
LEMMA OneAdds ==
  ASSUME InTurn, NEW t \in Thread, NEW u \in Thread, t # u,
         Stage(t) \in {"append", "count"}
  PROVE  Stage(u) \notin {"append", "count"}
  BY DEF InTurn, Thread

\* The search.
LEMMA FindKeeps ==
  ASSUME TableInv, NEW t \in Thread, Find(t)
  PROVE  TableInv'
  <1> DEFINE c == call[t]
  <1>0. /\ ListOK /\ CallsOK /\ InTurn /\ OwnBeforeOthers /\ Stage(t) = "find"
        /\ UNCHANGED <<nodeMetadataList, nodeMetadataCount, main, receiving, sharing, handed>>
    BY DEF TableInv, Find, Stage
  <1>1. /\ call' = [u \in Thread |-> call'[u]]
        /\ \A u \in Thread \ {t} : call'[u] = call[u]
        /\ call'[t] = IF RowsOf(c.nodeId) # {}
                        THEN [stage |-> "overwrite", nodeId |-> c.nodeId, text |-> c.text,
                              slot |-> FirstRow(c.nodeId)]
                      ELSE IF nodeMetadataCount < MAX_PLANS THEN [c EXCEPT !.stage = "append"]
                      ELSE Idle
    BY <1>0 DEF Find, CallsOK
  <1>2. ListOK'
    BY <1>0 DEF ListOK, WholeRow
  <1>3. WholeCall(t)
    BY <1>0 DEF CallsOK, CallOK
  <1> HIDE DEF c
  <1>4. CASE RowsOf(c.nodeId) # {}
    <2>1. call'[t] = [stage |-> "overwrite", nodeId |-> c.nodeId, text |-> c.text,
                      slot |-> FirstRow(c.nodeId)]
      BY <1>1, <1>4
    <2>2. /\ call'[t].stage = "overwrite" /\ call'[t].nodeId = c.nodeId
          /\ call'[t].slot = FirstRow(c.nodeId)
      BY <2>1
    <2>3. FirstRow(c.nodeId) \in 1..nodeMetadataCount
          /\ nodeMetadataList[FirstRow(c.nodeId)].nodeId = c.nodeId
      BY <1>0, <1>4, FirstRowIsRow
    <2>4. CallOK(t)'
      BY <1>0, <2>2, <2>3 DEF CallOK, Stage
    <2>5. \A u \in Thread \ {t} : CallOK(u)'
      BY <1>0, <1>1 DEF CallsOK, CallOK, Stage, WholeCall, Row
    <2>6. CallsOK'
      BY <1>1, <2>4, <2>5 DEF CallsOK
    <2>7. InTurn' /\ OwnBeforeOthers'
      BY <1>0, <1>1, <2>2 DEF InTurn, OwnBeforeOthers, OwnFirst, Stage, Thread, c
    <2> QED
      BY <1>2, <2>6, <2>7 DEF TableInv
  <1>5. CASE RowsOf(c.nodeId) = {} /\ nodeMetadataCount < MAX_PLANS
    <2>1. call'[t] = [stage |-> "append", nodeId |-> c.nodeId, text |-> c.text]
      BY <1>1, <1>3, <1>5 DEF WholeCall, c
    <2>2. /\ call'[t].stage = "append" /\ call'[t].nodeId = c.nodeId /\ WholeCall(t)'
      BY <2>1 DEF WholeCall
    <2>3. \A i \in 1..nodeMetadataCount : nodeMetadataList[i].nodeId # c.nodeId
      BY <1>5 DEF RowsOf
    <2>4. CallOK(t)'
      BY <1>0, <1>5, <2>2, <2>3 DEF CallOK, Stage
    <2>5. \A u \in Thread \ {t} : CallOK(u)'
      BY <1>0, <1>1 DEF CallsOK, CallOK, Stage, WholeCall, Row
    <2>6. CallsOK'
      BY <1>1, <2>4, <2>5 DEF CallsOK
    <2>7. t = "main" => ~receiving
      <3>1. SUFFICES ASSUME t = "main", receiving PROVE FALSE
        OBVIOUS
      <3>2. sharing /\ c.nodeId = Own
        BY <1>0, <3>1 DEF InTurn, c
      <3>3. nodeMetadataCount > 0 /\ nodeMetadataList[1].nodeId = Own
        BY <1>0, <3>1, <3>2 DEF OwnBeforeOthers, OwnFirst
      <3> QED
        BY <1>0, <2>3, <3>2, <3>3 DEF ListOK
    <2>8. InTurn' /\ OwnBeforeOthers'
      BY <1>0, <1>1, <2>2, <2>7 DEF InTurn, OwnBeforeOthers, OwnFirst, Stage, Thread, c
    <2> QED
      BY <1>2, <2>6, <2>8 DEF TableInv
  <1>6. CASE RowsOf(c.nodeId) = {} /\ ~(nodeMetadataCount < MAX_PLANS)
    <2>1. call'[t] = Idle /\ call'[t].stage = "idle"
      BY <1>1, <1>6 DEF Idle
    <2>2. CallOK(t)'
      BY <2>1 DEF CallOK, Stage
    <2>3. \A u \in Thread \ {t} : CallOK(u)'
      BY <1>0, <1>1 DEF CallsOK, CallOK, Stage, WholeCall, Row
    <2>4. CallsOK'
      BY <1>1, <2>2, <2>3 DEF CallsOK
    <2>5. sharing => OwnFirst
      BY <1>0, <1>6, TableParameters DEF OwnBeforeOthers, ListOK
    <2>6. InTurn' /\ OwnBeforeOthers'
      BY <1>0, <1>1, <2>1, <2>5 DEF InTurn, OwnBeforeOthers, OwnFirst, Stage, Thread
    <2> QED
      BY <1>2, <2>4, <2>6 DEF TableInv
  <1> QED
    BY <1>4, <1>5, <1>6

\* The rewriting of a row.
LEMMA OverwriteKeeps ==
  ASSUME TableInv, NEW t \in Thread, Overwrite(t)
  PROVE  TableInv'
  <1> DEFINE s == call[t].slot
             n == call[t].nodeId
  <1>0. /\ ListOK /\ CallsOK /\ InTurn /\ OwnBeforeOthers /\ Stage(t) = "overwrite"
        /\ UNCHANGED <<nodeMetadataCount, main, receiving, sharing>>
    BY DEF TableInv, Overwrite, Stage
  <1>1. s \in 1..nodeMetadataCount /\ nodeMetadataList[s].nodeId = n /\ WholeRow(s)
    BY <1>0 DEF CallsOK, CallOK, ListOK
  <1>2. /\ nodeMetadataList' = [i \in 1..MAX_PLANS |-> nodeMetadataList'[i]]
        /\ \A i \in (1..MAX_PLANS) \ {s} : nodeMetadataList'[i] = nodeMetadataList[i]
        /\ nodeMetadataList'[s] = [nodeMetadataList[s] EXCEPT !.text = call[t].text]
    <2>1. s \in 1..MAX_PLANS
      BY <1>0, <1>1, TableParameters DEF ListOK
    <2>2. nodeMetadataList' = [nodeMetadataList EXCEPT ![s] =
                                 [nodeMetadataList[s] EXCEPT !.text = call[t].text]]
      BY DEF Overwrite
    <2>3. nodeMetadataList = [i \in 1..MAX_PLANS |-> nodeMetadataList[i]]
      BY <1>0 DEF ListOK
    <2> QED
      BY <2>1, <2>2, <2>3
  <1>3. nodeMetadataList'[s] = Row(t)
    BY <1>1, <1>2 DEF WholeRow, Row
  <1>4. handed' = {r \in handed : r.nodeId # n} \cup {Row(t)}
    BY DEF Overwrite
  <1>5. /\ call' = [u \in Thread |-> call'[u]]
        /\ \A u \in Thread \ {t} : call'[u] = call[u]
        /\ call'[t] = Idle
    BY <1>0 DEF Overwrite, CallsOK
  <1>6. Row(t).nodeId = n /\ Row(t) = [nodeId |-> Row(t).nodeId, text |-> Row(t).text]
    BY DEF Row
  <1> HIDE DEF s, n
  <1>7. \A i \in 1..nodeMetadataCount : i \in 1..MAX_PLANS
    BY <1>0, TableParameters DEF ListOK
  <1>8. \A i \in 1..nodeMetadataCount : nodeMetadataList'[i].nodeId = nodeMetadataList[i].nodeId
    BY <1>1, <1>2, <1>3, <1>6, <1>7
  <1>9. ASSUME NEW i \in 1..nodeMetadataCount
        PROVE  WholeRow(i)' /\ nodeMetadataList'[i] \in handed'
    <2>1. CASE i = s
      BY <1>3, <1>4, <1>6, <2>1 DEF WholeRow
    <2>2. CASE i # s
      <3>1. nodeMetadataList'[i] = nodeMetadataList[i]
        BY <1>2, <1>7, <2>2
      <3>2. nodeMetadataList[i].nodeId # n
        BY <1>0, <1>1, <2>2 DEF ListOK
      <3> QED
        BY <1>0, <1>4, <3>1, <3>2 DEF ListOK, WholeRow
    <2> QED
      BY <2>1, <2>2
  <1>10. ListOK'
    BY <1>0, <1>2, <1>8, <1>9 DEF ListOK
  <1>11. ASSUME NEW u \in Thread \ {t} PROVE CallOK(u)'
    <2>1. call'[u] = call[u] /\ Stage(u)' = Stage(u) /\ CallOK(u) /\ Row(u)' = Row(u)
      BY <1>0, <1>5 DEF CallsOK, Stage, Row
    <2>2. Stage(u) = "count" => /\ nodeMetadataList'[nodeMetadataCount + 1] = Row(u)
                                /\ Row(u) \in handed'
      <3> SUFFICES ASSUME Stage(u) = "count"
                   PROVE  /\ nodeMetadataList'[nodeMetadataCount + 1] = Row(u)
                          /\ Row(u) \in handed'
        OBVIOUS
      <3>1. /\ nodeMetadataCount < MAX_PLANS /\ Row(u) \in handed
            /\ \A i \in 1..nodeMetadataCount : nodeMetadataList[i].nodeId # call[u].nodeId
            /\ nodeMetadataList[nodeMetadataCount + 1] = Row(u)
        BY <2>1 DEF CallOK
      <3>2. nodeMetadataCount + 1 \in 1..MAX_PLANS /\ nodeMetadataCount + 1 # s
        BY <1>0, <1>1, <3>1, TableParameters DEF ListOK
      <3>3. Row(u).nodeId = call[u].nodeId /\ call[u].nodeId # n
        BY <1>1, <3>1 DEF Row
      <3> QED
        BY <1>2, <1>4, <3>1, <3>2, <3>3
    <2> QED
      BY <1>0, <1>8, <2>1, <2>2 DEF CallOK, WholeCall
  <1>12. CallOK(t)' /\ Stage(t)' = "idle"
    BY <1>5 DEF CallOK, Stage, Idle
  <1>13. CallsOK'
    BY <1>5, <1>11, <1>12 DEF CallsOK
  <1>14. nodeMetadataCount > 0 /\ 1 \in 1..nodeMetadataCount
    BY <1>0, <1>1 DEF ListOK
  <1>15. InTurn'
    BY <1>0, <1>5, <1>12 DEF InTurn, Stage, Thread
  <1>16. OwnBeforeOthers'
    BY <1>0, <1>8, <1>14 DEF OwnBeforeOthers, OwnFirst
  <1> QED
    BY <1>10, <1>13, <1>15, <1>16 DEF TableInv

\* The writing of a new row.
LEMMA AppendKeeps ==
  ASSUME TableInv, NEW t \in Thread, AppendRow(t)
  PROVE  TableInv'
  <1> DEFINE s == nodeMetadataCount + 1
             n == call[t].nodeId
  <1>0. /\ ListOK /\ CallsOK /\ InTurn /\ OwnBeforeOthers /\ Stage(t) = "append"
        /\ UNCHANGED <<nodeMetadataCount, main, receiving, sharing>>
    BY DEF TableInv, AppendRow, Stage
  <1>1. /\ nodeMetadataCount < MAX_PLANS /\ WholeCall(t)
        /\ \A i \in 1..nodeMetadataCount : nodeMetadataList[i].nodeId # n
    BY <1>0 DEF CallsOK, CallOK
  <1>2. s \in 1..MAX_PLANS /\ \A i \in 1..nodeMetadataCount : i \in 1..MAX_PLANS /\ i # s
    BY <1>0, <1>1, TableParameters DEF ListOK
  <1>3. /\ nodeMetadataList' = [i \in 1..MAX_PLANS |-> nodeMetadataList'[i]]
        /\ \A i \in (1..MAX_PLANS) \ {s} : nodeMetadataList'[i] = nodeMetadataList[i]
        /\ nodeMetadataList'[s] = Row(t)
    BY <1>0, <1>2 DEF AppendRow, ListOK
  <1>4. handed' = {r \in handed : r.nodeId # n} \cup {Row(t)}
    BY DEF AppendRow
  <1>5. /\ call' = [u \in Thread |-> call'[u]]
        /\ \A u \in Thread \ {t} : call'[u] = call[u]
        /\ call'[t] = [stage |-> "count", nodeId |-> n, text |-> call[t].text]
    BY <1>0, <1>1 DEF AppendRow, CallsOK, WholeCall
  <1>6. Row(t)' = Row(t) /\ call'[t].stage = "count" /\ call'[t].nodeId = n /\ WholeCall(t)'
    BY <1>5 DEF Row, WholeCall
  <1> HIDE DEF s, n
  <1>7. \A i \in 1..nodeMetadataCount : nodeMetadataList'[i] = nodeMetadataList[i]
    BY <1>2, <1>3
  <1>8. \A i \in 1..nodeMetadataCount : nodeMetadataList[i] \in handed'
    BY <1>0, <1>1, <1>4 DEF ListOK
  <1>9. ListOK'
    BY <1>0, <1>3, <1>7, <1>8 DEF ListOK, WholeRow
  <1>10. CallOK(t)'
    <2>1. nodeMetadataList'[nodeMetadataCount + 1] = Row(t) /\ Row(t) \in handed'
      BY <1>3, <1>4 DEF s
    <2> QED
      BY <1>0, <1>1, <1>6, <1>7, <2>1 DEF CallOK, Stage
  <1>11. ASSUME NEW u \in Thread \ {t} PROVE CallOK(u)'
    <2>1. call'[u] = call[u] /\ Stage(u)' = Stage(u) /\ CallOK(u)
      BY <1>0, <1>5 DEF CallsOK, Stage
    <2>2. Stage(u) \notin {"append", "count"}
      BY <1>0, OneAdds
    <2> QED
      BY <1>0, <1>7, <2>1, <2>2 DEF CallOK, WholeCall
  <1>12. CallsOK'
    BY <1>5, <1>10, <1>11 DEF CallsOK
  <1>13. InTurn'
    BY <1>0, <1>5, <1>6 DEF InTurn, Stage, Thread, n
  <1>14. OwnBeforeOthers'
    <2>1. nodeMetadataCount > 0 => 1 \in 1..nodeMetadataCount
      BY <1>0 DEF ListOK
    <2>2. OwnFirst => OwnFirst'
      BY <1>0, <1>7, <2>1 DEF OwnFirst
    <2>3. Stage("main")' = "idle" => Stage("main") = "idle"
      BY <1>5, <1>6 DEF Stage, Thread
    <2> QED
      BY <1>0, <2>2, <2>3 DEF OwnBeforeOthers
  <1> QED
    BY <1>9, <1>12, <1>13, <1>14 DEF TableInv

\* The counting of a new row.
LEMMA CountKeeps ==
  ASSUME TableInv, NEW t \in Thread, CountRow(t)
  PROVE  TableInv'
  <1> DEFINE s == nodeMetadataCount + 1
  <1>0. /\ ListOK /\ CallsOK /\ InTurn /\ OwnBeforeOthers /\ Stage(t) = "count"
        /\ UNCHANGED <<nodeMetadataList, main, receiving, sharing, handed>>
        /\ nodeMetadataCount' = nodeMetadataCount + 1
    BY DEF TableInv, CountRow, Stage
  <1>1. /\ nodeMetadataCount < MAX_PLANS /\ nodeMetadataList[s] = Row(t) /\ Row(t) \in handed
        /\ \A i \in 1..nodeMetadataCount : nodeMetadataList[i].nodeId # call[t].nodeId
    BY <1>0 DEF CallsOK, CallOK
  <1>2. Row(t).nodeId = call[t].nodeId /\ Row(t) = [nodeId |-> Row(t).nodeId, text |-> Row(t).text]
    BY DEF Row
  <1>3. /\ nodeMetadataCount' \in 0..MAX_PLANS /\ nodeMetadataCount' > 0
        /\ \A i \in 1..nodeMetadataCount' : i \in 1..nodeMetadataCount \/ i = s
        /\ \A i \in 1..nodeMetadataCount : i \in 1..nodeMetadataCount'
    BY <1>0, <1>1, TableParameters DEF ListOK
  <1> HIDE DEF s
  <1>4. \A i \in 1..nodeMetadataCount' : WholeRow(i) /\ nodeMetadataList[i] \in handed
    BY <1>0, <1>1, <1>2, <1>3 DEF ListOK, WholeRow
  <1>5. \A i, j \in 1..nodeMetadataCount' :
          nodeMetadataList[i].nodeId = nodeMetadataList[j].nodeId => i = j
    <2>1. \A i \in 1..nodeMetadataCount : nodeMetadataList[i].nodeId # nodeMetadataList[s].nodeId
      BY <1>1, <1>2
    <2>2. \A i, j \in 1..nodeMetadataCount :
            nodeMetadataList[i].nodeId = nodeMetadataList[j].nodeId => i = j
      BY <1>0 DEF ListOK
    <2> QED
      BY <1>3, <2>1, <2>2
  <1>6. ListOK'
    BY <1>0, <1>3, <1>4, <1>5 DEF ListOK, WholeRow
  <1>7. /\ call' = [u \in Thread |-> call'[u]]
        /\ \A u \in Thread \ {t} : call'[u] = call[u]
        /\ call'[t] = Idle
    BY <1>0 DEF CountRow, CallsOK
  <1>8. CallOK(t)' /\ Stage(t)' = "idle"
    BY <1>7 DEF CallOK, Stage, Idle
  <1>9. ASSUME NEW u \in Thread \ {t} PROVE CallOK(u)'
    <2>1. call'[u] = call[u] /\ Stage(u)' = Stage(u) /\ CallOK(u)
      BY <1>0, <1>7 DEF CallsOK, Stage
    <2>2. Stage(u) \notin {"append", "count"}
      BY <1>0, OneAdds
    <2> QED
      BY <1>0, <1>3, <2>1, <2>2 DEF CallOK, WholeCall
  <1>10. CallsOK'
    BY <1>7, <1>8, <1>9 DEF CallsOK
  <1>11. InTurn'
    BY <1>0, <1>7, <1>8 DEF InTurn, Stage, Thread
  <1>12. sharing => OwnFirst'
    <2>1. CASE OwnFirst
      BY <1>0, <1>3, <2>1 DEF OwnFirst
    <2>2. CASE sharing /\ nodeMetadataCount = 0 /\ ~receiving
      <3>1. t = "main" /\ call[t].nodeId = Own
        BY <1>0, <2>2 DEF InTurn, Thread
      <3> QED
        BY <1>0, <1>1, <1>2, <1>3, <2>2, <3>1 DEF OwnFirst, s
    <2> QED
      BY <1>0, <2>1, <2>2 DEF OwnBeforeOthers
  <1>13. OwnBeforeOthers'
    BY <1>0, <1>12 DEF OwnBeforeOthers
  <1> QED
    BY <1>6, <1>10, <1>11, <1>13 DEF TableInv

\* Connections, services and losses.
LEMMA MainKeeps ==
  ASSUME TableInv, ConnectToIon \/ ServicesStart \/ ConnectionLost
  PROVE  TableInv'
  <1>0. /\ ListOK /\ CallsOK /\ InTurn /\ OwnBeforeOthers
        /\ UNCHANGED <<nodeMetadataList, nodeMetadataCount, sharing, handed>>
    BY DEF TableInv, ConnectToIon, ServicesStart, ConnectionLost
  <1>1. ListOK'
    BY <1>0 DEF ListOK, WholeRow
  <1>2. CASE ConnectToIon
    <2>1. /\ call' = [u \in Thread |-> call'[u]] /\ call'["reception"] = call["reception"]
          /\ call'["main"] = IF sharing THEN Calling(Own, OwnText) ELSE Idle
          /\ main' = "connecting" /\ receiving' = receiving
      BY <1>0, <1>2 DEF ConnectToIon, CallsOK, Thread
    <2>2. /\ call'["main"].stage = IF sharing THEN "find" ELSE "idle"
          /\ sharing => call'["main"].nodeId = Own /\ WholeCall("main")'
          /\ ~sharing => call'["main"] = Idle
      BY <2>1 DEF Calling, Idle, WholeCall
    <2>3. CallOK("main")'
      BY <1>0, <2>2 DEF CallOK, Stage
    <2>4. CallOK("reception")'
      BY <1>0, <2>1 DEF CallsOK, CallOK, Stage, WholeCall, Row, Thread
    <2>5. CallsOK'
      BY <2>1, <2>3, <2>4 DEF CallsOK, Thread
    <2>6. InTurn'
      BY <1>0, <2>1, <2>2 DEF InTurn, Stage
    <2>7. OwnBeforeOthers'
      BY <1>0, <2>1, <2>2 DEF OwnBeforeOthers, OwnFirst, Stage
    <2> QED
      BY <1>1, <2>5, <2>6, <2>7 DEF TableInv
  <1>3. CASE ServicesStart \/ ConnectionLost
    <2>1. UNCHANGED call
      BY <1>3 DEF ServicesStart, ConnectionLost
    <2>2. CallsOK'
      BY <1>0, <2>1 DEF CallsOK, CallOK, Stage, WholeCall, Row
    <2>3. Stage("main") = "idle"
      <3>1. CASE ServicesStart
        BY <3>1 DEF ServicesStart, StartsReception, Stage, Idle
      <3>2. CASE ConnectionLost
        BY <1>0, <3>2 DEF ConnectionLost, InTurn
      <3> QED
        BY <1>3, <3>1, <3>2
    <2>4. InTurn'
      BY <1>0, <1>3, <2>1, <2>3 DEF InTurn, Stage, ServicesStart, ConnectionLost
    <2>5. OwnBeforeOthers'
      <3>1. CASE ServicesStart
        BY <1>0, <2>3, <3>1
        DEF OwnBeforeOthers, OwnFirst, Stage, ServicesStart, StartsReception
      <3>2. CASE ConnectionLost
        BY <1>0, <3>2 DEF OwnBeforeOthers, OwnFirst, ConnectionLost
      <3> QED
        BY <1>3, <3>1, <3>2
    <2> QED
      BY <1>1, <2>2, <2>4, <2>5 DEF TableInv
  <1> QED
    BY <1>2, <1>3

\* A row handed over.
LEMMA HandKeeps ==
  ASSUME TableInv, NEW n, NEW text, Hand(n, text)
  PROVE  TableInv'
  <1>0. /\ ListOK /\ CallsOK /\ InTurn /\ OwnBeforeOthers /\ receiving
        /\ UNCHANGED <<nodeMetadataList, nodeMetadataCount, main, receiving, sharing, handed>>
    BY DEF TableInv, Hand
  <1>1. ListOK'
    BY <1>0 DEF ListOK, WholeRow
  <1>2. /\ call' = [u \in Thread |-> call'[u]] /\ call'["main"] = call["main"]
        /\ call'["reception"] = Calling(n, text)
    BY <1>0 DEF Hand, CallsOK, Thread
  <1>3. call'["reception"].stage = "find" /\ WholeCall("reception")'
    BY <1>2 DEF Calling, WholeCall
  <1>4. CallOK("reception")'
    BY <1>0, <1>3 DEF CallOK, Stage
  <1>5. CallOK("main")'
    BY <1>0, <1>2 DEF CallsOK, CallOK, Stage, WholeCall, Row, Thread
  <1>6. CallsOK'
    BY <1>2, <1>4, <1>5 DEF CallsOK, Thread
  <1>7. InTurn' /\ OwnBeforeOthers'
    BY <1>0, <1>2 DEF InTurn, OwnBeforeOthers, OwnFirst, Stage
  <1> QED
    BY <1>1, <1>6, <1>7 DEF TableInv

LEMMA TableStutters == TableInv /\ UNCHANGED tableVars => TableInv'
  <1> SUFFICES ASSUME TableInv, UNCHANGED tableVars PROVE TableInv'
    OBVIOUS
  <1>1. ListOK' /\ InTurn' /\ OwnBeforeOthers'
    BY DEF TableInv, ListOK, WholeRow, InTurn, OwnBeforeOthers, OwnFirst, Stage, tableVars
  <1>2. CallsOK'
    BY DEF TableInv, CallsOK, CallOK, WholeCall, Row, Stage, tableVars
  <1> QED
    BY <1>1, <1>2 DEF TableInv

LEMMA TableIsSoundThen == TableInv => TableIsSound
  <1> SUFFICES ASSUME TableInv PROVE TableIsSound
    OBVIOUS
  <1>1. \A i \in 1..nodeMetadataCount :
          nodeMetadataList[i] \in handed /\ RowsOf(nodeMetadataList[i].nodeId) = {i}
    BY DEF TableInv, ListOK, RowsOf
  <1>2. receiving /\ sharing => nodeMetadataCount > 0 /\ nodeMetadataList[1].nodeId = Own
    BY DEF TableInv, OwnBeforeOthers, OwnFirst
  <1> QED
    BY <1>1, <1>2 DEF TableIsSound
=============================================================================
