-------------------------------- MODULE Cbor --------------------------------
(***************************************************************************)
(* The CBOR items of dtnex: what ION's encoder writes for an integer and a *)
(* string, and what the reader written by hand in dtnex.c takes back.      *)
(*                                                                         *)
(* A C integer is its eight bytes, the most significant first, so that     *)
(* widths, casts and signs are what the machine does.  A cursor is the     *)
(* pair (cursor, bytesBuffered) of the code: it is read and moved by the   *)
(* same tests, and nothing here keeps it inside the buffer.                *)
(***************************************************************************)
EXTENDS Integers, Sequences

Byte == 0..255
Vast == [1..8 -> Byte]        \* uvast, unsigned long, and a time or an int converted to it

Zero == [i \in 1..8 |-> 0]
Small(n) == [i \in 1..8 |-> IF i = 7 THEN n \div 256 ELSE IF i = 8 THEN n % 256 ELSE 0]

\* Casts to unsigned int and to int, and back.
UInt32(v) == [i \in 1..8 |-> IF i <= 4 THEN 0 ELSE v[i]]

Int32(v) == [i \in 1..8 |-> IF i > 4 THEN v[i] ELSE IF v[5] >= 128 THEN 255 ELSE 0]

Precedes(v, w) == \E i \in 1..8 : v[i] < w[i] /\ \A j \in 1..(i - 1) : v[j] = w[j]

\* Major types.
UnsignedInteger == 0
ByteString == 2
TextString == 3
ArrayOpen == 4

Initial(major, info) == major * 32 + info

\* Mutant of Width: twenty-four is taken to fit in the first byte.
Width_OffByOne(v) ==
  IF \E i \in 1..4 : v[i] # 0 THEN 8
  ELSE IF v[5] # 0 \/ v[6] # 0 THEN 4
  ELSE IF v[7] # 0 THEN 2
  ELSE IF v[8] > 24 THEN 1 ELSE 0

Width(v) ==
  IF \E i \in 1..4 : v[i] # 0 THEN 8
  ELSE IF v[5] # 0 \/ v[6] # 0 THEN 4
  ELSE IF v[7] # 0 THEN 2
  ELSE IF v[8] >= 24 THEN 1 ELSE 0

Info(v) == CASE Width(v) = 8 -> 27 [] Width(v) = 4 -> 26 [] Width(v) = 2 -> 25
             [] Width(v) = 1 -> 24 [] OTHER -> v[8]

\* cbor_encode_integer: the smallest class that holds the value.
EncodeHead(major, v) ==
  [i \in 1..(1 + Width(v)) |->
     IF i = 1 THEN Initial(major, Info(v)) ELSE v[7 - Width(v) + i]]

EncodeInteger(v) == EncodeHead(UnsignedInteger, v)
\* Mutant of EncodeText: the final zero of the C string is sent too.
EncodeText_WithZero(s) == EncodeHead(TextString, Small(Len(s) + 1)) \o s \o <<0>>

EncodeText(s) == EncodeHead(TextString, Small(Len(s))) \o s
EncodeBytes(s) == EncodeHead(ByteString, Small(Len(s))) \o s
EncodeArrayOpen(n) == EncodeHead(ArrayOpen, Small(n))

-----------------------------------------------------------------------------
Start(buf) == [at |-> 1, left |-> Len(buf)]
Advance(c, n) == [at |-> c.at + n, left |-> c.left - n]

MajorAt(buf, c) == buf[c.at] \div 32
InfoAt(buf, c) == buf[c.at] % 32

Follows(info) == CASE info = 24 -> 1 [] info = 25 -> 2 [] info = 26 -> 4 [] info = 27 -> 8
                   [] OTHER -> 0

\* The argument of the head at c: its own low bits or the bytes that follow.
Argument(buf, c) ==
  LET w == Follows(InfoAt(buf, c))
  IN [i \in 1..8 |-> IF w = 0 THEN IF i = 8 THEN InfoAt(buf, c) ELSE 0
                     ELSE IF i <= 8 - w THEN 0 ELSE buf[c.at + w - 8 + i]]

AfterHead(buf, c) == Advance(c, 1 + Follows(InfoAt(buf, c)))

HeadAt(buf, c, major, infos) ==
  /\ c.left >= 1
  /\ MajorAt(buf, c) = major
  /\ InfoAt(buf, c) \in infos
  /\ c.left - 1 >= Follows(InfoAt(buf, c))

\* manualDecodeCborInteger returns 1, and the value it stores.
IntegerAt(buf, c) == HeadAt(buf, c, UnsignedInteger, 0..27)
IntegerValue(buf, c) == Argument(buf, c)
\* Mutant of AfterInteger: four bytes are read and two are passed.
AfterInteger_Short(buf, c) ==
  IF InfoAt(buf, c) = 26 THEN Advance(c, 3) ELSE AfterHead(buf, c)

AfterInteger(buf, c) == AfterHead(buf, c)

\* manualDecodeCborString: lengths of up to two bytes, and room for the final zero.
TextLength(buf, c) == Argument(buf, c)[7] * 256 + Argument(buf, c)[8]
\* Mutant of TextAt: the room of the member is not looked at.
TextAt_NoRoom(buf, c, maxLen) ==
  /\ HeadAt(buf, c, TextString, 0..25)
  /\ AfterHead(buf, c).left >= TextLength(buf, c)

TextAt(buf, c, maxLen) ==
  /\ HeadAt(buf, c, TextString, 0..25)
  /\ AfterHead(buf, c).left >= TextLength(buf, c)
  /\ TextLength(buf, c) <= maxLen - 1
TextValue(buf, c) ==
  [i \in 1..TextLength(buf, c) |-> buf[AfterHead(buf, c).at + i - 1]]
AfterText(buf, c) == Advance(AfterHead(buf, c), TextLength(buf, c))

\* skipCborElement: the content of a string is skipped, of an array or a map
\* only the head.  The length goes through an int: the shifts of longer lengths
\* leave its low four bytes, and a negative one is more than any buffer holds.
IsString(buf, c) == MajorAt(buf, c) \in {ByteString, TextString}
SkipLength(buf, c) ==
  IF ~IsString(buf, c) THEN 0
  ELSE ((Argument(buf, c)[5] * 256 + Argument(buf, c)[6]) * 256 + Argument(buf, c)[7]) * 256
         + Argument(buf, c)[8]
\* Mutant of Skippable: the bytes of the argument are not counted.
Skippable_NoArgument(buf, c) ==
  /\ c.left >= 1
  /\ InfoAt(buf, c) \in 0..27
  /\ IsString(buf, c) => Argument(buf, c)[5] < 128
  /\ c.left - 1 >= SkipLength(buf, c)

Skippable(buf, c) ==
  /\ c.left >= 1
  /\ InfoAt(buf, c) \in 0..27
  /\ c.left - 1 >= Follows(InfoAt(buf, c))
  /\ IsString(buf, c) => Argument(buf, c)[5] < 128
  /\ AfterHead(buf, c).left >= SkipLength(buf, c)
AfterSkip(buf, c) == Advance(AfterHead(buf, c), SkipLength(buf, c))
=============================================================================
