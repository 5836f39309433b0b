------------------------------- MODULE Config -------------------------------
(***************************************************************************)
(* loadConfig of dtnex.c: a file of settings read line by line into        *)
(* DtnexConfig.  A file is a sequence of symbols: the characters that      *)
(* separate, and one symbol for each name, number or run of other text.    *)
(* Sizes are in symbols.                                                   *)
(***************************************************************************)
EXTENDS Integers, Sequences, FiniteSetsExt

CONSTANTS
  Numeral,          \* the symbols that are numbers
  MAX_LINE_LENGTH,  \* the buffer of fgets
  Room              \* Room[k]: the array of a text

Blank == " "
Newline == "newline"
Equals == "="
Hash == "#"
Quote == "quote"
Space == {Blank, Newline}

Numbers == {"updateInterval", "metadataLifetime", "bundleTTL"}
Coordinates == {"gpsLatitude", "gpsLongitude"}
Texts == {"presSharedNetworkKey", "serviceNr", "bpechoServiceNr", "nodemetadata", "graphFile"}
Switches == {"debugMode", "serviceMode"}
Latches == {"createGraph", "noMetadataExchange"}
Key == Numbers \cup Coordinates \cup Texts \cup Switches \cup Latches \cup {"hasGpsCoordinates"}

ASSUME ConfigAssumption ==
  /\ MAX_LINE_LENGTH \in Nat \ {0, 1}
  /\ Room \in [Texts -> Nat \ {0}]

\* What holds before the file is opened, and stays when there is none.  The documents
\* do not agree on two of them: src/README.md (188) says that graphFile is
\* contactGraph.png, and docs/spec_dtnex_v3.md (422) that an exchange is due after thirty
\* minutes.
Defaults ==
  [k \in Key |-> CASE k = "updateInterval" -> "600" [] k = "metadataLifetime" -> "3600"
                   [] k = "bundleTTL" -> "1800"
                   [] k = "presSharedNetworkKey" -> <<"open">>
                   [] k = "serviceNr" -> <<"12160">> [] k = "bpechoServiceNr" -> <<"12161">>
                   [] k = "graphFile" -> <<"contactGraph.gv">> [] k = "nodemetadata" -> <<>>
                   [] k \in Coordinates -> "0"
                   [] OTHER -> k = "noMetadataExchange"]

\* fgets: a line with its end, or as much of it as the buffer holds.
Line(text) ==
  LET ends == {i \in 1..Len(text) : text[i] = Newline}
  IN SubSeq(text, 1, Min(ends \cup {Len(text), MAX_LINE_LENGTH - 1}))

SkipBlanks(s) ==
  LET solid == {i \in 1..Len(s) : s[i] \notin Space}
  IN IF solid = {} THEN <<>> ELSE SubSeq(s, Min(solid), Len(s))

\* Mutant of TrimEnd: the blanks stay.
TrimEnd_Nothing(s) == s

\* The loop leaves the first character, whatever it is.
TrimEnd(s) ==
  IF s = <<>> THEN s ELSE SubSeq(s, 1, Max({1} \cup {i \in 1..Len(s) : s[i] \notin Space}))

\* The first token of s that strtok finds, and what it leaves for the next call.
Strtok(s, delimiter) ==
  LET starts == {i \in 1..Len(s) : s[i] # delimiter}
      start == Min(starts)
      ends == {i \in start..Len(s) : s[i] = delimiter}
      end == Min(ends \cup {Len(s) + 1})
  IN IF starts = {} THEN [token |-> <<>>, rest |-> <<>>]
     ELSE [token |-> SubSeq(s, start, end - 1), rest |-> SubSeq(s, end + 1, Len(s))]

\* strchr(value, '#'): quotes do not protect it.
Uncommented(s) ==
  LET marks == {i \in 1..Len(s) : s[i] = Hash}
  IN IF marks = {} THEN s ELSE SubSeq(s, 1, Min(marks) - 1)

\* A single quote is both, and leaves an empty text.
Unquoted(s) ==
  IF s # <<>> /\ s[1] = Quote /\ s[Len(s)] = Quote THEN SubSeq(s, 2, Len(s) - 1) ELSE s

Nothing == [key |-> <<>>, value |-> <<>>]

\* What a line says.
Entry(line) ==
  LET text == SkipBlanks(line)
      key == Strtok(text, Equals)
      value == Strtok(key.rest, Newline)
  IN IF text = <<>> \/ text[1] = Hash \/ key.token = <<>> \/ value.token = <<>> THEN Nothing
     ELSE [key |-> TrimEnd(key.token),
           value |-> Unquoted(TrimEnd(Uncommented(SkipBlanks(value.token))))]

\* atoi and atof: zero for what is not a number.
Numeric(s) == IF s # <<>> /\ s[1] \in Numeral THEN s[1] ELSE "0"

\* strncpy to one less than the array, whose last byte only nodemetadata has
\* been given a value: a text that fills its array may go on behind it.
Copied(k, s) ==
  IF Len(s) < Room[k] - 1 THEN {s}
  ELSE LET cut == SubSeq(s, 1, Room[k] - 1)
       IN {cut} \cup IF k = "nodemetadata" THEN {} ELSE {Append(cut, "garbage")}

On(s) == s \in {<<"true">>, <<"1">>}

\* The configurations that may follow c when key is given the value s.
Assign(c, key, s) ==
  CASE key \in Numbers -> {[c EXCEPT ![key] = Numeric(s)]}
    [] key = "contactLifetime" -> {[c EXCEPT !["metadataLifetime"] = Numeric(s)]}
    [] key \in Texts -> {[c EXCEPT ![key] = t] : t \in Copied(key, s)}
    [] key = "createGraph" -> {[c EXCEPT ![key] = @ \/ On(s)]}
    [] key = "noMetadataExchange" -> {[c EXCEPT ![key] = @ \/ s = <<"true">>]}
    [] key \in Switches -> {[c EXCEPT ![key] = On(s)]}
    [] key \in Coordinates ->
         {[c EXCEPT ![key] = Numeric(s), !["hasGpsCoordinates"] = TRUE]}
    [] OTHER -> {c}

Load(c, line) ==
  LET e == Entry(line) IN IF Len(e.key) # 1 THEN {c} ELSE Assign(c, e.key[1], e.value)
=============================================================================
