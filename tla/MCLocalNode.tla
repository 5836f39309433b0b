---------------------------- MODULE MCLocalNode ----------------------------
(* Instance of LocalNode for TLC: files of up to two lines, and one of three,
   with every kind of setting, spelled in several ways, and some whose lines are
   not clear. *)
EXTENDS LocalNode

MCRoom == [k \in Texts |-> IF k = "nodemetadata" THEN 5 ELSE 3]

Setting(k, v, blanks, quoted, remark) ==
  [key |-> k, value |-> v, blanks |-> blanks, quoted |-> quoted, remark |-> remark]

Plainly(k, v) == Setting(k, v, 0, FALSE, FALSE)

Value == {<<"true">>, <<"1">>, <<"7">>, <<"12200">>, <<"name", Blank, "place">>,
          <<"a", "b", "c", "d">>, <<>>, <<"a", Hash, "b">>}

\* A remark too long for the buffer, whose end is a setting.
Long == Repeat("word", 10) \o <<"createGraph", Equals, "true">>

Spellings ==
  {Plainly(k, v) : k \in (Key \ {"hasGpsCoordinates"}) \cup {"contactLifetime", "unknown"},
                   v \in Value}
    \cup {Setting("nodemetadata", v, blanks, quoted, remark) :
            v \in Value, blanks \in 0..2, quoted \in BOOLEAN, remark \in BOOLEAN}
    \cup {Setting("serviceNr", <<"12161">>, 1, FALSE, TRUE)}
    \cup {Plainly(Hash, v) : v \in {<<>>, Repeat("word", 9) \o <<"createGraph", Equals, "1">>,
                                    Long}}

\* Those a second line may follow or precede.
Common ==
  {Plainly("createGraph", v) : v \in {<<"true">>, <<"false">>}}
    \cup {Plainly("noMetadataExchange", v) : v \in {<<"true">>, <<"false">>}}
    \cup {Plainly("debugMode", v) : v \in {<<"true">>, <<"false">>}}
    \cup {Plainly("contactLifetime", <<"7">>), Plainly("metadataLifetime", <<"12200">>),
          Plainly("nodemetadata", <<"a", "b">>), Plainly("serviceNr", <<"12200">>),
          Plainly("graphFile", <<"a", "b", "c", "d">>), Plainly(Hash, Long),
          Setting("serviceMode", <<"true", Hash>>, 0, TRUE, FALSE)}

MCFiles == {<<>>} \cup {<<l>> : l \in Spellings} \cup (Common \X Common)
             \cup {<<Plainly("nodemetadata", <<"a", "b">>), Plainly("createGraph", <<"true">>),
                     Plainly("serviceNr", <<"12200">>)>>}

MCOwn == 1
MCHeard == {[nodeId |-> n, text |-> t] : n \in {2, 3}, t \in {"x"}}
=============================================================================
