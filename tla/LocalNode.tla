----------------------------- MODULE LocalNode -----------------------------
(***************************************************************************)
(* One node for itself: the configuration file is read, init connects and  *)
(* sets the services, the loop connects again when ION went away or starts *)
(* the process anew, and main writes the graph and the list of nodes from  *)
(* the address book while the reception thread changes it.  The settings   *)
(* are Config, the address book is MetadataTable.                          *)
(***************************************************************************)
EXTENDS Config, MetadataTable

CONSTANTS
  Files,      \* what dtnex.conf may say: sequences of lines as Written spells them
  NoFile,     \* there is none
  Heard,      \* [nodeId, text] of the metadata messages that may come
  MaxHeard,   \* bound: messages that come
  MaxGraphs   \* bound: graphs written

\* A line is a remark, or a setting whose spelling says where its blanks and quotes
\* belong: those at the ends of a value are the value's if they are quoted.
IsText(s) == s \in Seq({s[i] : i \in DOMAIN s})

WellPut(line) ==
  /\ IsText(line.value) /\ \A j \in DOMAIN line.value : line.value[j] # Newline
  /\ line.key # Hash =>
       /\ line.key \notin Space \cup {Equals}
       /\ line.blanks \in Nat /\ line.quoted \in BOOLEAN /\ line.remark \in BOOLEAN
       /\ ~line.quoted /\ line.value # <<>> =>
            /\ line.value[1] \notin Space /\ line.value[Len(line.value)] \notin Space
            /\ line.value[1] # Quote \/ line.value[Len(line.value)] # Quote

ASSUME FilesAssumption ==
  \A f \in Files : IsText(f) /\ \A i \in DOMAIN f : WellPut(f[i])

\* Each node announces its own number, and what has come back is skipped.
ASSUME LocalNodeAssumption == \A m \in Heard : m.nodeId # Own

VARIABLES
  file,      \* what the operator wrote
  unread,    \* what fgets has not returned yet
  config,
  phase,     \* of main: "loading", "init", "initialised" or "loop"
  endpoint,  \* what sap is open on, and whether init or the loop opened it
  graph,     \* createGraph: its stage, the row it is at, what it has written
  heard, graphs

nodeVars == <<file, unread, config, phase, endpoint, graph, heard, graphs>>
vars == <<nodeVars, tableVars>>

Closed == [service |-> <<>>, by |-> "nobody"]
NoGraph == [stage |-> "none"]

-----------------------------------------------------------------------------
\* A line of the file: a setting as an operator writes it, or a remark.
Repeat(symbol, n) == [i \in 1..n |-> symbol]

Spelled(line) ==
  IF line.key = Hash THEN <<Hash>> \o line.value \o <<Newline>>
  ELSE Repeat(Blank, line.blanks) \o <<line.key>> \o Repeat(Blank, line.blanks) \o <<Equals>>
         \o Repeat(Blank, line.blanks)
         \o (IF line.quoted THEN <<Quote>> \o line.value \o <<Quote>> ELSE line.value)
         \o Repeat(Blank, line.blanks)
         \o (IF line.remark THEN <<Hash, "remark", Equals>> ELSE <<>>) \o <<Newline>>

SpelledFile(lines) ==
  LET upTo[i \in 0..Len(lines)] == IF i = 0 THEN <<>> ELSE upTo[i - 1] \o Spelled(lines[i])
  IN upTo[Len(lines)]

\* loadConfig up to the loop.
Opened(f) ==
  /\ unread = IF f = NoFile THEN <<>> ELSE SpelledFile(f)
  /\ config = [Defaults EXCEPT !["noMetadataExchange"] = (f = NoFile)]

Init ==
  /\ TableInit /\ ~sharing
  /\ file \in Files \cup {NoFile}
  /\ Opened(file)
  /\ phase = "loading" /\ endpoint = Closed /\ graph = NoGraph
  /\ heard = 0 /\ graphs = 0

LoadLine ==
  /\ phase = "loading" /\ unread # <<>>
  /\ config' \in Load(config, Line(unread))
  /\ unread' = SubSeq(unread, Len(Line(unread)) + 1, Len(unread))
  /\ UNCHANGED <<file, phase, endpoint, graph, heard, graphs, tableVars>>

\* main: the flags of the command line, over the settings of the file.
Flags ==
  /\ phase = "loading" /\ unread = <<>>
  /\ \E flags \in SUBSET Switches :
       config' = [k \in Key |-> IF k \in flags THEN TRUE ELSE config[k]]
  /\ phase' = "init"
  /\ sharing' = (~config["noMetadataExchange"] /\ config["nodemetadata"] # <<>>)
  /\ UNCHANGED <<file, unread, endpoint, graph, heard, graphs, nodeMetadataList,
                 nodeMetadataCount, call, main, receiving, handed, connects>>

-----------------------------------------------------------------------------
\* tryConnectToIon, called by init and by the loop.
Connect ==
  /\ phase \in {"init", "loop"} /\ graph.stage = "none"
  /\ ConnectToIon
  /\ endpoint' = [service |-> config["serviceNr"], by |-> phase]
  /\ phase' = IF phase = "init" THEN "initialised" ELSE phase
  /\ UNCHANGED <<file, unread, config, graph, heard, graphs>>

\* init goes on without ION.  The number of the node is 0 in the code until a
\* connection has read it (:494), and a graph written before says ipn:0; here that
\* graph says Own too.
ConnectFails ==
  /\ phase = "init"
  /\ phase' = "initialised"
  /\ UNCHANGED <<file, unread, config, endpoint, graph, heard, graphs, tableVars>>

Services == [serviceNr |-> <<"12160">>, bpechoServiceNr |-> <<"12161">>]

\* Mutant of SetServices: the two numbers swapped.
SetServices_Swapped(c) == [c EXCEPT !["serviceNr"] = Services.bpechoServiceNr,
                                    !["bpechoServiceNr"] = Services.serviceNr]

\* init: the two strcpy that follow the attempt.
SetServices(c) == [c EXCEPT !["serviceNr"] = Services.serviceNr,
                            !["bpechoServiceNr"] = Services.bpechoServiceNr]

InitEnds ==
  /\ phase = "initialised" /\ call["main"] = Idle
  /\ config' = SetServices(config)
  /\ phase' = "loop"
  /\ UNCHANGED <<file, unread, endpoint, graph, heard, graphs, tableVars>>

StartServices ==
  /\ phase = "loop"
  /\ ServicesStart
  /\ UNCHANGED nodeVars

\* The status check of the loop fails: the endpoint is opened again later.
LoseConnection ==
  /\ graph.stage = "none"
  /\ ConnectionLost
  /\ UNCHANGED nodeVars

\* restartDtnex: execv starts the process anew.
restartDtnex ==
  /\ connects < MaxConnects
  /\ phase' = "loading"
  /\ unread' = IF file = NoFile THEN <<>> ELSE SpelledFile(file)
  /\ config' = [Defaults EXCEPT !["noMetadataExchange"] = (file = NoFile)]
  /\ endpoint' = Closed
  /\ nodeMetadataList' = [i \in 1..MAX_PLANS |-> NoRow] /\ nodeMetadataCount' = 0
  /\ call' = [t \in Thread |-> Idle]
  /\ main' = "off" /\ receiving' = FALSE /\ sharing' = FALSE /\ handed' = {}
  /\ UNCHANGED <<file, graph, heard, graphs, connects>>

-----------------------------------------------------------------------------
\* The reception thread hands a metadata message over.
Hear ==
  /\ receiving /\ call["reception"] = Idle /\ heard < MaxHeard
  /\ \E m \in Heard : call' = [call EXCEPT !["reception"] = Calling(m.nodeId, m.text)]
  /\ heard' = heard + 1
  /\ UNCHANGED <<file, unread, config, phase, endpoint, graph, graphs, nodeMetadataList,
                 nodeMetadataCount, main, receiving, sharing, handed, connects>>

updateNodeMetadata == (Update("main") \/ Update("reception")) /\ UNCHANGED nodeVars

Listed == {nodeMetadataList[i].nodeId : i \in 1..nodeMetadataCount}

\* createGraph, called by main between its other calls.
BeginGraph ==
  /\ config["createGraph"] /\ graphs < MaxGraphs
  /\ graph' = [stage |-> "draw", row |-> 1, drawn |-> <<>>, lines |-> <<>>, total |-> 0,
               known |-> Listed]
  /\ graphs' = graphs + 1
  /\ UNCHANGED <<file, unread, config, phase, endpoint, heard, tableVars>>

Free == phase = "loop" /\ main # "connecting" /\ call["main"] = Idle /\ graph.stage = "none"

\* What a transaction on ION finds: it has gone, has no node number yet, has
\* another than before, or is the one of before.
Ion == {"gone", "starting", "another", "same"}

ionc_print_contact_table(ion) == IF ion = "gone" THEN -1 ELSE 0

ionc_check_alive(ion) == CASE ion = "gone" -> -1 [] ion = "same" -> 1 [] OTHER -> 0

\* Two transactions, and ION may change in between.
getContacts ==
  /\ Free /\ main = "on"
  /\ \E first, second \in Ion :
       IF ionc_print_contact_table(first) < 0 \/ ionc_check_alive(second) # 1
         THEN restartDtnex
         ELSE BeginGraph

\* The loop draws the graph of every update again, ION connected or not.
DrawAgain == Free /\ BeginGraph

WithinTable == graph.row <= nodeMetadataCount

\* The node of each row, then the node itself.
Draw ==
  /\ graph.stage = "draw"
  /\ graph' = IF WithinTable
                THEN [graph EXCEPT !.drawn = Append(@, nodeMetadataList[graph.row].nodeId),
                                   !.row = @ + 1]
                ELSE [graph EXCEPT !.drawn = Append(@, Own), !.stage = "list", !.row = 1,
                                   !.lines = <<Own>>]
  /\ UNCHANGED <<file, unread, config, phase, endpoint, heard, graphs, tableVars>>

\* Mutant of Skipped: the own row is not left out of the list.
Skipped_Nobody(n) == FALSE

Skipped(n) == n = Own

\* The list of nodes beside the graph: the node itself, then the other rows.
List ==
  /\ graph.stage = "list"
  /\ graph' = IF ~WithinTable THEN [graph EXCEPT !.stage = "total"]
              ELSE LET n == nodeMetadataList[graph.row].nodeId
                   IN [graph EXCEPT !.lines = IF Skipped(n) THEN @ ELSE Append(@, n),
                                    !.row = @ + 1]
  /\ UNCHANGED <<file, unread, config, phase, endpoint, heard, graphs, tableVars>>

Total ==
  /\ graph.stage = "total"
  /\ graph' = [graph EXCEPT !.stage = "written", !.total = nodeMetadataCount + 1]
  /\ UNCHANGED <<file, unread, config, phase, endpoint, heard, graphs, tableVars>>

EndGraph ==
  /\ graph.stage = "written"
  /\ graph' = NoGraph
  /\ UNCHANGED <<file, unread, config, phase, endpoint, heard, graphs, tableVars>>

createGraph == DrawAgain \/ Draw \/ List \/ Total \/ EndGraph

Next ==
  \/ LoadLine \/ Flags \/ Connect \/ ConnectFails \/ InitEnds \/ StartServices
  \/ LoseConnection \/ getContacts \/ Hear \/ updateNodeMetadata \/ createGraph

Spec == Init /\ [][Next]_vars

-----------------------------------------------------------------------------
\* The names under which a file gives k; contactLifetime is an old one.
Names(k) ==
  CASE k = "metadataLifetime" -> {k, "contactLifetime"}
    [] k = "hasGpsCoordinates" -> Coordinates
    [] OTHER -> {k}

Given(k) == {i \in DOMAIN file : file[i].key \in Names(k)}

Last(k) == file[Max(Given(k))].value

\* A line that is read as it is meant: it fits the buffer of fgets, and the value
\* of a setting is not left out and holds no mark of a remark.
Fits(line) == Len(Spelled(line)) < MAX_LINE_LENGTH

Clear(line) ==
  /\ Fits(line)
  /\ line.key # Hash =>
       /\ \A j \in DOMAIN line.value : line.value[j] # Hash
       /\ line.value # <<>> \/ line.quoted

\* The names to which another line may give something that is not meant.
Spoils(line) ==
  IF Clear(line) THEN {}
  ELSE {line.key} \cup IF Fits(line) THEN {} ELSE {line.value[j] : j \in DOMAIN line.value}

Unspoilt(k) == \A i \in DOMAIN file : Names(k) \cap Spoils(file[i]) = {}

\* What src/README.md promises for a setting that is left out (179-190, 250).  Two
\* of its rows are not here: graphFile, where it has contactGraph.png and loadConfig
\* sets contactGraph.gv, and updateInterval, where it has 600 s, as the code, but
\* docs/spec_dtnex_v3.md (422) thirty minutes.
Documented ==
  [k \in {"bundleTTL", "metadataLifetime", "presSharedNetworkKey", "nodemetadata",
           "serviceNr"} \cup Switches |->
     CASE k = "bundleTTL" -> "1800"
       [] k = "metadataLifetime" -> "3600"
       [] k = "presSharedNetworkKey" -> <<"open">>
       [] k = "serviceNr" -> <<"12160">>
       [] k = "nodemetadata" -> <<>>
       [] OTHER -> FALSE]

\* v is what becomes of the value s, of which as much is kept as there is room for.
Holds(k, v, s) ==
  /\ k \in Texts =>
       IF Len(s) < Room[k] - 1 THEN v = s
       ELSE SubSeq(v, 1, Room[k] - 1) = SubSeq(s, 1, Room[k] - 1)
  /\ k \in Switches => v = On(s)
  /\ k \notin Texts \cup Switches => v = Numeric(s)

TurnsOn(k, s) == s = <<"true">> \/ (k = "createGraph" /\ s = <<"1">>)

(* The settings are what the operator wrote, wherever blanks, quotes and       *)
(* remarks stand and in whatever order the lines come: the last line of a name *)
(* counts, but createGraph and noMetadataExchange stay on once a line has      *)
(* turned them on, and what is left out is what the documentation says, but    *)
(* for the two settings on which it is wrong or at odds with itself, graphFile *)
(* and updateInterval, of which nothing is said when they are left out.  A     *)
(* line that is not clear does not harm beyond the names in it: one too long   *)
(* for fgets is read as several, and the later ones may be settings although   *)
(* it was a remark; a # within quotes, or a value left out, costs the line its *)
(* own setting only; and a text that fills its array keeps its beginning.      *)
SettingsAsWritten ==
  phase = "loading" /\ unread = <<>> /\ file # NoFile =>
    \A k \in Key : Unspoilt(k) =>
      IF k \in Latches THEN config[k] = \E i \in Given(k) : TurnsOn(k, file[i].value)
      ELSE IF k = "hasGpsCoordinates" THEN config[k] = (Given(k) # {})
      ELSE IF Given(k) # {} THEN Holds(k, config[k], Last(k))
      ELSE k \in DOMAIN Documented => config[k] = Documented[k]

(* A connected node receives on the service its neighbours send to, which is   *)
(* the one it sends to itself, and not on that of its echo.  It does not when  *)
(* the file names other services and init, rather than the loop, connected:    *)
(* init opens the endpoint the file names and then sets both numbers to those  *)
(* of the release, so that the file counts for the first endpoint only.        *)
ListensWhereItSendsUnlessRenamed ==
  main = "on" =>
    \/ /\ endpoint.service = config["serviceNr"]
       /\ endpoint.service # config["bpechoServiceNr"]
    \/ endpoint.by = "init" /\ endpoint.service # Defaults["serviceNr"]

Times(s, n) == Cardinality({i \in DOMAIN s : s[i] = n})

(* The graph and the list beside it, read row by row while the reception       *)
(* thread writes, name every node known when they were begun and none twice.   *)
(* The node itself is drawn twice and counted twice in the total if it shares  *)
(* metadata, since it has a row of its own by then, and listed once; the total *)
(* is that of the lines otherwise, but for what comes in between.              *)
GraphNamesEachNodeOnce ==
  graph.stage = "written" =>
    LET own == IF Own \in graph.known THEN 1 ELSE 0
        written == {graph.drawn[i] : i \in DOMAIN graph.drawn}
        listed == {graph.lines[i] : i \in DOMAIN graph.lines}
    IN /\ graph.known \cup {Own} \subseteq written \cap listed
       /\ \A n \in written : Times(graph.drawn, n) = (IF n = Own THEN 1 + own ELSE 1)
       /\ \A n \in listed : Times(graph.lines, n) = 1
       /\ graph.total >= Len(graph.lines) + own
       /\ Listed = graph.known => graph.total = Len(graph.lines) + own
=============================================================================
