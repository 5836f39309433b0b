-------------------------- MODULE LocalNodeProofs --------------------------
(***************************************************************************)
(* Proofs about LocalNode, for every file, number of rows, connections and *)
(* messages: a connected node receives where it sends, unless the file     *)
(* names other services; the graph and the list beside it name every node  *)
(* once while the reception thread writes; and the settings are what the   *)
(* file says.                                                              *)
(***************************************************************************)
EXTENDS LocalNode, CommonProofs, FiniteSetTheorems

-----------------------------------------------------------------------------
(* The services.                                                           *)

\* A configuration gives every setting a value.
ConfigOK == config = [k \in Key |-> config[k]]

\* Once init has ended the numbers are those of the release.
Released ==
  config["serviceNr"] = <<"12160">> /\ config["bpechoServiceNr"] = <<"12161">>

ServiceInv ==
  /\ ConfigOK
  /\ phase \in {"loading", "init", "initialised", "loop"}
  /\ phase = "loop" => Released
  /\ phase \in {"loading", "init"} => main = "off"
  /\ main = "on" => phase = "loop"
  /\ main # "off" =>
       \/ endpoint.by = "init"
       \/ endpoint.by = "loop" /\ phase = "loop" /\ endpoint.service = <<"12160">>

LEMMA Keys ==
  /\ {"serviceNr", "bpechoServiceNr", "createGraph", "noMetadataExchange", "nodemetadata",
      "metadataLifetime", "hasGpsCoordinates"} \subseteq Key
  /\ Numbers \subseteq Key /\ Coordinates \subseteq Key /\ Texts \subseteq Key
  /\ Switches \subseteq Key /\ Latches \subseteq Key
  BY DEF Key, Numbers, Coordinates, Texts, Switches, Latches

LEMMA LoadKeeps ==
  ASSUME NEW c, c = [k \in Key |-> c[k]], NEW line, NEW d \in Load(c, line)
  PROVE  d = [k \in Key |-> d[k]]
  <1> DEFINE e == Entry(line)
  <1>1. CASE d = c
    BY <1>1
  <1>2. CASE d \in Assign(c, e.key[1], e.value)
    <2> DEFINE key == e.key[1]
               s == e.value
    <2>1. \/ \E j, v : d = [c EXCEPT ![j] = v]
          \/ \E i, j, v, w : d = [c EXCEPT ![i] = v, ![j] = w]
          \/ d = c
      <3> HIDE DEF key, s
      <3> QED
        BY <1>2 DEF Assign, key, s
    <2> QED
      BY <2>1
  <1> QED
    BY <1>1, <1>2 DEF Load

LEMMA DefaultsOK == Defaults = [k \in Key |-> Defaults[k]]
  <1> DEFINE Value(k) ==
        CASE k = "updateInterval" -> "600" [] k = "metadataLifetime" -> "3600"
          [] k = "bundleTTL" -> "1800"
          [] k = "presSharedNetworkKey" -> <<"open">>
          [] k = "serviceNr" -> <<"12160">> [] k = "bpechoServiceNr" -> <<"12161">>
          [] k = "graphFile" -> <<"contactGraph.gv">> [] k = "nodemetadata" -> <<>>
          [] k \in Coordinates -> "0"
          [] OTHER -> k = "noMetadataExchange"
  <1>1. Defaults = [k \in Key |-> Value(k)]
    BY DEF Defaults
  <1> HIDE DEF Value
  <1> QED
    BY <1>1

LEMMA Reset ==
  ASSUME NEW v
  PROVE  [Defaults EXCEPT !["noMetadataExchange"] = v]
           = [k \in Key |-> [Defaults EXCEPT !["noMetadataExchange"] = v][k]]
  BY DefaultsOK

LEMMA InitServices == Init => ServiceInv
  <1> SUFFICES ASSUME Init PROVE ServiceInv
    OBVIOUS
  <1>1. ConfigOK
    BY Reset DEF Init, Opened, ConfigOK
  <1> QED
    BY <1>1 DEF Init, TableInit, ServiceInv

LEMMA LoadingServices == ServiceInv /\ (LoadLine \/ Flags) => ServiceInv'
  <1> SUFFICES ASSUME ServiceInv, LoadLine \/ Flags PROVE ServiceInv'
    OBVIOUS
  <1>0. phase = "loading" /\ main = "off" /\ ConfigOK
    BY DEF LoadLine, Flags, ServiceInv
  <1>1. CASE LoadLine
    <2>1. ConfigOK'
      <3>1. config' \in Load(config, Line(unread)) /\ config = [k \in Key |-> config[k]]
        BY <1>0, <1>1 DEF LoadLine, ConfigOK
      <3> QED
        BY <3>1, LoadKeeps DEF ConfigOK
    <2>2. UNCHANGED <<phase, main, endpoint>>
      BY <1>1 DEF LoadLine, tableVars
    <2> QED
      BY <1>0, <2>1, <2>2 DEF ServiceInv
  <1>2. CASE Flags
    <2>1. ConfigOK'
      BY <1>2 DEF Flags, ConfigOK
    <2> QED
      BY <1>0, <1>2, <2>1 DEF ServiceInv, Flags
  <1> QED
    BY <1>1, <1>2

LEMMA ConnectingServices ==
  ServiceInv /\ (Connect \/ ConnectFails \/ InitEnds \/ StartServices \/ LoseConnection)
    => ServiceInv'
  <1> SUFFICES ASSUME ServiceInv,
                      Connect \/ ConnectFails \/ InitEnds \/ StartServices \/ LoseConnection
               PROVE  ServiceInv'
    OBVIOUS
  <1>1. CASE Connect
    <2>1. /\ UNCHANGED config /\ main = "off" /\ main' = "connecting"
          /\ endpoint' = [service |-> config["serviceNr"], by |-> phase]
          /\ \/ phase = "init" /\ phase' = "initialised"
             \/ phase = "loop" /\ phase' = "loop"
      BY <1>1 DEF Connect, ConnectToIon
    <2>2. ConfigOK' /\ Released' = Released
      BY <2>1 DEF ServiceInv, ConfigOK, Released
    <2> QED
      BY <2>1, <2>2 DEF ServiceInv, Released
  <1>2. CASE ConnectFails
    BY <1>2 DEF ConnectFails, ServiceInv, ConfigOK, tableVars
  <1>3. CASE InitEnds
    <2>1. /\ phase = "initialised" /\ phase' = "loop" /\ UNCHANGED <<endpoint, main>>
          /\ config' = SetServices(config) /\ ConfigOK
      BY <1>3 DEF InitEnds, tableVars, ServiceInv
    <2>2. ConfigOK' /\ Released'
      BY <2>1, Keys DEF ConfigOK, Released, SetServices, Services
    <2> QED
      BY <2>1, <2>2 DEF ServiceInv
  <1>4. CASE StartServices
    <2>1. /\ phase = "loop" /\ UNCHANGED <<config, endpoint, phase>>
          /\ main = "connecting"
      BY <1>4 DEF StartServices, ServicesStart, StartsReception, nodeVars
    <2> QED
      BY <2>1 DEF ServiceInv, ConfigOK, Released
  <1>5. CASE LoseConnection
    <2>1. main = "on" /\ main' = "off" /\ UNCHANGED <<config, endpoint, phase>>
      BY <1>5 DEF LoseConnection, ConnectionLost, nodeVars
    <2> QED
      BY <2>1 DEF ServiceInv, ConfigOK, Released
  <1> QED
    BY <1>1, <1>2, <1>3, <1>4, <1>5

LEMMA RestartServices == ServiceInv /\ restartDtnex => ServiceInv'
  <1> SUFFICES ASSUME ServiceInv, restartDtnex PROVE ServiceInv'
    OBVIOUS
  <1>1. ConfigOK'
    BY Reset DEF restartDtnex, ConfigOK
  <1> QED
    BY <1>1 DEF restartDtnex, ServiceInv

LEMMA OtherServices ==
  ServiceInv /\ UNCHANGED <<config, phase, main, endpoint>> => ServiceInv'
  BY DEF ServiceInv, ConfigOK, Released

\* What the steps of the graph and of the reception thread leave alone.
LEMMA GraphFrame ==
  ASSUME Hear \/ updateNodeMetadata \/ BeginGraph \/ Draw \/ List \/ Total \/ EndGraph
  PROVE  UNCHANGED <<config, phase, main, endpoint>>
  BY DEF Hear, updateNodeMetadata, Update, Find, Overwrite, AppendRow, CountRow, BeginGraph, Draw,
         List, Total, EndGraph, nodeVars, tableVars

LEMMA NextServices == ServiceInv /\ [Next]_vars => ServiceInv'
  <1> SUFFICES ASSUME ServiceInv, [Next]_vars PROVE ServiceInv'
    OBVIOUS
  <1>1. CASE \/ LoadLine \/ Flags \/ Connect \/ ConnectFails \/ InitEnds
             \/ StartServices \/ LoseConnection
    BY <1>1, LoadingServices, ConnectingServices
  <1>2. CASE restartDtnex
    BY <1>2, RestartServices
  <1>3. CASE Hear \/ updateNodeMetadata \/ BeginGraph \/ Draw \/ List \/ Total \/ EndGraph
    BY <1>3, GraphFrame, OtherServices
  <1>4. CASE UNCHANGED vars
    BY <1>4, OtherServices DEF vars, nodeVars, tableVars
  <1> QED
    BY <1>1, <1>2, <1>3, <1>4 DEF Next, getContacts, createGraph, DrawAgain

\* A connected node receives where its neighbours send, and not on its echo's service,
\* unless the file names another: ListensWhereItSendsUnlessRenamed of LocalNode, for
\* every file and however often ION goes away.
THEOREM ListensWhereItSends == Spec => []ListensWhereItSendsUnlessRenamed
  <1>1. ServiceInv => ListensWhereItSendsUnlessRenamed
    <2> SUFFICES ASSUME ServiceInv, main = "on"
                 PROVE  \/ /\ endpoint.service = config["serviceNr"]
                           /\ endpoint.service # config["bpechoServiceNr"]
                        \/ endpoint.by = "init" /\ endpoint.service # Defaults["serviceNr"]
      BY DEF ListensWhereItSendsUnlessRenamed
    <2>1. Released /\ Defaults["serviceNr"] = <<"12160">>
      BY Keys DEF ServiceInv, Defaults, Numbers, Texts, Coordinates
    <2>2. <<"12160">> # <<"12161">>
      OBVIOUS
    <2> QED
      BY <2>1, <2>2 DEF ServiceInv, Released
  <1> QED
    BY <1>1, InitServices, NextServices, PTL DEF Spec

-----------------------------------------------------------------------------
(* The address book of this node, which restartDtnex empties.              *)

\* What a process starts with.
Fresh ==
  /\ nodeMetadataList = [i \in 1..MAX_PLANS |-> NoRow]
  /\ nodeMetadataCount = 0
  /\ call = [t \in Thread |-> Idle]
  /\ main = "off"
  /\ receiving = FALSE

\* The reception thread never writes the own row.
OthersHeard == Stage("reception") # "idle" => call["reception"].nodeId # Own

BookInv ==
  /\ TableInv
  /\ OthersHeard
  /\ phase \in {"loading", "init"} => Fresh

-----------------------------------------------------------------------------
(* The graph and the list of nodes.                                        *)

Id(i) == nodeMetadataList[i].nodeId

Ids(n) == {Id(i) : i \in 1..n}

\* A graph is a record of its six fields.
WholeGraph ==
  graph = [stage |-> graph.stage, row |-> graph.row, drawn |-> graph.drawn,
           lines |-> graph.lines, total |-> graph.total, known |-> graph.known]

\* Main has no call of its own meanwhile, and what was known is still in the book; its
\* own row does not come in between.
MainDraws ==
  /\ main # "connecting" /\ call["main"] = Idle
  /\ graph.known \subseteq Ids(nodeMetadataCount)
  /\ Own \in Ids(nodeMetadataCount) => Own \in graph.known
  /\ graph.row \in 1..(nodeMetadataCount + 1)

\* The rows before the one the drawing is at.
DrawnSoFar == graph.drawn = [i \in 1..(graph.row - 1) |-> Id(i)]

\* The rows of the book up to the d-th, then the node itself.
DrawnRows(d) ==
  /\ d <= nodeMetadataCount
  /\ graph.known \subseteq Ids(d)
  /\ graph.drawn = [i \in 1..(d + 1) |-> IF i = d + 1 THEN Own ELSE Id(i)]

DrawnWhole == \E d \in Nat : DrawnRows(d)

\* The lines of a list at a row: the node's own and those of the ids before the row.
LinesOf(lines, row, ids) ==
  LET n == IF Own \in ids THEN row - 1 ELSE row
  IN /\ lines = [i \in 1..n |-> lines[i]]
     /\ {lines[i] : i \in 1..n} = {Own} \cup ids
     /\ \A i, j \in 1..n : lines[i] = lines[j] => i = j

LinesSoFar == LinesOf(graph.lines, graph.row, Ids(graph.row - 1))

GraphInv ==
  graph = NoGraph \/
    /\ WholeGraph /\ MainDraws
    /\ \/ graph.stage = "draw" /\ DrawnSoFar
       \/ graph.stage = "list" /\ DrawnWhole /\ LinesSoFar
       \/ /\ graph.stage \in {"total", "written"} /\ DrawnWhole /\ LinesSoFar
          /\ graph.known \subseteq Ids(graph.row - 1)
          /\ graph.stage = "written" => graph.total \in graph.row..(nodeMetadataCount + 1)

-----------------------------------------------------------------------------
(* The address book is kept.                                               *)

LEMMA FreshBook == Fresh => TableInv
  <1> SUFFICES ASSUME Fresh PROVE TableInv
    OBVIOUS
  <1>1. ListOK
    BY TableParameters DEF Fresh, ListOK
  <1>2. \A t \in Thread : call[t] = Idle /\ Stage(t) = "idle"
    BY DEF Fresh, Stage, Idle
  <1>3. CallsOK
    BY <1>2 DEF Fresh, CallsOK, CallOK
  <1>4. InTurn /\ OwnBeforeOthers
    BY <1>2 DEF Fresh, InTurn, OwnBeforeOthers, Thread
  <1> QED
    BY <1>1, <1>3, <1>4 DEF TableInv

LEMMA FreshHears == Fresh => OthersHeard
  BY DEF Fresh, OthersHeard, Stage, Idle, Thread

LEMMA FreshFrame ==
  Fresh /\ UNCHANGED <<nodeMetadataList, nodeMetadataCount, call, main, receiving>> => Fresh'
  BY DEF Fresh

LEMMA InitBook == Init => BookInv
  <1> SUFFICES ASSUME Init PROVE BookInv
    OBVIOUS
  <1>1. Fresh
    BY DEF Init, TableInit, Fresh
  <1> QED
    BY <1>1, FreshBook, FreshHears DEF BookInv

\* A step of a process that starts with an empty book, or starts anew.
LEMMA StartingBook ==
  BookInv /\ (LoadLine \/ Flags \/ restartDtnex) => BookInv'
  <1> SUFFICES ASSUME BookInv, LoadLine \/ Flags \/ restartDtnex PROVE BookInv'
    OBVIOUS
  <1>1. Fresh'
    <2>1. CASE LoadLine \/ Flags
      <3>1. Fresh /\ UNCHANGED <<nodeMetadataList, nodeMetadataCount, call, main, receiving>>
        BY <2>1 DEF LoadLine, Flags, tableVars, BookInv
      <3> QED
        BY <3>1, FreshFrame
    <2>2. CASE restartDtnex
      BY <2>2 DEF restartDtnex, Fresh
    <2> QED
      BY <2>1, <2>2
  <1>2. (Fresh => TableInv /\ OthersHeard)'
    BY FreshBook, FreshHears, PTL
  <1> QED
    BY <1>1, <1>2 DEF BookInv

LEMMA HearingFrame ==
  OthersHeard /\ call'["reception"] = call["reception"] => OthersHeard'
  BY DEF OthersHeard, Stage

\* The steps of main that leave the book alone or start a call of its own.
LEMMA ConnectingBook ==
  /\ ServiceInv /\ BookInv
  /\ (Connect \/ ConnectFails \/ InitEnds \/ StartServices \/ LoseConnection)
  => BookInv'
  <1> SUFFICES ASSUME ServiceInv, BookInv,
                      Connect \/ ConnectFails \/ InitEnds \/ StartServices \/ LoseConnection
               PROVE  BookInv'
    OBVIOUS
  <1>1. /\ TableInv /\ OthersHeard
        /\ \/ ConnectToIon \/ ServicesStart \/ ConnectionLost
           \/ UNCHANGED tableVars
    BY DEF BookInv, Connect, ConnectFails, InitEnds, StartServices, LoseConnection
  <1>2. TableInv'
    BY <1>1, MainKeeps, TableStutters
  <1>3. call'["reception"] = call["reception"]
    BY <1>1 DEF ConnectToIon, ServicesStart, ConnectionLost, tableVars, TableInv, CallsOK, Thread
  <1>4. OthersHeard'
    BY <1>1, <1>3, HearingFrame
  <1>5. phase' \notin {"loading", "init"}
    <2>1. CASE Connect \/ ConnectFails \/ InitEnds
      BY <2>1 DEF Connect, ConnectFails, InitEnds
    <2>2. CASE StartServices
      BY <2>2 DEF StartServices, nodeVars
    <2>3. CASE LoseConnection
      BY <2>3 DEF LoseConnection, nodeVars, ConnectionLost, ServiceInv
    <2> QED
      BY <2>1, <2>2, <2>3
  <1> QED
    BY <1>2, <1>4, <1>5 DEF BookInv

LEMMA HearBook == BookInv /\ Hear => BookInv'
  <1> SUFFICES ASSUME BookInv, Hear PROVE BookInv'
    OBVIOUS
  <1>1. PICK m \in Heard : Hand(m.nodeId, m.text)
    BY DEF Hear, Hand
  <1>2. TableInv'
    BY <1>1, HandKeeps DEF BookInv
  <1>3. call'["reception"] = Calling(m.nodeId, m.text)
    BY <1>1 DEF Hand, BookInv, TableInv, CallsOK, Thread
  <1>4. OthersHeard'
    BY <1>3, LocalNodeAssumption DEF OthersHeard, Stage, Calling
  <1>5. phase' \notin {"loading", "init"}
    BY DEF BookInv, Fresh, Hear
  <1> QED
    BY <1>2, <1>4, <1>5 DEF BookInv

\* A call goes on for the node it began with, and the others wait.
LEMMA CallSteps ==
  ASSUME TableInv, NEW t \in Thread, Update(t)
  PROVE  /\ TableInv'
         /\ Stage(t) # "idle"
         /\ \A u \in Thread \ {t} : call'[u] = call[u]
         /\ call'[t].stage = "idle" \/ call'[t].nodeId = call[t].nodeId
  <1>0. call = [u \in Thread |-> call[u]] /\ CallOK(t)
    BY DEF TableInv, CallsOK
  <1>1. CASE Find(t)
    <2>1. TableInv' /\ Stage(t) = "find"
      BY <1>1, FindKeeps DEF Find, Stage
    <2>2. /\ call[t] = [stage |-> call[t].stage, nodeId |-> call[t].nodeId, text |-> call[t].text]
          /\ \A u \in Thread \ {t} : call'[u] = call[u]
          /\ \/ call'[t].nodeId = call[t].nodeId
             \/ call'[t] = [call[t] EXCEPT !.stage = "append"]
             \/ call'[t] = Idle
      BY <1>0, <1>1, <2>1 DEF Find, CallOK, WholeCall
    <2>3. call'[t].nodeId = call[t].nodeId \/ call'[t].stage = "idle"
      BY <2>2 DEF Idle
    <2> QED
      BY <2>1, <2>2, <2>3
  <1>2. CASE Overwrite(t)
    BY <1>0, <1>2, OverwriteKeeps DEF Overwrite, Stage, Idle
  <1>3. CASE AppendRow(t)
    <2>1. TableInv' /\ Stage(t) = "append"
      BY <1>3, AppendKeeps DEF AppendRow, Stage
    <2>2. /\ call[t] = [stage |-> call[t].stage, nodeId |-> call[t].nodeId, text |-> call[t].text]
          /\ \A u \in Thread \ {t} : call'[u] = call[u]
          /\ call'[t] = [call[t] EXCEPT !.stage = "count"]
      BY <1>0, <1>3, <2>1 DEF AppendRow, CallOK, WholeCall
    <2> QED
      BY <2>1, <2>2
  <1>4. CASE CountRow(t)
    BY <1>0, <1>4, CountKeeps DEF CountRow, Stage, Idle
  <1> QED
    BY <1>1, <1>2, <1>3, <1>4 DEF Update

LEMMA UpdateBook == BookInv /\ updateNodeMetadata => BookInv'
  <1> SUFFICES ASSUME BookInv, updateNodeMetadata PROVE BookInv'
    OBVIOUS
  <1>1. PICK t \in Thread : Update(t) /\ UNCHANGED phase
    BY DEF updateNodeMetadata, Thread, nodeVars
  <1>2. /\ TableInv' /\ Stage(t) # "idle"
        /\ \A u \in Thread \ {t} : call'[u] = call[u]
        /\ call'[t].stage = "idle" \/ call'[t].nodeId = call[t].nodeId
    BY <1>1, CallSteps DEF BookInv
  <1>3. OthersHeard'
    BY <1>1, <1>2 DEF OthersHeard, BookInv, Stage, Thread
  <1>4. phase' \notin {"loading", "init"}
    BY <1>1, <1>2 DEF BookInv, Fresh, Stage, Idle
  <1> QED
    BY <1>2, <1>3, <1>4 DEF BookInv

LEMMA BookFrame == BookInv /\ UNCHANGED <<phase, tableVars>> => BookInv'
  BY TableStutters DEF BookInv, Fresh, OthersHeard, Stage, tableVars

LEMMA NextBook == ServiceInv /\ BookInv /\ [Next]_vars => BookInv'
  <1> SUFFICES ASSUME ServiceInv, BookInv, [Next]_vars PROVE BookInv'
    OBVIOUS
  <1>1. CASE LoadLine \/ Flags \/ restartDtnex
    BY <1>1, StartingBook
  <1>2. CASE Connect \/ ConnectFails \/ InitEnds \/ StartServices \/ LoseConnection
    BY <1>2, ConnectingBook
  <1>3. CASE Hear \/ updateNodeMetadata
    BY <1>3, HearBook, UpdateBook
  <1>4. CASE BeginGraph \/ Draw \/ List \/ Total \/ EndGraph
    BY <1>4, BookFrame DEF BeginGraph, Draw, List, Total, EndGraph
  <1>5. CASE UNCHANGED vars
    BY <1>5, BookFrame DEF vars, nodeVars
  <1> QED
    BY <1>1, <1>2, <1>3, <1>4, <1>5 DEF Next, getContacts, createGraph, DrawAgain

-----------------------------------------------------------------------------
(* The graph is kept.                                                      *)

LEMMA Appended ==
  ASSUME NEW n \in Nat, NEW s, s = [i \in 1..n |-> s[i]], NEW e
  PROVE  Append(s, e) = [i \in 1..(n + 1) |-> IF i = n + 1 THEN e ELSE s[i]]
  <1> DEFINE S == {s[i] : i \in 1..n} \cup {e}
  <1>1. s \in [1..n -> S]
    OBVIOUS
  <1> HIDE DEF S
  <1>2. s \in Seq(S)
    BY <1>1, FunctionIsSequence
  <1>3. Len(s) = n
    BY <1>1, <1>2
  <1>4. e \in S
    BY DEF S
  <1>5. /\ Append(s, e) \in Seq(S) /\ Len(Append(s, e)) = n + 1
        /\ \A i \in 1..n : Append(s, e)[i] = s[i]
        /\ Append(s, e)[n + 1] = e
    BY <1>2, <1>3, <1>4, AppendProperties
  <1> QED
    BY <1>5

\* The ids of the first rows.
LEMMA IdsStep ==
  ASSUME NEW n \in Nat \ {0}
  PROVE  Ids(n) = Ids(n - 1) \cup {Id(n)}
  <1>1. 1..n = 1..(n - 1) \cup {n}
    OBVIOUS
  <1> QED
    BY <1>1 DEF Ids

LEMMA IdsNone == Ids(0) = {}
  BY DEF Ids

LEMMA IdsGrow ==
  ASSUME NEW m \in Nat, NEW n \in Nat, m <= n
  PROVE  Ids(m) \subseteq Ids(n)
  BY DEF Ids

LEMMA IdOnce ==
  ASSUME ListOK, NEW i \in 1..nodeMetadataCount, NEW j \in 1..nodeMetadataCount, Id(i) = Id(j)
  PROVE  i = j
  BY DEF ListOK, Id

\* While main is not at a call the book only grows, and not by the own row.
BookGrows ==
  /\ nodeMetadataCount' \in Nat /\ nodeMetadataCount <= nodeMetadataCount'
  /\ \A i \in 1..nodeMetadataCount : Id(i)' = Id(i)
  /\ Own \in Ids(nodeMetadataCount)' => Own \in Ids(nodeMetadataCount)
  /\ main' # "connecting" /\ call'["main"] = Idle

LEMMA GrowsOrStays ==
  /\ BookInv /\ main # "connecting" /\ call["main"] = Idle
  /\ UNCHANGED <<nodeMetadataList, nodeMetadataCount, call, main>>
  => BookGrows
  BY DEF BookGrows, BookInv, TableInv, ListOK, Id, Ids

LEMMA HearingGrows ==
  BookInv /\ main # "connecting" /\ call["main"] = Idle /\ Hear => BookGrows
  BY DEF BookGrows, Hear, BookInv, TableInv, ListOK, CallsOK, Id, Ids, Thread

LEMMA UpdateGrows ==
  BookInv /\ main # "connecting" /\ call["main"] = Idle /\ updateNodeMetadata => BookGrows
  <1> SUFFICES ASSUME BookInv, main # "connecting", call["main"] = Idle, updateNodeMetadata
               PROVE  BookGrows
    OBVIOUS
  <1> DEFINE t == "reception"
  <1>0. ListOK /\ CallsOK /\ t \in Thread
    BY DEF BookInv, TableInv, Thread
  <1>1. nodeMetadataCount \in Nat /\ nodeMetadataCount <= MAX_PLANS /\ MAX_PLANS \in Nat
    BY <1>0, TableParameters DEF ListOK
  <1>2. Update(t)
    BY DEF updateNodeMetadata, Update, Find, Overwrite, AppendRow, CountRow, Idle
  <1>3. main' = main /\ call'["main"] = Idle
    BY <1>0, <1>1, <1>2 DEF Update, Find, Overwrite, AppendRow, CountRow, CallsOK, Thread
  <1>4. Stage(t) # "idle" => call[t].nodeId # Own
    BY DEF BookInv, OthersHeard
  <1>5. CASE Find(t)
    BY <1>0, <1>1, <1>3, <1>5 DEF BookGrows, Find, Id, Ids
  <1>6. CASE Overwrite(t)
    <2>1. \A i \in 1..nodeMetadataCount : Id(i)' = Id(i)
      <3> DEFINE s == call[t].slot
      <3>1. s \in 1..nodeMetadataCount /\ s \in 1..MAX_PLANS /\ WholeRow(s)
        <4>1. CallOK(t) /\ Stage(t) = "overwrite"
          BY <1>0, <1>6 DEF CallsOK, Overwrite, Stage
        <4>2. s \in 1..nodeMetadataCount
          BY <4>1 DEF CallOK
        <4> HIDE DEF s
        <4> QED
          BY <1>0, <1>1, <4>2 DEF ListOK
      <3>2. nodeMetadataList' = [nodeMetadataList EXCEPT ![s].text = call[t].text]
        BY <1>6 DEF Overwrite
      <3>3. nodeMetadataList'[s] = [nodeMetadataList[s] EXCEPT !.text = call[t].text]
        BY <1>0, <1>1, <3>1, <3>2 DEF ListOK
      <3>4. nodeMetadataList'[s].nodeId = nodeMetadataList[s].nodeId
        BY <3>1, <3>3 DEF WholeRow
      <3>5. \A i \in 1..MAX_PLANS : i # s => nodeMetadataList'[i] = nodeMetadataList[i]
        BY <1>0, <1>1, <3>2 DEF ListOK
      <3> HIDE DEF s
      <3> QED
        BY <1>0, <1>1, <3>4, <3>5 DEF Id
    <2>2. nodeMetadataCount' = nodeMetadataCount
      BY <1>6 DEF Overwrite
    <2> QED
      BY <1>0, <1>1, <1>3, <2>1, <2>2 DEF BookGrows, Ids
  <1>7. CASE AppendRow(t)
    <2>1. nodeMetadataCount' = nodeMetadataCount
      BY <1>7 DEF AppendRow
    <2>2. \A i \in 1..nodeMetadataCount : Id(i)' = Id(i)
      BY <1>0, <1>1, <1>7, TableParameters DEF AppendRow, ListOK, Id
    <2> QED
      BY <1>0, <1>1, <1>3, <2>1, <2>2 DEF BookGrows, Ids
  <1>8. CASE CountRow(t)
    <2>1. /\ nodeMetadataCount' = nodeMetadataCount + 1 /\ nodeMetadataList' = nodeMetadataList
          /\ Stage(t) = "count"
      BY <1>8 DEF CountRow, Stage
    <2>2. nodeMetadataList[nodeMetadataCount + 1] = Row(t)
      BY <1>0, <1>1, <2>1 DEF CallsOK, CallOK
    <2> PICK c \in Nat : c = nodeMetadataCount
      BY <1>1
    <2>3. Id(c + 1)' # Own
      BY <1>4, <2>1, <2>2 DEF Id, Row
    <2>4. \A i \in 1..nodeMetadataCount : Id(i)' = Id(i)
      BY <2>1 DEF Id
    <2>5. Own \in Ids(nodeMetadataCount)' => Own \in Ids(nodeMetadataCount)
      <3>1. \A i \in 1..(c + 1) : i = c + 1 \/ i \in 1..c
        OBVIOUS
      <3>2. nodeMetadataCount' = c + 1
        BY <2>1
      <3> QED
        BY <2>3, <2>4, <3>1, <3>2 DEF Ids
    <2> QED
      BY <1>0, <1>1, <1>3, <2>1, <2>4, <2>5 DEF BookGrows
  <1> QED
    BY <1>2, <1>5, <1>6, <1>7, <1>8 DEF Update

\* Growing the book leaves what has been written true.
LEMMA GraphStays ==
  BookInv /\ GraphInv /\ graph # NoGraph /\ UNCHANGED graph /\ BookGrows => GraphInv'
  <1> SUFFICES ASSUME BookInv, GraphInv, graph # NoGraph, UNCHANGED graph, BookGrows
               PROVE  GraphInv'
    OBVIOUS
  <1>1. nodeMetadataCount \in Nat /\ WholeGraph /\ MainDraws
    BY TableParameters DEF BookInv, TableInv, ListOK, GraphInv
  <1>2. \A n \in Nat : n <= nodeMetadataCount => Ids(n)' = Ids(n)
    BY <1>1 DEF BookGrows, Ids
  <1>3. PICK c \in Nat : c = nodeMetadataCount' /\ nodeMetadataCount <= c
    BY DEF BookGrows
  <1>4. PICK r \in Nat : r = graph.row /\ r >= 1 /\ r - 1 \in Nat /\ r - 1 <= nodeMetadataCount
    BY <1>1 DEF MainDraws
  <1>5. Ids(graph.row - 1)' = Ids(graph.row - 1)
    BY <1>2, <1>4
  <1>6. Ids(nodeMetadataCount) \subseteq Ids(nodeMetadataCount)'
    BY <1>1, <1>3 DEF BookGrows, Ids
  <1>7. WholeGraph' /\ MainDraws'
    <2>1. graph.row \in 1..(c + 1)
      BY <1>1, <1>3, <1>4
    <2> QED
      BY <1>1, <1>3, <1>6, <2>1 DEF WholeGraph, MainDraws, BookGrows
  <1>8. DrawnSoFar => DrawnSoFar'
    BY <1>1, <1>4 DEF DrawnSoFar, BookGrows
  <1>9. DrawnWhole => DrawnWhole'
    <2> SUFFICES ASSUME NEW d \in Nat, DrawnRows(d) PROVE DrawnRows(d)'
      BY DEF DrawnWhole
    <2>1. d <= nodeMetadataCount'
      BY <1>1, <1>3 DEF DrawnRows
    <2>2. \A i \in 1..(d + 1) : i # d + 1 => Id(i)' = Id(i)
      BY <1>1 DEF DrawnRows, BookGrows
    <2> QED
      BY <1>2, <2>1, <2>2 DEF DrawnRows
  <1>10. LinesSoFar => LinesSoFar'
    BY <1>5 DEF LinesSoFar
  <1>11. graph.total \in graph.row..(nodeMetadataCount + 1)
           => graph.total \in graph.row..(c + 1)
    BY <1>1, <1>3, <1>4
  <1> QED
    BY <1>3, <1>5, <1>7, <1>8, <1>9, <1>10, <1>11 DEF GraphInv

LEMMA BeginKeeps ==
  BookInv /\ Free /\ BeginGraph => GraphInv'
  <1> SUFFICES ASSUME BookInv, Free, BeginGraph PROVE GraphInv'
    OBVIOUS
  <1>1. /\ main' # "connecting" /\ call'["main"] = Idle /\ nodeMetadataCount' \in Nat
        /\ graph' = [stage |-> "draw", row |-> 1, drawn |-> <<>>, lines |-> <<>>, total |-> 0,
                     known |-> Listed]
        /\ UNCHANGED <<nodeMetadataList, nodeMetadataCount>>
    BY TableParameters DEF Free, BeginGraph, tableVars, BookInv, TableInv, ListOK
  <1>2. Ids(nodeMetadataCount)' = Listed
    BY <1>1 DEF Ids, Id, Listed
  <1>3. WholeGraph' /\ graph'.stage = "draw" /\ graph'.row = 1 /\ graph'.known = Listed
        /\ graph'.drawn = <<>>
    BY <1>1 DEF WholeGraph
  <1>4. MainDraws'
    <2>1. 1 \in 1..(nodeMetadataCount' + 1)
      BY <1>1
    <2> QED
      BY <1>1, <1>2, <1>3, <2>1 DEF MainDraws
  <1>5. DrawnSoFar'
    BY <1>3 DEF DrawnSoFar
  <1> QED
    BY <1>3, <1>4, <1>5 DEF GraphInv

\* What a step of createGraph after the first finds, and what it leaves alone.
LEMMA Drawing ==
  ASSUME BookInv, GraphInv, Draw \/ List \/ Total
  PROVE  /\ ListOK /\ nodeMetadataCount \in Nat
         /\ WholeGraph /\ MainDraws
         /\ UNCHANGED <<nodeMetadataList, nodeMetadataCount, call, main>>
         /\ \A n : Ids(n)' = Ids(n)
         /\ graph.row \in Nat /\ graph.row >= 1 /\ graph.row <= nodeMetadataCount + 1
  <1>1. graph # NoGraph /\ UNCHANGED <<nodeMetadataList, nodeMetadataCount, call, main>>
    BY DEF Draw, List, Total, NoGraph, tableVars
  <1>2. ListOK /\ nodeMetadataCount \in Nat /\ WholeGraph /\ MainDraws
    <2>1. ListOK
      BY DEF BookInv, TableInv
    <2>2. nodeMetadataCount \in Nat
      BY <2>1, TableParameters DEF ListOK
    <2> QED
      BY <1>1, <2>1, <2>2 DEF GraphInv
  <1>3. \A n : Ids(n)' = Ids(n)
    BY <1>1 DEF Ids, Id
  <1>4. graph.row \in 1..(nodeMetadataCount + 1)
    BY <1>2 DEF MainDraws
  <1> QED
    BY <1>1, <1>2, <1>3, <1>4

LEMMA DrawKeeps == BookInv /\ GraphInv /\ Draw => GraphInv'
  <1> SUFFICES ASSUME BookInv, GraphInv, Draw PROVE GraphInv'
    OBVIOUS
  <1>1. /\ ListOK /\ nodeMetadataCount \in Nat /\ WholeGraph /\ MainDraws
        /\ UNCHANGED <<nodeMetadataList, nodeMetadataCount, call, main>>
        /\ \A n : Ids(n)' = Ids(n)
        /\ graph.row \in Nat /\ graph.row >= 1 /\ graph.row <= nodeMetadataCount + 1
    BY Drawing
  <1>2. graph.stage = "draw" /\ DrawnSoFar
    BY DEF Draw, GraphInv, NoGraph
  <1> PICK c \in Nat : c = nodeMetadataCount
    BY <1>1
  <1> PICK r \in Nat : r = graph.row
    BY <1>1
  <1>3. c' = c /\ r' = r /\ r >= 1 /\ r <= c + 1 /\ r - 1 \in Nat /\ (r - 1) + 1 = r
    BY <1>1
  <1>4. graph.drawn = [i \in 1..(r - 1) |-> Id(i)]
    BY <1>2 DEF DrawnSoFar
  <1>5. ASSUME NEW e
        PROVE  Append(graph.drawn, e) = [i \in 1..r |-> IF i = r THEN e ELSE Id(i)]
    <2>1. Append(graph.drawn, e)
            = [i \in 1..((r - 1) + 1) |-> IF i = (r - 1) + 1 THEN e ELSE graph.drawn[i]]
      BY <1>3, <1>4, Appended
    <2> QED
      BY <1>3, <1>4, <2>1
  <1>6. CASE WithinTable
    <2>1. graph' = [graph EXCEPT !.drawn = Append(@, Id(graph.row)), !.row = @ + 1]
      BY <1>6 DEF Draw, Id
    <2>2. /\ WholeGraph' /\ graph'.row = r + 1 /\ graph'.stage = "draw"
          /\ graph'.known = graph.known
          /\ graph'.drawn = Append(graph.drawn, Id(r))
      BY <1>1, <1>2, <2>1 DEF WholeGraph
    <2>3. r + 1 \in 1..(c + 1)
      BY <1>3, <1>6 DEF WithinTable
    <2>4. MainDraws'
      BY <1>1, <2>2, <2>3 DEF MainDraws
    <2>5. graph'.drawn = [i \in 1..((r + 1) - 1) |-> Id(i)]
      <3>1. graph'.drawn = [i \in 1..r |-> IF i = r THEN Id(r) ELSE Id(i)]
        BY <1>5, <2>2
      <3>2. (r + 1) - 1 = r
        OBVIOUS
      <3> QED
        BY <3>1, <3>2
    <2>6. DrawnSoFar'
      BY <1>1, <2>2, <2>5 DEF DrawnSoFar, Id
    <2> QED
      BY <2>2, <2>4, <2>6 DEF GraphInv
  <1>7. CASE ~WithinTable
    <2>1. graph' = [graph EXCEPT !.drawn = Append(@, Own), !.stage = "list", !.row = 1,
                                 !.lines = <<Own>>]
      BY <1>7 DEF Draw
    <2>2. /\ WholeGraph' /\ graph'.row = 1 /\ graph'.stage = "list" /\ graph'.known = graph.known
          /\ graph'.drawn = Append(graph.drawn, Own) /\ graph'.lines = <<Own>>
      BY <1>1, <2>1 DEF WholeGraph
    <2>3. r = c + 1 /\ 1 \in 1..(c + 1)
      BY <1>3, <1>7 DEF WithinTable
    <2>4. MainDraws'
      BY <1>1, <2>2, <2>3 DEF MainDraws
    <2>5. DrawnRows(c)'
      <3>1. graph.known \subseteq Ids(c)'
        BY <1>1 DEF MainDraws
      <3>2. graph'.drawn = [i \in 1..(c + 1) |-> IF i = c + 1 THEN Own ELSE Id(i)]
        <4>1. Append(graph.drawn, Own) = [i \in 1..r |-> IF i = r THEN Own ELSE Id(i)]
          BY <1>5
        <4> QED
          BY <2>2, <2>3, <4>1
      <3>3. graph'.drawn = [i \in 1..(c + 1) |-> IF i = c + 1 THEN Own ELSE Id(i)']
        BY <1>1, <3>2 DEF Id
      <3>4. c <= nodeMetadataCount'
        BY <1>1
      <3> QED
        BY <2>2, <3>1, <3>3, <3>4 DEF DrawnRows
    <2>6. LinesSoFar'
      <3>1. Ids(graph.row - 1)' = {}
        BY <1>1, <2>2, IdsNone
      <3>2. LinesOf(<<Own>>, 1, {})
        BY DEF LinesOf
      <3> QED
        BY <2>2, <3>1, <3>2 DEF LinesSoFar
    <2>7. DrawnWhole'
      BY <2>5 DEF DrawnWhole
    <2> QED
      BY <2>2, <2>4, <2>6, <2>7 DEF GraphInv
  <1> QED
    BY <1>6, <1>7

LEMMA DrawnStays ==
  ASSUME DrawnWhole, UNCHANGED <<nodeMetadataList, nodeMetadataCount>>,
         graph'.drawn = graph.drawn, graph'.known = graph.known
  PROVE  DrawnWhole'
  <1>1. PICK d \in Nat : DrawnRows(d)
    BY DEF DrawnWhole
  <1>2. DrawnRows(d)'
    BY <1>1 DEF DrawnRows, Ids, Id
  <1> QED
    BY <1>2 DEF DrawnWhole

\* The own row has no line.
LEMMA NoLineMore ==
  ASSUME NEW lines, NEW r \in Nat \ {0}, NEW ids, LinesOf(lines, r, ids), Own \notin ids
  PROVE  LinesOf(lines, r + 1, ids \cup {Own})
  <1>1. /\ lines = [i \in 1..r |-> lines[i]]
        /\ {lines[i] : i \in 1..r} = {Own} \cup ids
        /\ \A i, j \in 1..r : lines[i] = lines[j] => i = j
    BY DEF LinesOf
  <1>2. (IF Own \in ids \cup {Own} THEN (r + 1) - 1 ELSE r + 1) = r
    OBVIOUS
  <1>3. {Own} \cup (ids \cup {Own}) = {Own} \cup ids
    OBVIOUS
  <1> QED
    BY <1>1, <1>2, <1>3 DEF LinesOf

\* A line more for a node that has none.
LEMMA LineMore ==
  ASSUME NEW lines, NEW r \in Nat \ {0}, NEW ids, NEW n, LinesOf(lines, r, ids),
         n # Own, n \notin ids
  PROVE  LinesOf(Append(lines, n), r + 1, ids \cup {n})
  <1> DEFINE k == IF Own \in ids THEN r - 1 ELSE r
  <1>1. k \in Nat /\ k + 1 = (IF Own \in ids \cup {n} THEN (r + 1) - 1 ELSE r + 1)
    OBVIOUS
  <1>2. /\ lines = [i \in 1..k |-> lines[i]]
        /\ {lines[i] : i \in 1..k} = {Own} \cup ids
        /\ \A i, j \in 1..k : lines[i] = lines[j] => i = j
    BY DEF LinesOf
  <1> HIDE DEF k
  <1> DEFINE s == Append(lines, n)
  <1>3. s = [i \in 1..(k + 1) |-> IF i = k + 1 THEN n ELSE lines[i]]
    BY <1>1, <1>2, Appended
  <1>4. /\ s = [i \in 1..(k + 1) |-> s[i]]
        /\ s[k + 1] = n /\ \A i \in 1..k : s[i] = lines[i]
        /\ \A i \in 1..(k + 1) : i = k + 1 \/ i \in 1..k
        /\ k + 1 \in 1..(k + 1) /\ 1..k \subseteq 1..(k + 1)
    BY <1>1, <1>3
  <1> HIDE DEF s
  <1>5. {s[i] : i \in 1..(k + 1)} = {Own} \cup (ids \cup {n})
    <2>1. {s[i] : i \in 1..(k + 1)} = {s[i] : i \in 1..k} \cup {n}
      BY <1>4
    <2>2. {s[i] : i \in 1..k} = {lines[i] : i \in 1..k}
      BY <1>4
    <2> QED
      BY <1>2, <2>1, <2>2
  <1>6. \A i \in 1..k : lines[i] # n
    BY <1>2
  <1>7. \A i, j \in 1..(k + 1) : s[i] = s[j] => i = j
    BY <1>2, <1>4, <1>6
  <1>8. LinesOf(s, r + 1, ids \cup {n})
    BY <1>1, <1>4, <1>5, <1>7 DEF LinesOf
  <1> QED
    BY <1>8 DEF s

LEMMA ListKeeps == BookInv /\ GraphInv /\ List => GraphInv'
  <1> SUFFICES ASSUME BookInv, GraphInv, List PROVE GraphInv'
    OBVIOUS
  <1>1. /\ ListOK /\ nodeMetadataCount \in Nat /\ WholeGraph /\ MainDraws
        /\ UNCHANGED <<nodeMetadataList, nodeMetadataCount, call, main>>
        /\ \A n : Ids(n)' = Ids(n)
        /\ graph.row \in Nat /\ graph.row >= 1 /\ graph.row <= nodeMetadataCount + 1
    BY Drawing
  <1>2. graph.stage = "list" /\ DrawnWhole /\ LinesSoFar
    BY DEF List, GraphInv, NoGraph
  <1> PICK c \in Nat : c = nodeMetadataCount
    BY <1>1
  <1> PICK r \in Nat : r = graph.row
    BY <1>1
  <1>3. r >= 1 /\ r <= c + 1 /\ r - 1 \in Nat /\ (r + 1) - 1 = r
    BY <1>1
  <1>4. CASE ~WithinTable
    <2>1. graph' = [graph EXCEPT !.stage = "total"]
      BY <1>4 DEF List
    <2>2. /\ WholeGraph' /\ graph'.row = graph.row /\ graph'.stage = "total"
          /\ graph'.known = graph.known
          /\ graph'.drawn = graph.drawn /\ graph'.lines = graph.lines
      BY <1>1, <2>1 DEF WholeGraph
    <2>3. r - 1 = c
      BY <1>3, <1>4 DEF WithinTable
    <2>4. MainDraws'
      BY <1>1, <2>2 DEF MainDraws
    <2>5. Ids(graph.row - 1)' = Ids(c)
      BY <1>1, <2>2, <2>3
    <2>6. LinesSoFar' /\ graph'.known \subseteq Ids(graph.row - 1)'
      BY <1>1, <1>2, <2>2, <2>3, <2>5 DEF LinesSoFar, MainDraws
    <2>7. DrawnWhole'
      BY <1>1, <1>2, <2>2, DrawnStays
    <2> QED
      BY <2>2, <2>4, <2>6, <2>7 DEF GraphInv
  <1>5. CASE WithinTable
    <2> DEFINE n == Id(r)
    <2>1. graph' = [graph EXCEPT !.lines = IF Skipped(n) THEN @ ELSE Append(@, n), !.row = @ + 1]
      BY <1>5 DEF List, Id
    <2>2. /\ WholeGraph' /\ graph'.row = r + 1 /\ graph'.stage = "list"
          /\ graph'.known = graph.known /\ graph'.drawn = graph.drawn
          /\ graph'.lines = IF n = Own THEN graph.lines ELSE Append(graph.lines, n)
      BY <1>1, <1>2, <2>1 DEF WholeGraph, Skipped
    <2>3. r <= c /\ r + 1 \in 1..(c + 1)
      BY <1>3, <1>5 DEF WithinTable
    <2>4. MainDraws'
      BY <1>1, <2>2, <2>3 DEF MainDraws
    <2>5. Ids(r) = Ids(r - 1) \cup {n}
      BY <1>3, IdsStep
    <2>6. n \notin Ids(r - 1)
      <3> SUFFICES ASSUME NEW i \in 1..(r - 1), Id(i) = n PROVE FALSE
        BY DEF Ids
      <3>1. i \in 1..nodeMetadataCount /\ r \in 1..nodeMetadataCount /\ i # r
        BY <1>3, <2>3
      <3> QED
        BY <1>1, <3>1, IdOnce
    <2>7. Ids(graph.row - 1)' = Ids(r)
      BY <1>1, <1>3, <2>2
    <2>8. LinesOf(graph.lines, r, Ids(r - 1))
      BY <1>2 DEF LinesSoFar
    <2> HIDE DEF n
    <2>9. LinesOf(graph'.lines, r + 1, Ids(r))
      <3>1. CASE n = Own
        <4>1. graph'.lines = graph.lines /\ Own \notin Ids(r - 1)
          BY <2>2, <2>6, <3>1
        <4>2. LinesOf(graph.lines, r + 1, Ids(r - 1) \cup {Own})
          BY <1>3, <2>8, <4>1, NoLineMore
        <4> QED
          BY <2>5, <3>1, <4>1, <4>2
      <3>2. CASE n # Own
        BY <1>3, <2>2, <2>5, <2>6, <2>8, <3>2, LineMore
      <3> QED
        BY <3>1, <3>2
    <2>10. LinesSoFar'
      BY <2>2, <2>7, <2>9 DEF LinesSoFar
    <2>11. DrawnWhole'
      BY <1>1, <1>2, <2>2, DrawnStays
    <2> QED
      BY <2>2, <2>4, <2>10, <2>11 DEF GraphInv
  <1> QED
    BY <1>4, <1>5

LEMMA TotalKeeps == BookInv /\ GraphInv /\ Total => GraphInv'
  <1> SUFFICES ASSUME BookInv, GraphInv, Total PROVE GraphInv'
    OBVIOUS
  <1>1. /\ nodeMetadataCount \in Nat /\ WholeGraph /\ MainDraws
        /\ UNCHANGED <<nodeMetadataList, nodeMetadataCount, call, main>>
        /\ \A n : Ids(n)' = Ids(n)
        /\ graph.row \in Nat /\ graph.row >= 1 /\ graph.row <= nodeMetadataCount + 1
    BY Drawing
  <1>2. /\ graph.stage = "total" /\ DrawnWhole /\ LinesSoFar
        /\ graph.known \subseteq Ids(graph.row - 1)
    BY DEF Total, GraphInv, NoGraph
  <1>3. /\ WholeGraph' /\ graph'.row = graph.row /\ graph'.stage = "written"
        /\ graph'.known = graph.known /\ graph'.drawn = graph.drawn
        /\ graph'.lines = graph.lines /\ graph'.total = nodeMetadataCount + 1
    BY <1>1 DEF Total, WholeGraph
  <1>4. MainDraws' /\ LinesSoFar' /\ graph'.known \subseteq Ids(graph.row - 1)'
    BY <1>1, <1>2, <1>3 DEF MainDraws, LinesSoFar
  <1>5. DrawnWhole'
    BY <1>1, <1>2, <1>3, DrawnStays
  <1>6. graph'.total \in graph'.row..(nodeMetadataCount' + 1)
    BY <1>1, <1>3
  <1> QED
    BY <1>3, <1>4, <1>5, <1>6 DEF GraphInv

LEMMA NextGraph == BookInv /\ GraphInv /\ [Next]_vars => GraphInv'
  <1> SUFFICES ASSUME BookInv, GraphInv, [Next]_vars PROVE GraphInv'
    OBVIOUS
  <1>1. CASE Draw \/ List \/ Total
    BY <1>1, DrawKeeps, ListKeeps, TotalKeeps
  <1>2. CASE EndGraph
    BY <1>2 DEF EndGraph, GraphInv
  <1>3. CASE Free /\ BeginGraph
    BY <1>3, BeginKeeps
  <1>4. CASE UNCHANGED graph /\ graph = NoGraph
    BY <1>4 DEF GraphInv
  <1>5. CASE /\ UNCHANGED graph /\ graph # NoGraph
                  /\ (\/ Hear \/ updateNodeMetadata
                      \/ UNCHANGED <<nodeMetadataList, nodeMetadataCount, call, main>>)
    <2>1. main # "connecting" /\ call["main"] = Idle
      BY <1>5 DEF GraphInv, MainDraws
    <2>2. BookGrows
      BY <1>5, <2>1, GrowsOrStays, HearingGrows, UpdateGrows
    <2> QED
      BY <1>5, <2>2, GraphStays
  <1>6. graph.stage = "none" => graph = NoGraph
    BY DEF GraphInv
  <1>7. CASE LoadLine \/ Hear \/ updateNodeMetadata \/ ConnectFails \/ InitEnds \/ UNCHANGED vars
    BY <1>4, <1>5, <1>7
    DEF LoadLine, Hear, updateNodeMetadata, ConnectFails, InitEnds, vars, nodeVars, tableVars
  <1>8. CASE Connect \/ LoseConnection
    BY <1>4, <1>6, <1>8 DEF Connect, LoseConnection, nodeVars
  <1>9. CASE Free /\ restartDtnex
    BY <1>4, <1>6, <1>9 DEF Free, restartDtnex
  <1>10. CASE StartServices
    <2>1. UNCHANGED graph /\ main = "connecting"
      BY <1>10 DEF StartServices, ServicesStart, StartsReception, nodeVars
    <2>2. graph = NoGraph
      BY <2>1 DEF GraphInv, MainDraws
    <2> QED
      BY <1>4, <2>1, <2>2
  <1>11. CASE Flags
    <2>1. UNCHANGED <<graph, nodeMetadataList, nodeMetadataCount, call, main>>
      BY <1>11 DEF Flags
    <2> QED
      BY <1>4, <1>5, <2>1
  <1> QED
    BY <1>1, <1>2, <1>3, <1>7, <1>8, <1>9, <1>10, <1>11 DEF Next, getContacts, createGraph, DrawAgain

-----------------------------------------------------------------------------
(* What is written.                                                        *)

\* One index, or two.
LEMMA OneTime ==
  ASSUME NEW s, NEW n, NEW k, {i \in DOMAIN s : s[i] = n} = {k}
  PROVE  Times(s, n) = 1
  BY FS_Singleton DEF Times

LEMMA TwoTimes ==
  ASSUME NEW s, NEW n, NEW k, NEW l, k # l, {i \in DOMAIN s : s[i] = n} = {k, l}
  PROVE  Times(s, n) = 2
  <1>1. IsFiniteSet({k}) /\ Cardinality({k}) = 1
    BY FS_Singleton
  <1>2. Cardinality({k} \cup {l}) = Cardinality({k}) + 1
    BY <1>1, FS_AddElement
  <1>3. {k} \cup {l} = {k, l}
    OBVIOUS
  <1> QED
    BY <1>1, <1>2, <1>3 DEF Times

LEMMA GraphThen == BookInv /\ GraphInv => GraphNamesEachNodeOnce
  <1> SUFFICES ASSUME BookInv, GraphInv, graph.stage = "written"
               PROVE  GraphNamesEachNodeOnce
    BY DEF GraphNamesEachNodeOnce
  <1> DEFINE own == IF Own \in graph.known THEN 1 ELSE 0
             written == {graph.drawn[i] : i \in DOMAIN graph.drawn}
             listed == {graph.lines[i] : i \in DOMAIN graph.lines}
  <1>0. ListOK
    BY DEF BookInv, TableInv
  <1>1. nodeMetadataCount \in Nat
    BY <1>0, TableParameters DEF ListOK
  <1>2. /\ MainDraws /\ DrawnWhole /\ LinesSoFar
        /\ graph.known \subseteq Ids(graph.row - 1)
        /\ graph.total \in graph.row..(nodeMetadataCount + 1)
    BY DEF GraphInv, NoGraph
  <1> PICK d \in Nat : DrawnRows(d)
    BY <1>2 DEF DrawnWhole
  <1> PICK c \in Nat : c = nodeMetadataCount
    BY <1>1
  <1> PICK r \in Nat : r = graph.row /\ r >= 1 /\ r <= c + 1 /\ r - 1 \in Nat
    BY <1>1, <1>2 DEF MainDraws
  <1>3. /\ d <= c /\ graph.known \subseteq Ids(d)
        /\ graph.drawn = [i \in 1..(d + 1) |-> IF i = d + 1 THEN Own ELSE Id(i)]
    BY DEF DrawnRows
  <1>4. \A i, j \in 1..d : Id(i) = Id(j) => i = j
    BY <1>0, <1>3, IdOnce
  <1>5. Own \in Ids(d) <=> Own \in graph.known
    <2>1. Ids(d) \subseteq Ids(c)
      BY <1>3, IdsGrow
    <2> QED
      BY <1>2, <1>3, <2>1 DEF MainDraws
  <1>6. Own \in Ids(r - 1) <=> Own \in graph.known
    <2>1. Ids(r - 1) \subseteq Ids(c)
      BY IdsGrow
    <2> QED
      BY <1>2, <2>1 DEF MainDraws
  <1>7. /\ DOMAIN graph.drawn = 1..(d + 1) /\ graph.drawn[d + 1] = Own
        /\ \A i \in 1..d : graph.drawn[i] = Id(i) /\ i \in 1..(d + 1) /\ i # d + 1
        /\ \A i \in 1..(d + 1) : i \in 1..d \/ i = d + 1
        /\ d + 1 \in 1..(d + 1)
    BY <1>3
  <1>8. written = Ids(d) \cup {Own}
    BY <1>7 DEF Ids
  <1>9. \A n \in written : Times(graph.drawn, n) = (IF n = Own THEN 1 + own ELSE 1)
    <2> SUFFICES ASSUME NEW n \in written
                 PROVE  Times(graph.drawn, n) = (IF n = Own THEN 1 + own ELSE 1)
      OBVIOUS
    <2>1. CASE n \in Ids(d)
      <3> PICK k \in 1..d : Id(k) = n
        BY <2>1 DEF Ids
      <3>1. CASE n # Own
        <4>1. {i \in DOMAIN graph.drawn : graph.drawn[i] = n} = {k}
          <5>1. ASSUME NEW i \in DOMAIN graph.drawn, graph.drawn[i] = n PROVE i = k
            <6>1. i \in 1..d /\ Id(i) = Id(k)
              BY <1>7, <3>1, <5>1
            <6> QED
              BY <1>4, <6>1
          <5>2. k \in DOMAIN graph.drawn /\ graph.drawn[k] = n
            BY <1>7
          <5> QED
            BY <5>1, <5>2, Zenon
        <4> QED
          BY <3>1, <4>1, OneTime
      <3>2. CASE n = Own
        <4>1. {i \in DOMAIN graph.drawn : graph.drawn[i] = n} = {k, d + 1} /\ k # d + 1
          <5>1. ASSUME NEW i \in DOMAIN graph.drawn, graph.drawn[i] = n, i # d + 1 PROVE i = k
            <6>1. i \in 1..d /\ Id(i) = Id(k)
              BY <1>7, <5>1
            <6> QED
              BY <1>4, <6>1
          <5>2. /\ k \in DOMAIN graph.drawn /\ graph.drawn[k] = n /\ k # d + 1
                /\ d + 1 \in DOMAIN graph.drawn /\ graph.drawn[d + 1] = n
            BY <1>7, <3>2
          <5> QED
            BY <5>1, <5>2, Zenon
        <4>2. Times(graph.drawn, n) = 2
          BY <4>1, TwoTimes, Zenon
        <4>3. own = 1
          BY <1>5, <2>1, <3>2
        <4> QED
          BY <3>2, <4>2, <4>3
      <3> QED
        BY <3>1, <3>2
    <2>2. CASE n \notin Ids(d)
      <3>1. n = Own /\ own = 0
        BY <1>5, <1>8, <2>2
      <3>2. \A i \in 1..d : graph.drawn[i] # n
        BY <1>7, <2>2 DEF Ids
      <3>3. {i \in DOMAIN graph.drawn : graph.drawn[i] = n} = {d + 1}
        BY <1>7, <3>1, <3>2
      <3>4. Times(graph.drawn, n) = 1
        BY <3>3, OneTime
      <3> QED
        BY <3>1, <3>4
    <2> QED
      BY <2>1, <2>2
  <1> DEFINE k == IF Own \in Ids(r - 1) THEN r - 1 ELSE r
  <1>10. /\ graph.lines = [i \in 1..k |-> graph.lines[i]]
         /\ {graph.lines[i] : i \in 1..k} = {Own} \cup Ids(r - 1)
         /\ \A i, j \in 1..k : graph.lines[i] = graph.lines[j] => i = j
    BY <1>2 DEF LinesSoFar, LinesOf
  <1>11. k \in Nat /\ k + own = r
    BY <1>6
  <1> HIDE DEF k
  <1>12. DOMAIN graph.lines = 1..k
    BY <1>10
  <1>13. listed = {Own} \cup Ids(r - 1)
    BY <1>10, <1>12
  <1>14. \A n \in listed : Times(graph.lines, n) = 1
    <2> SUFFICES ASSUME NEW n \in listed PROVE Times(graph.lines, n) = 1
      OBVIOUS
    <2> PICK j \in 1..k : graph.lines[j] = n
      BY <1>12
    <2>1. {i \in DOMAIN graph.lines : graph.lines[i] = n} = {j}
      BY <1>10, <1>12
    <2> QED
      BY <2>1, OneTime
  <1>15. Len(graph.lines) = k
    <2> DEFINE S == {graph.lines[i] : i \in 1..k}
    <2>1. graph.lines \in [1..k -> S]
      BY <1>10
    <2> HIDE DEF S
    <2>2. graph.lines \in Seq(S)
      BY <1>11, <2>1, FunctionIsSequence
    <2> QED
      BY <1>11, <1>12, <2>2, LenProperties
  <1>16. graph.total >= Len(graph.lines) + own
    BY <1>2, <1>11, <1>15
  <1>17. Listed = graph.known => graph.total = Len(graph.lines) + own
    <2> SUFFICES ASSUME Listed = graph.known PROVE graph.total = Len(graph.lines) + own
      OBVIOUS
    <2>1. Ids(c) \subseteq Ids(r - 1)
      BY <1>2 DEF Listed, Ids, Id
    <2>2. r - 1 = c
      <3> SUFFICES ASSUME c \in 1..c, c \notin 1..(r - 1) PROVE FALSE
        OBVIOUS
      <3>1. Id(c) \in Ids(c)
        BY DEF Ids
      <3>2. PICK i \in 1..(r - 1) : Id(i) = Id(c)
        BY <2>1, <3>1 DEF Ids
      <3>3. i \in 1..c /\ i # c
        OBVIOUS
      <3> QED
        BY <1>0, <3>2, <3>3, IdOnce
    <2> QED
      BY <1>2, <1>11, <1>15, <2>2
  <1>18. graph.known \cup {Own} \subseteq written \cap listed
    BY <1>2, <1>3, <1>8, <1>13
  <1> HIDE DEF own, written, listed
  <1>19. /\ graph.known \cup {Own} \subseteq written \cap listed
         /\ \A n \in written : Times(graph.drawn, n) = (IF n = Own THEN 1 + own ELSE 1)
         /\ \A n \in listed : Times(graph.lines, n) = 1
         /\ graph.total >= Len(graph.lines) + own
         /\ Listed = graph.known => graph.total = Len(graph.lines) + own
    BY <1>9, <1>14, <1>16, <1>17, <1>18
  <1> QED
    BY <1>19 DEF GraphNamesEachNodeOnce, own, written, listed

\* The graph and the list of nodes name every node once, and count them, while the
\* reception thread writes to the book they are read from: GraphNamesEachNodeOnce of
\* LocalNode, for every size of the book and number of messages and connections.
THEOREM GraphNamesNodes == Spec => []GraphNamesEachNodeOnce
  <1>1. Init => ServiceInv /\ BookInv /\ GraphInv
    <2>1. Init => GraphInv
      BY DEF Init, GraphInv
    <2> QED
      BY <2>1, InitServices, InitBook
  <1>2. ServiceInv /\ BookInv /\ GraphInv /\ [Next]_vars => (ServiceInv /\ BookInv /\ GraphInv)'
    BY NextServices, NextBook, NextGraph
  <1> QED
    BY <1>1, <1>2, GraphThen, PTL DEF Spec

\* The address book of a running node is sound however often ION comes and goes and
\* main starts anew: TableIsSound of MetadataTable, for the steps of LocalNode.
THEOREM BookIsSound == Spec => []TableIsSound
  <1>1. ServiceInv /\ BookInv /\ [Next]_vars => (ServiceInv /\ BookInv)'
    BY NextServices, NextBook
  <1>2. BookInv => TableIsSound
    BY TableIsSoundThen DEF BookInv
  <1> QED
    BY <1>1, <1>2, InitServices, InitBook, PTL DEF Spec

-----------------------------------------------------------------------------
(* What the steps of loadConfig make of a text.                            *)

LEMMA MinIs ==
  ASSUME NEW T, T \subseteq Int, NEW m \in T, \A y \in T : m <= y
  PROVE  Min(T) = m
  <1>1. Min(T) \in T /\ \A y \in T : Min(T) <= y
    BY DEF Min
  <1>2. Min(T) <= m /\ m <= Min(T) /\ m \in Int /\ Min(T) \in Int
    BY <1>1
  <1> QED
    BY <1>2

LEMMA MaxIs ==
  ASSUME NEW T, T \subseteq Int, NEW m \in T, \A y \in T : y <= m
  PROVE  Max(T) = m
  <1>1. Max(T) \in T /\ \A y \in T : Max(T) >= y
    BY DEF Max
  <1>2. Max(T) <= m /\ m <= Max(T) /\ m \in Int /\ Max(T) \in Int
    BY <1>1
  <1> QED
    BY <1>2

\* Two texts, one behind the other.
LEMMA Joined ==
  ASSUME NEW S, NEW s \in Seq(S), NEW t \in Seq(S)
  PROVE  /\ s \o t \in Seq(S) /\ Len(s) \in Nat /\ Len(t) \in Nat
         /\ Len(s \o t) = Len(s) + Len(t)
         /\ \A i \in 1..Len(s) : (s \o t)[i] = s[i]
         /\ \A i \in 1..Len(t) : (s \o t)[Len(s) + i] = t[i]
         /\ \A i \in 1..(Len(s) + Len(t)) :
              i \in 1..Len(s) \/ \E j \in 1..Len(t) : i = Len(s) + j
         /\ SubSeq(s \o t, 1, Len(s)) = s
         /\ SubSeq(s \o t, Len(s) + 1, Len(s \o t)) = t
  <1>1. Len(s) \in Nat /\ Len(t) \in Nat
    BY LenProperties
  <1>2. /\ s \o t \in Seq(S) /\ Len(s \o t) = Len(s) + Len(t)
        /\ \A i \in 1..Len(s) + Len(t) :
             (s \o t)[i] = IF i <= Len(s) THEN s[i] ELSE t[i - Len(s)]
    BY ConcatProperties
  <1> PICK m \in Nat : m = Len(s)
    BY <1>1
  <1> PICK n \in Nat : n = Len(t)
    BY <1>1
  <1>3. \A i \in 1..m : (s \o t)[i] = s[i]
    BY <1>2
  <1>4. \A i \in 1..n : (s \o t)[m + i] = t[i]
    <2> SUFFICES ASSUME NEW i \in 1..n PROVE (s \o t)[m + i] = t[i]
      OBVIOUS
    <2>1. m + i \in 1..(m + n) /\ ~(m + i <= m) /\ (m + i) - m = i
      OBVIOUS
    <2> QED
      BY <1>2, <2>1
  <1>5. \A i \in 1..(m + n) : i \in 1..m \/ \E j \in 1..n : i = m + j
    <2> SUFFICES ASSUME NEW i \in 1..(m + n), i \notin 1..m PROVE \E j \in 1..n : i = m + j
      OBVIOUS
    <2>1. i - m \in 1..n /\ i = m + (i - m)
      OBVIOUS
    <2> QED
      BY <2>1
  <1>6. SubSeq(s \o t, 1, m) = s
    <2>1. CASE m = 0
      <3>1. s = <<>>
        BY <2>1, EmptySeq
      <3>2. m < 1 /\ m \in Int /\ 1 \in Int
        BY <2>1
      <3>3. SubSeq(s \o t, 1, m) = <<>>
        BY <3>2, SubSeqEmpty
      <3> QED
        BY <3>1, <3>3
    <2>2. CASE m # 0
      <3>1. SubSeq(s \o t, 1, m) = SubSeq(s, 1, m)
        BY <2>2, SubSeqOfConcat1
      <3> QED
        BY <3>1, SubSeqFull
    <2> QED
      BY <2>1, <2>2
  <1>7. SubSeq(s \o t, m + 1, m + n) = t
    <2>1. CASE n = 0
      <3>1. t = <<>>
        BY <2>1, EmptySeq
      <3>2. m + n < m + 1 /\ m + n \in Int /\ m + 1 \in Int
        BY <2>1
      <3>3. SubSeq(s \o t, m + 1, m + n) = <<>>
        BY <3>2, SubSeqEmpty
      <3> QED
        BY <3>1, <3>3
    <2>2. CASE n # 0
      <3>1. m + 1 \in (m + 1)..(m + n) /\ m + n \in (m + 1)..(m + n)
            /\ (m + 1) - m = 1 /\ (m + n) - m = n
        BY <2>2
      <3>2. SubSeq(s \o t, m + 1, m + n) = SubSeq(t, 1, n)
        BY <3>1, SubSeqOfConcat2
      <3> QED
        BY <3>2, SubSeqFull
    <2> QED
      BY <2>1, <2>2
  <1> QED
    BY <1>1, <1>2, <1>3, <1>4, <1>5, <1>6, <1>7

LEMMA OneSymbol ==
  ASSUME NEW S, NEW x \in S
  PROVE  <<x>> \in Seq(S) /\ Len(<<x>>) = 1 /\ <<x>>[1] = x /\ <<x>> # <<>>
  OBVIOUS

\* The blanks before a text are skipped.
LEMMA BlanksSkipped ==
  ASSUME NEW S, NEW s \in Seq(S), NEW t \in Seq(S), t # <<>>,
         \A i \in 1..Len(s) : s[i] \in Space, t[1] \notin Space
  PROVE  SkipBlanks(s \o t) = t
  <1> DEFINE u == s \o t
             solid == {i \in 1..Len(u) : u[i] \notin Space}
  <1>1. /\ Len(s) \in Nat /\ Len(t) \in Nat /\ Len(u) = Len(s) + Len(t)
        /\ \A i \in 1..Len(s) : u[i] = s[i]
        /\ \A i \in 1..Len(t) : u[Len(s) + i] = t[i]
        /\ SubSeq(u, Len(s) + 1, Len(u)) = t
    BY Joined
  <1>2. Len(t) \in Nat \ {0}
    BY EmptySeq
  <1> HIDE DEF u
  <1>3. Len(s) + 1 \in solid
    BY <1>1, <1>2
  <1>4. \A i \in solid : Len(s) + 1 <= i
    BY <1>1
  <1>5. Min(solid) = Len(s) + 1
    <2>1. solid \subseteq Int
      OBVIOUS
    <2> HIDE DEF solid
    <2> QED
      BY <1>3, <1>4, <2>1, MinIs
  <1>6. SkipBlanks(u) = t
    BY <1>1, <1>3, <1>5 DEF SkipBlanks
  <1> QED
    BY <1>6 DEF u

\* strtok gives what is before the first delimiter, and leaves what is behind it.
LEMMA TokenTaken ==
  ASSUME NEW S, NEW s \in Seq(S), NEW t \in Seq(S), NEW d \in S, s # <<>>,
         \A i \in 1..Len(s) : s[i] # d
  PROVE  Strtok((s \o <<d>>) \o t, d) = [token |-> s, rest |-> t]
  <1> DEFINE v == s \o <<d>>
             u == v \o t
             starts == {i \in 1..Len(u) : u[i] # d}
             ends == {i \in 1..Len(u) : u[i] = d}
  <1>1. <<d>> \in Seq(S) /\ Len(<<d>>) = 1 /\ <<d>>[1] = d
    BY OneSymbol
  <1>2. /\ v \in Seq(S) /\ Len(s) \in Nat /\ Len(v) = Len(s) + 1
        /\ \A i \in 1..Len(s) : v[i] = s[i]
        /\ v[Len(s) + 1] = d
        /\ SubSeq(v, 1, Len(s)) = s
    BY <1>1, Joined
  <1>3. /\ Len(t) \in Nat /\ Len(u) = Len(v) + Len(t)
        /\ \A i \in 1..Len(v) : u[i] = v[i]
        /\ SubSeq(u, Len(v) + 1, Len(u)) = t
    BY <1>2, Joined
  <1>4. Len(s) \in Nat \ {0}
    BY EmptySeq
  <1>5. SubSeq(u, 1, Len(s)) = s
    <2>1. SubSeq(u, 1, Len(s)) = SubSeq(v, 1, Len(s))
      BY <1>2, <1>4, SubSeqOfConcat1
    <2> QED
      BY <1>2, <2>1
  <1> HIDE DEF u, v
  <1>6. 1 \in starts /\ \A i \in starts : 1 <= i
    BY <1>2, <1>3, <1>4
  <1>7. Min(starts) = 1
    <2>1. starts \subseteq Int
      OBVIOUS
    <2> HIDE DEF starts
    <2> QED
      BY <1>6, <2>1, MinIs
  <1>8. Len(s) + 1 \in ends /\ \A i \in ends : Len(s) + 1 <= i
    BY <1>2, <1>3, <1>4
  <1>9. Min(ends \cup {Len(u) + 1}) = Len(s) + 1
    <2> DEFINE T == ends \cup {Len(u) + 1}
    <2>1. T \subseteq Int /\ Len(s) + 1 \in T /\ \A i \in T : Len(s) + 1 <= i
      BY <1>2, <1>3, <1>8
    <2> HIDE DEF T
    <2>2. Min(T) = Len(s) + 1
      BY <2>1, MinIs
    <2> QED
      BY <2>2 DEF T
  <1>10. /\ (Len(s) + 1) - 1 = Len(s) /\ (Len(s) + 1) + 1 = Len(v) + 1
    BY <1>2
  <1>11. Strtok(u, d) = [token |-> SubSeq(u, 1, (Len(s) + 1) - 1),
                         rest |-> SubSeq(u, (Len(s) + 1) + 1, Len(u))]
    BY <1>6, <1>7, <1>9 DEF Strtok
  <1>12. Strtok(u, d) = [token |-> s, rest |-> t]
    BY <1>3, <1>5, <1>10, <1>11
  <1> QED
    BY <1>12 DEF u, v

\* A remark is cut off.
LEMMA RemarkCut ==
  ASSUME NEW S, NEW s \in Seq(S), NEW t \in Seq(S), Hash \in S,
         \A i \in 1..Len(s) : s[i] # Hash
  PROVE  /\ Uncommented(s) = s
         /\ Uncommented((s \o <<Hash>>) \o t) = s
  <1>1. Uncommented(s) = s
    BY DEF Uncommented
  <1> DEFINE v == s \o <<Hash>>
             u == v \o t
             marks == {i \in 1..Len(u) : u[i] = Hash}
  <1>2. <<Hash>> \in Seq(S) /\ Len(<<Hash>>) = 1 /\ <<Hash>>[1] = Hash
    BY OneSymbol
  <1>3. /\ v \in Seq(S) /\ Len(s) \in Nat /\ Len(v) = Len(s) + 1
        /\ \A i \in 1..Len(s) : v[i] = s[i]
        /\ v[Len(s) + 1] = Hash
        /\ SubSeq(v, 1, Len(s)) = s
    BY <1>2, Joined
  <1>4. /\ Len(t) \in Nat /\ Len(u) = Len(v) + Len(t)
        /\ \A i \in 1..Len(v) : u[i] = v[i]
    BY <1>3, Joined
  <1>5. SubSeq(u, 1, Len(s)) = s
    <2>1. CASE Len(s) = 0
      BY <2>1, SubSeqEmpty, EmptySeq
    <2>2. CASE Len(s) # 0
      <3>1. SubSeq(u, 1, Len(s)) = SubSeq(v, 1, Len(s))
        BY <1>3, <2>2, SubSeqOfConcat1
      <3> QED
        BY <1>3, <3>1
    <2> QED
      BY <2>1, <2>2
  <1> HIDE DEF u, v
  <1>6. Len(s) + 1 \in marks /\ \A i \in marks : Len(s) + 1 <= i
    BY <1>3, <1>4
  <1>7. Min(marks) = Len(s) + 1
    <2>1. marks \subseteq Int
      OBVIOUS
    <2> HIDE DEF marks
    <2> QED
      BY <1>6, <2>1, MinIs
  <1>8. (Len(s) + 1) - 1 = Len(s)
    BY <1>3
  <1>9. Uncommented(u) = s
    BY <1>5, <1>6, <1>7, <1>8 DEF Uncommented
  <1> QED
    BY <1>1, <1>9 DEF u, v

\* The blanks behind a text are cut off.
LEMMA EndTrimmed ==
  ASSUME NEW S, NEW s \in Seq(S), NEW t \in Seq(S), s # <<>>,
         s[Len(s)] \notin Space, \A i \in 1..Len(t) : t[i] \in Space
  PROVE  TrimEnd(s \o t) = s
  <1> DEFINE u == s \o t
             solid == {1} \cup {i \in 1..Len(u) : u[i] \notin Space}
  <1>1. /\ Len(s) \in Nat /\ Len(t) \in Nat /\ Len(u) = Len(s) + Len(t)
        /\ \A i \in 1..Len(s) : u[i] = s[i]
        /\ \A i \in 1..Len(t) : u[Len(s) + i] = t[i]
        /\ \A i \in 1..(Len(s) + Len(t)) :
             i \in 1..Len(s) \/ \E j \in 1..Len(t) : i = Len(s) + j
        /\ SubSeq(u, 1, Len(s)) = s
    BY Joined
  <1>2. Len(s) \in Nat \ {0}
    BY EmptySeq
  <1>3. u # <<>>
    BY ConcatEqualIffEmpty
  <1> HIDE DEF u
  <1>4. Len(s) \in solid
    <2> PICK n \in Nat \ {0} : n = Len(s)
      BY <1>2
    <2>1. n \in 1..n /\ n \in 1..Len(u)
      BY <1>1
    <2>2. u[n] = s[n]
      BY <1>1, <2>1
    <2> QED
      BY <2>1, <2>2
  <1>5. \A i \in solid : i <= Len(s)
    <2> PICK n \in Nat \ {0} : n = Len(s)
      BY <1>2
    <2> PICK m \in Nat : m = Len(t)
      BY <1>1
    <2> SUFFICES ASSUME NEW i \in solid PROVE i <= n
      OBVIOUS
    <2>1. i = 1 \/ (i \in 1..(n + m) /\ u[i] \notin Space)
      BY <1>1
    <2>2. CASE i = 1
      BY <2>2
    <2>3. CASE i \in 1..(n + m) /\ u[i] \notin Space
      <3>1. i \in 1..n \/ \E j \in 1..m : u[i] = t[j]
        BY <1>1, <2>3
      <3>2. \A j \in 1..m : t[j] \in Space
        OBVIOUS
      <3> QED
        BY <2>3, <3>1, <3>2
    <2> QED
      BY <2>1, <2>2, <2>3
  <1>6. Max(solid) = Len(s)
    <2>1. solid \subseteq Int
      OBVIOUS
    <2> HIDE DEF solid
    <2> QED
      BY <1>4, <1>5, <2>1, MaxIs
  <1>7. TrimEnd(u) = s
    BY <1>1, <1>3, <1>6 DEF TrimEnd
  <1> QED
    BY <1>7 DEF u

\* fgets returns a line that fits its buffer as a whole, and leaves the next ones.
LEMMA LineRead ==
  ASSUME NEW S, NEW s \in Seq(S), NEW t \in Seq(S), Newline \in S,
         \A i \in 1..Len(s) : s[i] # Newline, Len(s \o <<Newline>>) < MAX_LINE_LENGTH
  PROVE  Line((s \o <<Newline>>) \o t) = s \o <<Newline>>
  <1> DEFINE v == s \o <<Newline>>
             u == v \o t
             ends == {i \in 1..Len(u) : u[i] = Newline}
             T == ends \cup {Len(u), MAX_LINE_LENGTH - 1}
  <1>1. <<Newline>> \in Seq(S) /\ Len(<<Newline>>) = 1 /\ <<Newline>>[1] = Newline
    BY OneSymbol
  <1>2. /\ v \in Seq(S) /\ Len(s) \in Nat /\ Len(v) = Len(s) + 1
        /\ \A i \in 1..Len(s) : v[i] = s[i]
        /\ v[Len(s) + 1] = Newline
    BY <1>1, Joined
  <1>4. Len(v) < MAX_LINE_LENGTH /\ MAX_LINE_LENGTH \in Nat
    BY ConfigAssumption
  <1> HIDE DEF v
  <1>3. /\ Len(t) \in Nat /\ Len(u) = Len(v) + Len(t)
        /\ \A i \in 1..Len(v) : u[i] = v[i]
        /\ SubSeq(u, 1, Len(v)) = v
    <2>1. v \in Seq(S)
      BY <1>2
    <2> QED
      BY <2>1, Joined
  <1> HIDE DEF u
  <1>5. T \subseteq Int /\ Len(v) \in T /\ \A i \in T : Len(v) <= i
    <2> PICK n \in Nat : n = Len(s) /\ Len(v) = n + 1
      BY <1>2
    <2> PICK k \in Nat : k = Len(t) /\ Len(u) = (n + 1) + k
      BY <1>3
    <2>1. n + 1 \in 1..Len(u) /\ u[n + 1] = Newline
      BY <1>2, <1>3
    <2>2. \A i \in ends : n + 1 <= i
      BY <1>2, <1>3
    <2>3. n + 1 <= Len(u) /\ n + 1 <= MAX_LINE_LENGTH - 1
      BY <1>4
    <2> QED
      BY <1>4, <2>1, <2>2, <2>3
  <1>6. Min(T) = Len(v)
    <2> HIDE DEF T
    <2> QED
      BY <1>5, MinIs
  <1>7. Line(u) = v
    BY <1>3, <1>6 DEF Line
  <1> QED
    BY <1>7 DEF u, v

-----------------------------------------------------------------------------
(* What a line says.                                                       *)

\* Symbols a line may be spelled with.
Alphabet(S) ==
  {Blank, Newline, Equals, Hash, Quote, "remark"} \subseteq S

\* The parts of a setting: the value with its quotes, and the remark.
Quoted(line) ==
  IF line.quoted THEN (<<Quote>> \o line.value) \o <<Quote>> ELSE line.value

Remark(line) == IF line.remark THEN <<Hash, "remark", Equals>> ELSE <<>>

LEMMA Blanks ==
  ASSUME NEW n \in Nat, NEW S, Blank \in S
  PROVE  /\ Repeat(Blank, n) \in Seq(S)
         /\ \A i \in 1..Len(Repeat(Blank, n)) : Repeat(Blank, n)[i] = Blank
  <1>1. Repeat(Blank, n) \in [1..n -> S]
    BY DEF Repeat
  <1>2. Repeat(Blank, n) \in Seq(S)
    BY <1>1, FunctionIsSequence
  <1>3. Len(Repeat(Blank, n)) = n
    BY <1>1, <1>2, LenProperties
  <1> QED
    BY <1>2, <1>3 DEF Repeat

\* Texts may be joined in any order, and nine of them in the order they are read.
Cat(x, y) == x \o y
TextsOver(S) == Seq(S)

LEMMA CatClosed ==
  ASSUME NEW S, NEW x \in TextsOver(S), NEW y \in TextsOver(S)
  PROVE  Cat(x, y) \in TextsOver(S)
  BY ConcatProperties DEF Cat, TextsOver

LEMMA CatAssociates ==
  ASSUME NEW S, NEW x \in TextsOver(S), NEW y \in TextsOver(S), NEW z \in TextsOver(S)
  PROVE  Cat(Cat(x, y), z) = Cat(x, Cat(y, z))
  BY ConcatAssociative DEF Cat, TextsOver

LEMMA CatRegrouped ==
  ASSUME NEW S, NEW b \in TextsOver(S), NEW k \in TextsOver(S), NEW e \in TextsOver(S),
         NEW v \in TextsOver(S), NEW r \in TextsOver(S), NEW n \in TextsOver(S)
  PROVE  /\ Cat(Cat(Cat(Cat(Cat(Cat(Cat(Cat(b, k), b), e), b), v), b), r), n)
              = Cat(b, Cat(Cat(Cat(k, b), e), Cat(Cat(b, Cat(Cat(v, b), r)), n)))
         /\ Cat(Cat(k, b), e) \in TextsOver(S)
         /\ Cat(Cat(b, Cat(Cat(v, b), r)), n) \in TextsOver(S)
  <1> DEFINE T == TextsOver(S)
             ke == Cat(Cat(k, b), e)
             q == Cat(Cat(Cat(b, k), b), e)
             w == Cat(Cat(v, b), r)
             x == Cat(Cat(b, w), n)
             bv == Cat(b, v)
             bvb == Cat(bv, b)
  <1>1. /\ \A f, g \in T : Cat(f, g) \in T
        /\ \A f, g, h \in T : Cat(Cat(f, g), h) = Cat(f, Cat(g, h))
    <2>1. ASSUME NEW f \in T, NEW g \in T PROVE Cat(f, g) \in T
      BY <2>1, CatClosed
    <2>2. ASSUME NEW f \in T, NEW g \in T, NEW h \in T
          PROVE  Cat(Cat(f, g), h) = Cat(f, Cat(g, h))
      BY <2>2, CatAssociates
    <2> HIDE DEF T
    <2> QED
      BY <2>1, <2>2
  <1>2. b \in T /\ k \in T /\ e \in T /\ v \in T /\ r \in T /\ n \in T
    OBVIOUS
  <1> HIDE DEF T
  <1>3. ke \in T /\ w \in T /\ x \in T /\ q \in T /\ bv \in T /\ bvb \in T
    BY <1>1, <1>2
  <1>4. q = Cat(b, ke)
    BY <1>1, <1>2
  <1>5. Cat(bvb, r) = Cat(b, w)
    BY <1>1, <1>2
  <1> HIDE DEF q, ke, w
  <1>6. Cat(Cat(Cat(q, b), v), b) = Cat(q, bvb)
    <2>1. Cat(Cat(q, b), v) = Cat(q, bv)
      BY <1>1, <1>2, <1>3
    <2> HIDE DEF bv
    <2> QED
      BY <1>1, <1>2, <1>3, <2>1
  <1> HIDE DEF bvb
  <1>7. Cat(Cat(q, bvb), r) = Cat(q, Cat(b, w))
    BY <1>1, <1>2, <1>3, <1>5
  <1>8. Cat(Cat(q, Cat(b, w)), n) = Cat(q, x)
    BY <1>1, <1>2, <1>3
  <1>9. Cat(Cat(b, ke), x) = Cat(b, Cat(ke, x))
    <2> HIDE DEF x
    <2> QED
      BY <1>1, <1>2, <1>3
  <1>10. Cat(Cat(Cat(Cat(Cat(q, b), v), b), r), n) = Cat(b, Cat(ke, x))
    BY <1>4, <1>6, <1>7, <1>8, <1>9
  <1> QED
    BY <1>3, <1>10 DEF q, ke, x, w, T

\* A value that is neither left out nor holds the mark of a remark.
Readable(line) ==
  /\ \A j \in DOMAIN line.value : line.value[j] # Hash
  /\ line.value # <<>> \/ line.quoted

\* What stands in the file for such a value gives it back.
LEMMA ValueBack ==
  ASSUME NEW S, Alphabet(S), NEW line, WellPut(line), line.key # Hash, line.value \in Seq(S),
         Readable(line)
  PROVE  /\ Quoted(line) \in Seq(S) /\ Quoted(line) # <<>>
         /\ \A i \in 1..Len(Quoted(line)) : Quoted(line)[i] \notin {Hash, Newline}
         /\ Quoted(line)[1] \notin Space
         /\ Quoted(line)[Len(Quoted(line))] \notin Space
         /\ Unquoted(Quoted(line)) = line.value
  <1> DEFINE v == line.value
  <1>1. /\ v \in Seq(S) /\ Len(v) \in Nat /\ DOMAIN v = 1..Len(v)
        /\ \A j \in 1..Len(v) : v[j] \notin {Hash, Newline}
    BY LenProperties DEF WellPut, Readable
  <1>2. CASE ~line.quoted
    <2>1. /\ Quoted(line) = v /\ v # <<>> /\ v[1] \notin Space /\ v[Len(v)] \notin Space
          /\ v[1] # Quote \/ v[Len(v)] # Quote
      BY <1>2 DEF Quoted, WellPut, Readable
    <2> QED
      BY <1>1, <2>1 DEF Unquoted
  <1>3. CASE line.quoted
    <2> DEFINE a == <<Quote>> \o v
               u == a \o <<Quote>>
    <2>1. Quoted(line) = u
      BY <1>3 DEF Quoted
    <2>2. <<Quote>> \in Seq(S) /\ Len(<<Quote>>) = 1 /\ <<Quote>>[1] = Quote
      BY OneSymbol DEF Alphabet
    <2> PICK n \in Nat : n = Len(v)
      BY <1>1
    <2> HIDE DEF v
    <2>3. /\ a \in Seq(S) /\ Len(a) = 1 + Len(v) /\ a[1] = Quote
          /\ \A i \in 1..Len(v) : a[1 + i] = v[i]
          /\ \A i \in 1..(1 + Len(v)) : i = 1 \/ \E j \in 1..Len(v) : i = 1 + j
          /\ SubSeq(a, 2, Len(a)) = v
      <3>1. /\ a \in Seq(S) /\ Len(a) = Len(<<Quote>>) + Len(v)
            /\ \A i \in 1..Len(<<Quote>>) : a[i] = <<Quote>>[i]
            /\ \A i \in 1..Len(v) : a[Len(<<Quote>>) + i] = v[i]
            /\ \A i \in 1..(Len(<<Quote>>) + Len(v)) :
                 i \in 1..Len(<<Quote>>) \/ \E j \in 1..Len(v) : i = Len(<<Quote>>) + j
            /\ SubSeq(a, Len(<<Quote>>) + 1, Len(a)) = v
        BY <1>1, <2>2, Joined
      <3>2. Len(<<Quote>>) = 1 /\ <<Quote>>[1] = Quote /\ 1 \in 1..1 /\ 1 + 1 = 2
            /\ \A i \in 1..1 : i = 1
        BY <2>2
      <3>3. SubSeq(a, 2, Len(a)) = v
        BY <3>1, <3>2
      <3>4. a[1] = Quote
        BY <3>1, <3>2
      <3> HIDE DEF a
      <3> QED
        BY <3>1, <3>2, <3>3, <3>4
    <2> HIDE DEF a
    <2>4. /\ u \in Seq(S) /\ Len(u) = Len(a) + 1 /\ u[Len(a) + 1] = Quote
          /\ \A i \in 1..Len(a) : u[i] = a[i]
          /\ \A i \in 1..(Len(a) + 1) : i \in 1..Len(a) \/ i = Len(a) + 1
      <3>1. /\ u \in Seq(S) /\ Len(u) = Len(a) + Len(<<Quote>>)
            /\ \A i \in 1..Len(<<Quote>>) : u[Len(a) + i] = <<Quote>>[i]
            /\ \A i \in 1..Len(a) : u[i] = a[i]
        BY <2>2, <2>3, Joined
      <3>2. Len(a) \in Nat
        BY <1>1, <2>3
      <3> HIDE DEF u
      <3> QED
        BY <2>2, <3>1, <3>2
    <2>5. SubSeq(u, 2, Len(a)) = v
      <3>1. CASE v = <<>>
        <4>1. Len(a) < 2 /\ Len(a) \in Int
          BY <2>3, <3>1, EmptySeq
        <4> QED
          BY <3>1, <4>1, SubSeqEmpty
      <3>2. CASE v # <<>>
        <4>1. Len(v) \in Nat \ {0}
          BY <1>1, <3>2, EmptySeq
        <4>2. 2 \in 1..Len(a) /\ Len(a) \in 1..Len(a)
          BY <2>3, <4>1
        <4>3. SubSeq(u, 2, Len(a)) = SubSeq(a, 2, Len(a))
          BY <2>2, <2>3, <4>2, SubSeqOfConcat1
        <4> QED
          BY <2>3, <4>3
      <3> QED
        BY <3>1, <3>2
    <2> HIDE DEF u
    <2>6. Len(a) = n + 1 /\ Len(u) = n + 2 /\ Len(u) - 1 = Len(a)
      BY <2>3, <2>4
    <2>7. u[1] = Quote /\ u[Len(u)] = Quote /\ u # <<>>
      <3>1. 1 \in 1..Len(a)
        BY <2>6
      <3>2. u # <<>>
        BY <2>4, <2>6, EmptySeq
      <3> QED
        BY <2>3, <2>4, <2>6, <3>1, <3>2
    <2>8. Unquoted(u) = v
      BY <2>5, <2>6, <2>7 DEF Unquoted
    <2>9. \A i \in 1..Len(u) : u[i] \notin {Hash, Newline}
      <3> SUFFICES ASSUME NEW i \in 1..Len(u) PROVE u[i] \notin {Hash, Newline}
        OBVIOUS
      <3>1. Quote \notin {Hash, Newline}
        BY DEF Quote, Hash, Newline
      <3>2. CASE i = Len(a) + 1
        BY <2>4, <3>1, <3>2
      <3>3. CASE i \in 1..Len(a)
        <4>1. u[i] = a[i] /\ (i = 1 \/ \E j \in 1..Len(v) : i = 1 + j)
          BY <2>3, <2>4, <3>3
        <4> QED
          BY <1>1, <2>3, <3>1, <4>1
      <3> QED
        BY <2>4, <3>2, <3>3
    <2>10. Quote \notin Space
      BY DEF Quote, Space, Blank, Newline
    <2> QED
      BY <2>1, <2>4, <2>7, <2>8, <2>9, <2>10 DEF v
  <1>4. line.quoted \/ ~line.quoted
    OBVIOUS
  <1> QED
    BY <1>2, <1>3

\* A text over S without the symbols of X is a text over the others.
LEMMA Avoids ==
  ASSUME NEW S, NEW X, NEW s \in Seq(S)
  PROVE  (\A i \in 1..Len(s) : s[i] \notin X) <=> s \in Seq(S \ X)
  <1>1. ASSUME \A i \in 1..Len(s) : s[i] \notin X PROVE s \in Seq(S \ X)
    <2>1. /\ s = [i \in 1..Len(s) |-> s[i]] /\ Len(s) \in Nat
          /\ \A i \in 1..Len(s) : s[i] \in S
      OBVIOUS
    <2> PICK n \in Nat : n = Len(s)
      BY <2>1
    <2>2. s \in [1..n -> S \ X]
      BY <1>1, <2>1
    <2> QED
      BY <2>2, FunctionIsSequence
  <1>2. ASSUME s \in Seq(S \ X) PROVE \A i \in 1..Len(s) : s[i] \notin X
    BY <1>2
  <1> QED
    BY <1>1, <1>2

LEMMA Widened ==
  ASSUME NEW A, NEW S, A \subseteq S, NEW s \in Seq(A)
  PROVE  s \in Seq(S)
  <1>1. s = [i \in 1..Len(s) |-> s[i]] /\ Len(s) \in Nat /\ \A i \in 1..Len(s) : s[i] \in S
    OBVIOUS
  <1> PICK n \in Nat : n = Len(s)
    BY <1>1
  <1>2. s \in [1..n -> S]
    BY <1>1
  <1> QED
    BY <1>2, FunctionIsSequence

\* There is no newline in what stands for any value.
LEMMA QuotedIs ==
  ASSUME NEW S, Alphabet(S), NEW line, WellPut(line), line.value \in Seq(S)
  PROVE  Quoted(line) \in Seq(S \ {Newline})
  <1> DEFINE v == line.value
             N == S \ {Newline}
             q == <<Quote>>
  <1>1. v \in Seq(N)
    <2>1. v \in Seq(S) /\ \A i \in 1..Len(v) : v[i] \notin {Newline}
      BY DEF WellPut
    <2> HIDE DEF v
    <2> QED
      BY <2>1, Avoids
  <1>2. q \in Seq(N)
    <2>1. Quote \in N
      BY DEF Alphabet, Quote, Newline
    <2> QED
      BY <2>1, OneSymbol
  <1> HIDE DEF v, N, q
  <1>3. (q \o v) \o q \in Seq(N)
    <2>1. q \o v \in Seq(N)
      BY <1>1, <1>2, Joined
    <2> QED
      BY <1>2, <2>1, Joined
  <1>4. Quoted(line) = IF line.quoted THEN (q \o v) \o q ELSE v
    BY DEF Quoted, v, q
  <1> QED
    BY <1>1, <1>3, <1>4 DEF N

\* The parts of a spelled setting.
Indent(line) == Repeat(Blank, line.blanks)
Name(line) == <<line.key>> \o Indent(line)
Side(line) == (Quoted(line) \o Indent(line)) \o Remark(line)
Behind(line) == Indent(line) \o Side(line)

\* A setting over S.
Setting(line, S) ==
  WellPut(line) /\ line.key # Hash /\ line.key \in S /\ line.value \in Seq(S)

\* Its parts, and which symbols are not in them.
LEMMA Parts ==
  ASSUME NEW S, Alphabet(S), NEW line, Setting(line, S)
  PROVE  /\ Indent(line) \in Seq(S \ {Equals, Hash, Newline})
         /\ \A i \in 1..Len(Indent(line)) : Indent(line)[i] \in Space
         /\ <<line.key>> \in Seq(S \ {Equals, Hash, Newline})
         /\ line.key \notin Space
         /\ Name(line) \in Seq(S \ {Equals, Hash, Newline}) /\ Name(line) # <<>>
         /\ Quoted(line) \in Seq(S \ {Newline})
         /\ Remark(line) \in Seq(S \ {Newline})
         /\ Side(line) \in Seq(S \ {Newline})
         /\ Behind(line) \in Seq(S \ {Newline})
  <1> DEFINE E == S \ {Equals, Hash, Newline}
             N == S \ {Newline}
  <1>0. E \subseteq N
    OBVIOUS
  <1>1. Blank \in E /\ line.blanks \in Nat /\ Blank \in Space
    BY DEF Alphabet, Setting, WellPut, Blank, Equals, Hash, Newline, Space
  <1>2. Indent(line) \in Seq(E) /\ \A i \in 1..Len(Indent(line)) : Indent(line)[i] \in Space
    <2> HIDE DEF E
    <2>1. /\ Repeat(Blank, line.blanks) \in Seq(E)
          /\ \A i \in 1..Len(Repeat(Blank, line.blanks)) :
               Repeat(Blank, line.blanks)[i] = Blank
      BY <1>1, Blanks
    <2> QED
      BY <1>1, <2>1 DEF Indent
  <1>3. line.key \in E /\ line.key \notin Space
    BY DEF Setting, WellPut, Space
  <1>4. <<line.key>> \in Seq(E) /\ <<line.key>> # <<>>
    <2> HIDE DEF E
    <2> QED
      BY <1>3, OneSymbol
  <1>5. Name(line) \in Seq(E) /\ Name(line) # <<>>
    <2> HIDE DEF E
    <2>1. <<line.key>> \o Indent(line) \in Seq(E)
      BY <1>2, <1>4, Joined
    <2>2. <<line.key>> \o Indent(line) # <<>>
      BY <1>2, <1>4, ConcatEqualIffEmpty
    <2> QED
      BY <2>1, <2>2 DEF Name
  <1>6. Quoted(line) \in Seq(N)
    BY QuotedIs DEF Setting
  <1>8. Remark(line) \in Seq(S)
    BY DEF Remark, Alphabet
  <1>9. \A i \in 1..Len(Remark(line)) : Remark(line)[i] \notin {Newline}
    <2>1. CASE line.remark
      <3>1. Remark(line) = <<Hash, "remark", Equals>>
        BY <2>1 DEF Remark
      <3>2. \A i \in 1..3 : i = 1 \/ i = 2 \/ i = 3
        OBVIOUS
      <3>3. Hash # Newline /\ "remark" # Newline /\ Equals # Newline
        BY DEF Hash, Newline, Equals
      <3> QED
        BY <3>1, <3>2, <3>3
    <2>2. CASE ~line.remark
      BY <2>2 DEF Remark
    <2> QED
      BY <2>1, <2>2
  <1>10. Remark(line) \in Seq(N)
    BY <1>8, <1>9, Avoids
  <1> HIDE DEF E, N
  <1>11. Indent(line) \in Seq(N)
    BY <1>0, <1>2, Widened
  <1>12. Side(line) \in Seq(N)
    <2> DEFINE qb == Quoted(line) \o Indent(line)
    <2>1. qb \in Seq(N)
      BY <1>6, <1>11, Joined
    <2> HIDE DEF qb
    <2>2. qb \o Remark(line) \in Seq(N)
      BY <1>10, <2>1, Joined
    <2> QED
      BY <2>2 DEF Side, qb
  <1>13. Behind(line) \in Seq(N)
    <2>1. Indent(line) \o Side(line) \in Seq(N)
      BY <1>11, <1>12, Joined
    <2> QED
      BY <2>1 DEF Behind
  <1> QED
    BY <1>2, <1>3, <1>4, <1>5, <1>6, <1>10, <1>12, <1>13 DEF E, N

\* The parts of a setting with a readable value.
LEMMA ReadableParts ==
  ASSUME NEW S, Alphabet(S), NEW line, Setting(line, S), Readable(line)
  PROVE  /\ Quoted(line) \in Seq(S \ {Hash, Newline}) /\ Quoted(line) # <<>>
         /\ Quoted(line)[Len(Quoted(line))] \notin Space
         /\ Unquoted(Quoted(line)) = line.value
         /\ Side(line) # <<>> /\ Side(line)[1] \notin Space
         /\ Behind(line) # <<>>
  <1> DEFINE N == S \ {Newline}
             b == Indent(line)
             q == Quoted(line)
             r == Remark(line)
             qb == q \o b
  <1>1. /\ b \in Seq(S \ {Equals, Hash, Newline})
        /\ q \in Seq(N) /\ r \in Seq(N) /\ Side(line) \in Seq(N)
    BY Parts
  <1>2. /\ q \in Seq(S) /\ q # <<>> /\ q[1] \notin Space /\ q[Len(q)] \notin Space
        /\ \A i \in 1..Len(q) : q[i] \notin {Hash, Newline}
        /\ Unquoted(q) = line.value
    BY ValueBack DEF Setting
  <1>3. q \in Seq(S \ {Hash, Newline})
    <2> HIDE DEF q
    <2> QED
      BY <1>2, Avoids
  <1>4. b \in Seq(N)
    <2>1. S \ {Equals, Hash, Newline} \subseteq N
      OBVIOUS
    <2> HIDE DEF b, N
    <2> QED
      BY <1>1, <2>1, Widened
  <1>5. Side(line) = qb \o r /\ Behind(line) = b \o Side(line)
    BY DEF Side, Behind
  <1> HIDE DEF b, q, r, N
  <1>6. qb \in Seq(N) /\ qb # <<>> /\ qb[1] = q[1]
    <2>1. qb \in Seq(N) /\ \A i \in 1..Len(q) : qb[i] = q[i]
      BY <1>1, <1>4, Joined
    <2>2. qb # <<>>
      BY <1>1, <1>2, <1>4, ConcatEqualIffEmpty
    <2>3. 1 \in 1..Len(q)
      BY <1>1, <1>2, EmptySeq
    <2> QED
      BY <2>1, <2>2, <2>3
  <1> HIDE DEF qb
  <1>7. qb \o r # <<>> /\ (qb \o r)[1] = qb[1]
    <2>1. \A i \in 1..Len(qb) : (qb \o r)[i] = qb[i]
      BY <1>1, <1>6, Joined
    <2>2. qb \o r # <<>>
      BY <1>1, <1>6, ConcatEqualIffEmpty
    <2>3. 1 \in 1..Len(qb)
      BY <1>6, EmptySeq
    <2> QED
      BY <2>1, <2>2, <2>3
  <1>8. b \o Side(line) # <<>>
    BY <1>1, <1>4, <1>5, <1>7, ConcatEqualIffEmpty
  <1> QED
    BY <1>2, <1>3, <1>5, <1>6, <1>7, <1>8 DEF q

\* A setting as it is spelled: blanks, the name, the mark, and what is behind it.
LEMMA SettingSpelled ==
  ASSUME NEW S, Alphabet(S), NEW line, Setting(line, S)
  PROVE  /\ Spelled(line)
              = Indent(line) \o ((Name(line) \o <<Equals>>) \o (Behind(line) \o <<Newline>>))
         /\ Name(line) \o <<Equals>> \in Seq(S) /\ Behind(line) \o <<Newline>> \in Seq(S)
  <1> DEFINE b == Indent(line)
             k == <<line.key>>
             e == <<Equals>>
             v == Quoted(line)
             r == Remark(line)
             n == <<Newline>>
  <1>1. S \ {Equals, Hash, Newline} \subseteq S /\ S \ {Newline} \subseteq S
    OBVIOUS
  <1>2. b \in Seq(S) /\ k \in Seq(S) /\ v \in Seq(S) /\ r \in Seq(S)
    <2>1. /\ b \in Seq(S \ {Equals, Hash, Newline}) /\ k \in Seq(S \ {Equals, Hash, Newline})
          /\ v \in Seq(S \ {Newline}) /\ r \in Seq(S \ {Newline})
      BY Parts
    <2> HIDE DEF b, k, v, r
    <2> QED
      BY <1>1, <2>1, Widened
  <1>3. e \in Seq(S) /\ n \in Seq(S)
    <2>1. Equals \in S /\ Newline \in S
      BY DEF Alphabet
    <2> QED
      BY <2>1, OneSymbol
  <1>4. Spelled(line) = b \o k \o b \o e \o b \o v \o b \o r \o n
    BY DEF Spelled, Setting, Indent, Quoted, Remark
  <1>5. /\ b \o k \o b \o e \o b \o v \o b \o r \o n
             = b \o (((k \o b) \o e) \o ((b \o ((v \o b) \o r)) \o n))
        /\ (k \o b) \o e \in Seq(S) /\ (b \o ((v \o b) \o r)) \o n \in Seq(S)
    <2> HIDE DEF b, k, e, v, r, n
    <2>1. /\ b \in TextsOver(S) /\ k \in TextsOver(S) /\ e \in TextsOver(S)
          /\ v \in TextsOver(S) /\ r \in TextsOver(S) /\ n \in TextsOver(S)
      BY <1>2, <1>3 DEF TextsOver
    <2>2. /\ Cat(Cat(Cat(Cat(Cat(Cat(Cat(Cat(b, k), b), e), b), v), b), r), n)
               = Cat(b, Cat(Cat(Cat(k, b), e), Cat(Cat(b, Cat(Cat(v, b), r)), n)))
          /\ Cat(Cat(k, b), e) \in TextsOver(S)
          /\ Cat(Cat(b, Cat(Cat(v, b), r)), n) \in TextsOver(S)
      BY <2>1, CatRegrouped
    <2> QED
      BY <2>2, Zenon DEF Cat, TextsOver
  <1> QED
    BY <1>4, <1>5, Zenon DEF Name, Behind, Side

\* It ends with the only newline in it.
LEMMA SettingEnds ==
  ASSUME NEW S, Alphabet(S), NEW line, Setting(line, S)
  PROVE  \E s \in Seq(S \ {Newline}) : Spelled(line) = s \o <<Newline>>
  <1> DEFINE b == Indent(line)
             p == Name(line) \o <<Equals>>
             w == Behind(line)
             n == <<Newline>>
             N == S \ {Newline}
  <1>0. N \subseteq S /\ S \ {Equals, Hash, Newline} \subseteq N
    OBVIOUS
  <1>1. Equals \in N /\ Newline \in S
    BY DEF Alphabet, Equals, Newline
  <1>2. b \in Seq(N) /\ Name(line) \in Seq(N) /\ w \in Seq(N)
    <2>1. /\ b \in Seq(S \ {Equals, Hash, Newline}) /\ w \in Seq(N)
          /\ Name(line) \in Seq(S \ {Equals, Hash, Newline})
      BY Parts
    <2> HIDE DEF N, b, w
    <2> QED
      BY <1>0, <2>1, Widened
  <1>3. Spelled(line) = b \o (p \o (w \o n))
    BY SettingSpelled
  <1> HIDE DEF N
  <1>4. p \in Seq(N)
    <2>1. <<Equals>> \in Seq(N)
      BY <1>1, OneSymbol
    <2> QED
      BY <1>2, <2>1, Joined
  <1> HIDE DEF b, p, w
  <1>5. p \in Seq(S) /\ b \in Seq(S) /\ w \in Seq(S) /\ n \in Seq(S)
    <2>1. n \in Seq(S)
      BY <1>1, OneSymbol
    <2> QED
      BY <1>0, <1>2, <1>4, <2>1, Widened
  <1> HIDE DEF n
  <1> DEFINE pw == p \o w
  <1>6. pw \in Seq(N) /\ b \o pw \in Seq(N) /\ pw \in Seq(S)
    <2>1. pw \in Seq(N)
      BY <1>2, <1>4, Joined
    <2> HIDE DEF pw
    <2> QED
      BY <1>0, <1>2, <2>1, Joined, Widened
  <1>7. p \o (w \o n) = pw \o n
    <2>1. p \in TextsOver(S) /\ w \in TextsOver(S) /\ n \in TextsOver(S)
      BY <1>5, Zenon DEF TextsOver
    <2>2. Cat(Cat(p, w), n) = Cat(p, Cat(w, n))
      BY <2>1, CatAssociates
    <2> QED
      BY <2>2, Zenon DEF Cat
  <1> HIDE DEF pw
  <1>8. b \o (pw \o n) = (b \o pw) \o n
    <2>1. b \in TextsOver(S) /\ pw \in TextsOver(S) /\ n \in TextsOver(S)
      BY <1>5, <1>6, Zenon DEF TextsOver
    <2>2. Cat(Cat(b, pw), n) = Cat(b, Cat(pw, n))
      BY <2>1, CatAssociates
    <2> QED
      BY <2>2, Zenon DEF Cat
  <1>9. Spelled(line) = (b \o pw) \o n
    BY <1>3, <1>7, <1>8
  <1> QED
    BY <1>6, <1>9 DEF n, N

\* Its name is found, whatever its value.
LEMMA KeyFound ==
  ASSUME NEW S, Alphabet(S), NEW line, Setting(line, S)
  PROVE  \E text :
           /\ SkipBlanks(Spelled(line)) = text /\ text # <<>> /\ text[1] # Hash
           /\ Strtok(text, Equals)
                = [token |-> Name(line), rest |-> Behind(line) \o <<Newline>>]
           /\ Name(line) # <<>> /\ TrimEnd(Name(line)) = <<line.key>>
  <1> DEFINE b == Indent(line)
             k == Name(line)
             w == Behind(line)
             text == (k \o <<Equals>>) \o (w \o <<Newline>>)
             u == Spelled(line)
  <1>1. /\ b \in Seq(S \ {Equals, Hash, Newline}) /\ \A i \in 1..Len(b) : b[i] \in Space
        /\ k \in Seq(S \ {Equals, Hash, Newline}) /\ k # <<>>
        /\ w \in Seq(S \ {Newline})
        /\ <<line.key>> \in Seq(S \ {Equals, Hash, Newline}) /\ line.key \notin Space
    BY Parts
  <1>2. b \in Seq(S) /\ k \in Seq(S) /\ w \in Seq(S) /\ <<line.key>> \in Seq(S)
    <2>1. S \ {Equals, Hash, Newline} \subseteq S /\ S \ {Newline} \subseteq S
      OBVIOUS
    <2> HIDE DEF b, k, w
    <2> QED
      BY <1>1, <2>1, Widened
  <1>3. k \o <<Equals>> \in Seq(S) /\ w \o <<Newline>> \in Seq(S) /\ u = b \o text
    BY SettingSpelled
  <1>4. Equals \in S /\ Hash \in S /\ Newline \in S
    BY DEF Alphabet
  <1>5. k[1] = line.key /\ 1 \in 1..Len(k)
    <2>1. <<line.key>>[1] = line.key /\ 1 \in 1..Len(<<line.key>>)
      OBVIOUS
    <2>2. /\ \A i \in 1..Len(<<line.key>>) : (<<line.key>> \o b)[i] = <<line.key>>[i]
      BY <1>2, Joined
    <2>3. 1 \in 1..Len(k)
      BY <1>1, EmptySeq
    <2> QED
      BY <2>1, <2>2, <2>3 DEF Name
  <1> HIDE DEF u, b, k, w
  <1>6. text \in Seq(S) /\ text # <<>> /\ text[1] = line.key
    <2> DEFINE ke == k \o <<Equals>>
               wn == w \o <<Newline>>
    <2>1. <<Equals>> \in Seq(S)
      BY <1>4, OneSymbol
    <2>2. ke[1] = line.key /\ ke # <<>>
      <3>1. \A i \in 1..Len(k) : ke[i] = k[i]
        BY <1>2, <2>1, Joined
      <3>2. ke # <<>>
        BY <1>1, <1>2, <2>1, ConcatEqualIffEmpty
      <3> QED
        BY <1>5, <3>1, <3>2
    <2>3. ke \in Seq(S) /\ wn \in Seq(S)
      BY <1>3
    <2> HIDE DEF ke, wn
    <2>4. /\ ke \o wn \in Seq(S)
          /\ \A i \in 1..Len(ke) : (ke \o wn)[i] = ke[i]
      BY <2>3, Joined
    <2>5. ke \o wn # <<>>
      BY <2>2, <2>3, ConcatEqualIffEmpty
    <2>6. 1 \in 1..Len(ke)
      BY <2>2, <2>3, EmptySeq
    <2> QED
      BY <2>2, <2>4, <2>5, <2>6 DEF ke, wn
  <1>7. SkipBlanks(u) = text
    <2> HIDE DEF text
    <2> QED
      BY <1>1, <1>2, <1>3, <1>6, BlanksSkipped
  <1>8. Strtok(text, Equals) = [token |-> k, rest |-> w \o <<Newline>>]
    <2> DEFINE wn == w \o <<Newline>>
    <2>1. \A i \in 1..Len(k) : k[i] # Equals
      BY <1>1
    <2>2. wn \in Seq(S)
      BY <1>3
    <2> HIDE DEF wn
    <2>3. Strtok((k \o <<Equals>>) \o wn, Equals) = [token |-> k, rest |-> wn]
      BY <1>1, <1>2, <1>4, <2>1, <2>2, TokenTaken
    <2> QED
      BY <2>3 DEF wn
  <1>9. TrimEnd(k) = <<line.key>>
    <2>1. <<line.key>> # <<>> /\ Len(<<line.key>>) = 1 /\ <<line.key>>[1] = line.key
      OBVIOUS
    <2>2. TrimEnd(<<line.key>> \o b) = <<line.key>>
      BY <1>1, <1>2, <2>1, EndTrimmed
    <2> QED
      BY <2>2 DEF k, b, Name
  <1> HIDE DEF text
  <1>10. line.key # Hash
    BY DEF Setting
  <1> QED
    BY <1>1, <1>6, <1>7, <1>8, <1>9, <1>10 DEF u, k, w

LEMMA EntryIs ==
  ASSUME NEW x, NEW text, SkipBlanks(x) = text, NEW k, NEW r, NEW w,
         Strtok(text, Equals) = [token |-> k, rest |-> r], Strtok(r, Newline).token = w
  PROVE  Entry(x) =
           IF text = <<>> \/ text[1] = Hash \/ k = <<>> \/ w = <<>> THEN Nothing
           ELSE [key |-> TrimEnd(k),
                 value |-> Unquoted(TrimEnd(Uncommented(SkipBlanks(w))))]
  <1> DEFINE e == Strtok(text, Equals)
             V(t) == Unquoted(TrimEnd(Uncommented(SkipBlanks(t))))
  <1>1. e.token = k /\ e.rest = r
    OBVIOUS
  <1>2. Entry(x) =
          IF text = <<>> \/ text[1] = Hash \/ e.token = <<>> \/ Strtok(e.rest, Newline).token = <<>>
            THEN Nothing
            ELSE [key |-> TrimEnd(e.token), value |-> V(Strtok(e.rest, Newline).token)]
    BY DEF Entry
  <1> HIDE DEF e, V
  <1>3. Entry(x) = IF text = <<>> \/ text[1] = Hash \/ k = <<>> \/ w = <<>> THEN Nothing
                   ELSE [key |-> TrimEnd(k), value |-> V(w)]
    BY <1>1, <1>2
  <1> QED
    BY <1>3 DEF V

\* It gives a value to no other name, and to its own unless the value is left out.
LEMMA OwnKey ==
  ASSUME NEW S, Alphabet(S), NEW line, Setting(line, S)
  PROVE  Entry(Spelled(line)).key \in {<<>>, <<line.key>>}
  <1>1. PICK text :
          /\ SkipBlanks(Spelled(line)) = text
          /\ Strtok(text, Equals)
               = [token |-> Name(line), rest |-> Behind(line) \o <<Newline>>]
          /\ TrimEnd(Name(line)) = <<line.key>>
    BY KeyFound
  <1> DEFINE r == Behind(line) \o <<Newline>>
             w == Strtok(r, Newline).token
             v == Unquoted(TrimEnd(Uncommented(SkipBlanks(w))))
  <1> HIDE DEF r
  <1>2. Strtok(text, Equals) = [token |-> Name(line), rest |-> r]
    BY <1>1 DEF r
  <1>3. Entry(Spelled(line)) =
          IF text = <<>> \/ text[1] = Hash \/ Name(line) = <<>> \/ w = <<>> THEN Nothing
          ELSE [key |-> TrimEnd(Name(line)), value |-> v]
    BY <1>1, <1>2, EntryIs
  <1> HIDE DEF w, v
  <1>4. Entry(Spelled(line)) = Nothing \/ Entry(Spelled(line)) = [key |-> <<line.key>>, value |-> v]
    BY <1>1, <1>3
  <1> QED
    BY <1>4 DEF Nothing

\* What it says.
LEMMA SettingSays ==
  ASSUME NEW S, Alphabet(S), NEW line, Setting(line, S), Readable(line)
  PROVE  Entry(Spelled(line)) = [key |-> <<line.key>>, value |-> line.value]
  <1> DEFINE b == Indent(line)
             k == Name(line)
             w == Behind(line)
             u == Spelled(line)
  <1>1. /\ b \in Seq(S \ {Equals, Hash, Newline}) /\ \A i \in 1..Len(b) : b[i] \in Space
        /\ w \in Seq(S \ {Newline}) /\ w # <<>>
        /\ Quoted(line) \in Seq(S \ {Hash, Newline}) /\ Remark(line) \in Seq(S \ {Newline})
        /\ Side(line) \in Seq(S \ {Newline}) /\ Side(line) # <<>>
        /\ Side(line)[1] \notin Space
    BY Parts, ReadableParts
  <1>2. /\ b \in Seq(S) /\ w \in Seq(S) /\ Quoted(line) \in Seq(S)
        /\ Remark(line) \in Seq(S) /\ Side(line) \in Seq(S)
    <2>1. /\ S \ {Equals, Hash, Newline} \subseteq S /\ S \ {Hash, Newline} \subseteq S
          /\ S \ {Newline} \subseteq S
      OBVIOUS
    <2> HIDE DEF b, w
    <2> QED
      BY <1>1, <2>1, Widened
  <1>3. w \o <<Newline>> \in Seq(S)
    BY SettingSpelled
  <1>4. Hash \in S /\ Newline \in S
    BY DEF Alphabet
  <1>5. PICK text :
          /\ SkipBlanks(u) = text /\ text # <<>> /\ text[1] # Hash
          /\ Strtok(text, Equals) = [token |-> k, rest |-> w \o <<Newline>>]
          /\ k # <<>> /\ TrimEnd(k) = <<line.key>>
    BY KeyFound
  <1> HIDE DEF u, b, k, w
  <1>9. Strtok(w \o <<Newline>>, Newline) = [token |-> w, rest |-> <<>>]
    <2> DEFINE wn == w \o <<Newline>>
    <2>1. \A i \in 1..Len(w) : w[i] # Newline
      BY <1>1
    <2>2. wn \o <<>> = wn
      BY <1>3, ConcatEmptySeq
    <2>3. <<>> \in Seq(S)
      OBVIOUS
    <2>4. Strtok((w \o <<Newline>>) \o <<>>, Newline) = [token |-> w, rest |-> <<>>]
      BY <1>1, <1>2, <1>4, <2>1, <2>3, TokenTaken
    <2> QED
      BY <2>2, <2>4
  <1>10. SkipBlanks(w) = Side(line)
    BY <1>1, <1>2, BlanksSkipped DEF Behind, b, w
  <1>11. Uncommented(Side(line)) = Quoted(line) \o b
    <2> DEFINE q == Quoted(line) \o b
    <2>1. q \in Seq(S) /\ \A i \in 1..Len(q) : q[i] # Hash
      <3> DEFINE H == S \ {Hash, Newline}
      <3>1. b \in Seq(H) /\ Quoted(line) \in Seq(H)
        <4>1. S \ {Equals, Hash, Newline} \subseteq H
          OBVIOUS
        <4> HIDE DEF H
        <4>2. b \in Seq(H)
          BY <1>1, <4>1, Widened
        <4> QED
          BY <1>1, <4>2 DEF H
      <3> HIDE DEF H
      <3>2. q \in Seq(H)
        BY <3>1, Joined
      <3>3. q \in Seq(S)
        BY <1>2, Joined
      <3> HIDE DEF q
      <3> QED
        BY <3>2, <3>3 DEF H
    <2>2. Side(line) = q \o Remark(line)
      BY DEF Side, b
    <2> HIDE DEF q
    <2>3. CASE ~line.remark
      <3>1. q \o <<>> = q
        BY <2>1, ConcatEmptySeq
      <3>2. Side(line) = q
        BY <2>2, <2>3, <3>1 DEF Remark
      <3>3. <<>> \in Seq(S)
        OBVIOUS
      <3>4. Uncommented(q) = q
        BY <1>4, <2>1, <3>3, RemarkCut
      <3> QED
        BY <3>2, <3>4 DEF q
    <2>4. CASE line.remark
      <3> DEFINE h == <<Hash>>
                 t == <<"remark", Equals>>
      <3>1. h \in Seq(S) /\ t \in Seq(S) /\ Remark(line) = h \o t
        BY <2>4 DEF Remark, Alphabet
      <3> HIDE DEF t
      <3>2. q \o (h \o t) = (q \o h) \o t
        <4> HIDE DEF h
        <4>1. q \in TextsOver(S) /\ h \in TextsOver(S) /\ t \in TextsOver(S)
          BY <2>1, <3>1, Zenon DEF TextsOver
        <4>2. Cat(Cat(q, h), t) = Cat(q, Cat(h, t))
          BY <4>1, CatAssociates
        <4> QED
          BY <4>2, Zenon DEF Cat
      <3>3. Uncommented((q \o h) \o t) = q
        BY <1>4, <2>1, <3>1, RemarkCut
      <3> QED
        BY <2>2, <3>1, <3>2, <3>3 DEF q
    <2> QED
      BY <2>3, <2>4
  <1>12. TrimEnd(Quoted(line) \o b) = Quoted(line)
    <2>1. Quoted(line) # <<>> /\ Quoted(line)[Len(Quoted(line))] \notin Space
      BY ReadableParts
    <2> QED
      BY <1>1, <1>2, <2>1, EndTrimmed
  <1>13. Unquoted(Quoted(line)) = line.value
    BY ReadableParts
  <1>14. Entry(u) = [key |-> TrimEnd(k),
                     value |-> Unquoted(TrimEnd(Uncommented(SkipBlanks(w))))]
    <2> DEFINE r == w \o <<Newline>>
    <2>1. Strtok(r, Newline).token = w
      BY <1>9
    <2> HIDE DEF r
    <2>2. Strtok(text, Equals) = [token |-> k, rest |-> r]
      BY <1>5 DEF r
    <2>3. Entry(u) =
            IF text = <<>> \/ text[1] = Hash \/ k = <<>> \/ w = <<>> THEN Nothing
            ELSE [key |-> TrimEnd(k),
                  value |-> Unquoted(TrimEnd(Uncommented(SkipBlanks(w))))]
      BY <1>5, <2>1, <2>2, EntryIs
    <2> QED
      BY <1>1, <1>5, <2>3
  <1> QED
    BY <1>5, <1>10, <1>11, <1>12, <1>13, <1>14 DEF u

\* A line over S.
Over(line, S) == Alphabet(S) /\ WellPut(line) /\ line.key \in S /\ line.value \in Seq(S)

LEMMA RemarkSays ==
  ASSUME NEW S, Alphabet(S), NEW line, line.key = Hash, WellPut(line), line.value \in Seq(S)
  PROVE  /\ \E s \in Seq(S \ {Newline}) : Spelled(line) = s \o <<Newline>>
         /\ Entry(Spelled(line)) = Nothing
  <1> DEFINE N == S \ {Newline}
             h == <<Hash>>
             v == line.value
             n == <<Newline>>
             s == h \o v
  <1>1. N \subseteq S /\ Hash \in N /\ Hash \in S /\ Newline \in S
    BY DEF Alphabet, Hash, Newline
  <1>2. v \in Seq(S) /\ \A i \in 1..Len(v) : v[i] \notin {Newline}
    BY DEF WellPut
  <1>3. v \in Seq(N)
    <2> HIDE DEF v
    <2> QED
      BY <1>2, Avoids
  <1> HIDE DEF N, v
  <1>4. h \in Seq(N) /\ h \in Seq(S) /\ n \in Seq(S) /\ h # <<>> /\ h[1] = Hash /\ Len(h) = 1
    BY <1>1, OneSymbol
  <1>5. s \in Seq(N) /\ s \in Seq(S)
    <2> HIDE DEF h
    <2> QED
      BY <1>2, <1>3, <1>4, Joined
  <1>6. Spelled(line) = s \o n
    BY DEF Spelled, v
  <1>7. s # <<>> /\ s[1] = Hash
    <2> HIDE DEF h
    <2>1. \A i \in 1..Len(h) : (h \o v)[i] = h[i]
      BY <1>2, <1>4, Joined
    <2>2. h \o v # <<>>
      BY <1>2, <1>4, ConcatEqualIffEmpty
    <2>3. 1 \in 1..Len(h)
      BY <1>4
    <2> QED
      BY <1>4, <2>1, <2>2, <2>3
  <1> HIDE DEF s, n
  <1>8. /\ s \o n \in Seq(S) /\ s \o n # <<>> /\ (s \o n)[1] = Hash
    <2>1. /\ s \o n \in Seq(S) /\ \A i \in 1..Len(s) : (s \o n)[i] = s[i]
      BY <1>4, <1>5, Joined
    <2>2. s \o n # <<>>
      BY <1>4, <1>5, <1>7, ConcatEqualIffEmpty
    <2>3. 1 \in 1..Len(s)
      BY <1>5, <1>7, EmptySeq
    <2> QED
      BY <1>7, <2>1, <2>2, <2>3
  <1>9. SkipBlanks(s \o n) = s \o n
    <2> DEFINE u == s \o n
    <2>1. u \in Seq(S) /\ u # <<>> /\ u[1] \notin Space
      BY <1>8 DEF Hash, Space, Blank, Newline
    <2> HIDE DEF u
    <2>2. <<>> \in Seq(S) /\ <<>> \o u = u
      BY <2>1, ConcatEmptySeq
    <2>3. \A i \in 1..Len(<<>>) : <<>>[i] \in Space
      BY EmptySeq
    <2>4. SkipBlanks(<<>> \o u) = u
      BY <2>1, <2>2, <2>3, BlanksSkipped
    <2> QED
      BY <2>2, <2>4 DEF u
  <1>10. Entry(s \o n) = Nothing
    <2> DEFINE u == s \o n
    <2>1. SkipBlanks(u) = u /\ u[1] = Hash
      BY <1>8, <1>9
    <2> HIDE DEF u
    <2>2. Entry(u) = Nothing
      BY <2>1 DEF Entry
    <2> QED
      BY <2>2 DEF u
  <1> QED
    BY <1>5, <1>6, <1>10 DEF n, N

\* Every line ends with its only newline.
LEMMA LineEnds ==
  ASSUME NEW S, NEW line, Over(line, S)
  PROVE  \E s \in Seq(S \ {Newline}) : Spelled(line) = s \o <<Newline>>
  <1>1. CASE line.key = Hash
    BY <1>1, RemarkSays DEF Over
  <1>2. CASE line.key # Hash
    BY <1>2, SettingEnds DEF Over, Setting
  <1> QED
    BY <1>1, <1>2

\* loadConfig makes of a clear line what it says.
LEMMA LineSays ==
  ASSUME NEW S, NEW line, Over(line, S), line.key # Hash => Readable(line), NEW c
  PROVE  Load(c, Spelled(line))
           = IF line.key = Hash THEN {c} ELSE Assign(c, line.key, line.value)
  <1>1. CASE line.key = Hash
    <2>1. Entry(Spelled(line)) = Nothing
      BY <1>1, RemarkSays DEF Over
    <2>2. Len(<<>>) # 1
      BY EmptySeq
    <2>3. Load(c, Spelled(line)) = {c}
      BY <2>1, <2>2 DEF Load, Nothing
    <2> QED
      BY <1>1, <2>3
  <1>2. CASE line.key # Hash
    <2>1. Entry(Spelled(line)) = [key |-> <<line.key>>, value |-> line.value]
      BY <1>2, SettingSays DEF Over, Setting
    <2>2. Len(<<line.key>>) = 1 /\ <<line.key>>[1] = line.key
      OBVIOUS
    <2>3. Load(c, Spelled(line)) = Assign(c, line.key, line.value)
      BY <2>1, <2>2 DEF Load
    <2> QED
      BY <1>2, <2>3
  <1> QED
    BY <1>1, <1>2

-----------------------------------------------------------------------------
(* Lines that are longer than the buffer of fgets.                         *)

\* A text and its two parts.
LEMMA Parted ==
  ASSUME NEW S, NEW s \in Seq(S), NEW m \in 0..Len(s)
  PROVE  /\ SubSeq(s, 1, m) \in Seq(S) /\ Len(SubSeq(s, 1, m)) = m
         /\ SubSeq(s, m + 1, Len(s)) \in Seq(S)
         /\ SubSeq(s, 1, m) \o SubSeq(s, m + 1, Len(s)) = s
  <1>1. Len(s) \in Nat /\ \A i \in 1..Len(s) : s[i] \in S
    BY LenProperties
  <1> PICK n \in Nat : n = Len(s)
    BY <1>1
  <1>2. m \in Int /\ 1 \in Int /\ n \in Int /\ m + 1 \in Int /\ m \in Nat /\ m <= n
    OBVIOUS
  <1>3. SubSeq(s, 1, m) \in Seq(S) /\ Len(SubSeq(s, 1, m)) = m
    <2>1. \A i \in 1..m : s[i] \in S
      BY <1>1, <1>2
    <2>2. SubSeq(s, 1, m) \in Seq(S) /\ Len(SubSeq(s, 1, m)) = IF 1 <= m THEN m - 1 + 1 ELSE 0
      BY <1>2, <2>1, SubSeqProperties
    <2> QED
      BY <1>2, <2>2
  <1>4. SubSeq(s, m + 1, n) \in Seq(S)
    <2>1. \A i \in (m + 1)..n : s[i] \in S
      BY <1>1, <1>2
    <2> QED
      BY <1>2, <2>1, SubSeqProperties
  <1>5. SubSeq(s, 1, m) \o SubSeq(s, m + 1, n) = SubSeq(s, 1, n)
    <2>1. 1 \in 1..(Len(s) + 1) /\ m \in (1 - 1)..Len(s) /\ n \in m..Len(s)
      BY <1>2
    <2> QED
      BY <2>1, ConcatAdjacentSubSeq
  <1>6. SubSeq(s, 1, n) = s
    BY SubSeqFull
  <1> QED
    BY <1>3, <1>4, <1>5, <1>6

\* fgets stops when its buffer is full.
LEMMA BufferFull ==
  ASSUME NEW S, NEW p \in Seq(S), NEW z \in Seq(S),
         \A i \in 1..Len(p) : p[i] # Newline, Len(p) = MAX_LINE_LENGTH - 1
  PROVE  Line(p \o z) = p
  <1> DEFINE u == p \o z
             ends == {i \in 1..Len(u) : u[i] = Newline}
             T == ends \cup {Len(u), MAX_LINE_LENGTH - 1}
  <1>1. /\ Len(p) \in Nat /\ Len(z) \in Nat /\ Len(u) = Len(p) + Len(z)
        /\ \A i \in 1..Len(p) : u[i] = p[i]
        /\ SubSeq(u, 1, Len(p)) = p
    <2>1. Len(p) \in Nat /\ Len(z) \in Nat /\ Len(u) = Len(p) + Len(z)
      BY Joined
    <2>2. \A i \in 1..Len(p) : u[i] = p[i]
      BY Joined
    <2>3. SubSeq(u, 1, Len(p)) = p
      BY Joined
    <2> HIDE DEF u
    <2> QED
      BY <2>1, <2>2, <2>3
  <1> HIDE DEF u
  <1>2. T \subseteq Int /\ Len(p) \in T /\ \A i \in T : Len(p) <= i
    <2> PICK n \in Nat : n = Len(p) /\ MAX_LINE_LENGTH - 1 = n
      BY <1>1
    <2> PICK k \in Nat : k = Len(z) /\ Len(u) = n + k
      BY <1>1
    <2>1. \A i \in ends : n <= i
      <3> SUFFICES ASSUME NEW i \in 1..(n + k), u[i] = Newline PROVE n <= i
        OBVIOUS
      <3>1. i \notin 1..n
        BY <1>1
      <3> QED
        BY <3>1
    <2> QED
      BY <2>1
  <1>3. Min(T) = Len(p)
    <2> HIDE DEF T
    <2> QED
      BY <1>2, MinIs
  <1>4. Line(u) = p
    BY <1>1, <1>3 DEF Line
  <1> QED
    BY <1>4 DEF u

\* What fgets returns of a line over A before others is over A too, and what it leaves
\* of the line still ends with its only newline.
Rest(y, A) == y = <<>> \/ \E r \in Seq(A \ {Newline}) : y = r \o <<Newline>>

\* Of x before t fgets returns p, and it leaves y before t.
Cuts(x, t, p, y, A) ==
  /\ Line(x \o t) = p
  /\ SubSeq(x \o t, Len(p) + 1, Len(x \o t)) = y \o t
  /\ Rest(y, A)
  /\ Len(x) < MAX_LINE_LENGTH => p = x /\ y = <<>>

LEMMA LineCut ==
  ASSUME NEW S, NEW A, A \subseteq S, Newline \in A, NEW s \in Seq(A \ {Newline}),
         NEW t \in Seq(S)
  PROVE  \E p \in Seq(A), y \in Seq(A) : Cuts(s \o <<Newline>>, t, p, y, A)
  <1> DEFINE n == <<Newline>>
             x == s \o n
             B == A \ {Newline}
  <1>1. B \subseteq A /\ B \subseteq S /\ Newline \in S
    OBVIOUS
  <1>2. s \in Seq(B) /\ s \in Seq(A) /\ s \in Seq(S) /\ n \in Seq(A) /\ n \in Seq(S)
    <2> HIDE DEF B
    <2>1. s \in Seq(B)
      BY DEF B
    <2> QED
      BY <1>1, <2>1, Widened, OneSymbol
  <1>3. \A i \in 1..Len(s) : s[i] # Newline
    BY <1>2
  <1> HIDE DEF n, B
  <1>4. x \in Seq(A) /\ x \in Seq(S) /\ Len(x) = Len(s) + 1
    <2>1. Len(n) = 1
      BY OneSymbol DEF n
    <2>2. s \o n \in Seq(A) /\ Len(s \o n) = Len(s) + Len(n)
      BY <1>2, Joined
    <2>3. s \o n \in Seq(S)
      BY <1>2, Joined
    <2> QED
      BY <2>1, <2>2, <2>3
  <1>5. CASE Len(x) < MAX_LINE_LENGTH
    <2>1. Line(x \o t) = x
      BY <1>1, <1>2, <1>3, <1>5, LineRead DEF n
    <2>2. SubSeq(x \o t, Len(x) + 1, Len(x \o t)) = t
      BY <1>4, Joined
    <2>3. <<>> \in Seq(A) /\ <<>> \o t = t
      BY ConcatEmptySeq
    <2> HIDE DEF x
    <2>4. Rest(<<>>, A)
      BY DEF Rest
    <2>5. Cuts(x, t, x, <<>>, A)
      BY <2>1, <2>2, <2>3, <2>4 DEF Cuts
    <2> QED
      BY <1>4, <2>3, <2>5 DEF x, n
  <1>6. CASE ~(Len(x) < MAX_LINE_LENGTH)
    <2> PICK k \in Nat : k = MAX_LINE_LENGTH - 1
      BY ConfigAssumption
    <2> PICK l \in Nat : l = Len(s)
      BY <1>2, LenProperties
    <2>1. k \in 0..l
      BY <1>4, <1>6, ConfigAssumption
    <2> DEFINE p == SubSeq(s, 1, k)
               r == SubSeq(s, k + 1, Len(s))
    <2>2. p \in Seq(B) /\ Len(p) = k /\ r \in Seq(B) /\ p \o r = s
      BY <1>2, <2>1, Parted
    <2> HIDE DEF p, r
    <2> DEFINE y == r \o n
    <2>3. p \in Seq(A) /\ p \in Seq(S) /\ r \in Seq(A) /\ r \in Seq(S)
      BY <1>1, <2>2, Widened
    <2>4. y \in Seq(A) /\ y \in Seq(S)
      BY <1>2, <2>3, Joined
    <2>5. x \o t = p \o (y \o t)
      <3>1. /\ p \in TextsOver(S) /\ r \in TextsOver(S) /\ n \in TextsOver(S)
            /\ t \in TextsOver(S) /\ Cat(r, n) \in TextsOver(S)
        BY <1>2, <2>3, <2>4 DEF TextsOver, Cat
      <3>2. Cat(Cat(p, r), n) = Cat(p, Cat(r, n))
        BY <3>1, CatAssociates
      <3>3. Cat(Cat(p, Cat(r, n)), t) = Cat(p, Cat(Cat(r, n), t))
        BY <3>1, CatAssociates
      <3>4. x = Cat(Cat(p, r), n)
        BY <2>2, Zenon DEF Cat, x
      <3>5. Cat(x, t) = Cat(p, Cat(Cat(r, n), t))
        BY <3>2, <3>3, <3>4
      <3> QED
        BY <3>5, Zenon DEF Cat, y
    <2> HIDE DEF y
    <2> DEFINE z == y \o t
    <2>6. z \in Seq(S)
      BY <2>4, Joined
    <2> HIDE DEF x, z
    <2>7. Line(p \o z) = p
      <3>1. \A i \in 1..Len(p) : p[i] # Newline
        BY <2>2 DEF B
      <3>2. Len(p) = MAX_LINE_LENGTH - 1
        BY <2>2
      <3> QED
        BY <2>3, <2>6, <3>1, <3>2, BufferFull
    <2>8. SubSeq(p \o z, Len(p) + 1, Len(p \o z)) = z
      BY <2>3, <2>6, Joined
    <2>9. Rest(y, A)
      BY <2>2 DEF Rest, y, n, B
    <2>10. x \o t = p \o z
      BY <2>5 DEF z
    <2>11. /\ Line(x \o t) = p
           /\ SubSeq(x \o t, Len(p) + 1, Len(x \o t)) = y \o t
      BY <2>7, <2>8, <2>10 DEF z
    <2>12. Cuts(x, t, p, y, A)
      BY <1>6, <2>9, <2>11 DEF Cuts
    <2> QED
      BY <2>3, <2>4, <2>12 DEF x, n
  <1> QED
    BY <1>5, <1>6

-----------------------------------------------------------------------------
(* Whatever a line is, the name found in it is of its symbols.             *)

LEMMA Within ==
  ASSUME NEW S, NEW s \in Seq(S), NEW m \in Nat \ {0}, NEW n \in Int, n <= Len(s)
  PROVE  SubSeq(s, m, n) \in Seq(S)
  <1>1. Len(s) \in Nat /\ \A i \in 1..Len(s) : s[i] \in S
    BY LenProperties
  <1>2. \A i \in m..n : s[i] \in S
    <2> PICK l \in Nat : l = Len(s)
      BY <1>1
    <2> QED
      BY <1>1
  <1>3. m \in Int /\ n \in Int
    OBVIOUS
  <1> QED
    BY <1>2, <1>3, SubSeqProperties

LEMMA LeastIn ==
  ASSUME NEW n \in Nat, NEW T, T \subseteq 1..n, T # {}
  PROVE  Min(T) \in T
  <1>1. T \in SUBSET Nat /\ T \subseteq Int
    OBVIOUS
  <1>2. PICK m \in T : \A y \in T : m <= y
    BY <1>1, LeastOf
  <1> QED
    BY <1>1, <1>2, MinIs

LEMMA GreatestIn ==
  ASSUME NEW n \in Nat, NEW T, T \subseteq 1..n, T # {}
  PROVE  Max(T) \in T
  <1> DEFINE R == {n - i : i \in T}
  <1>1. R \in SUBSET Nat /\ R # {}
    <2>1. \A i \in T : i \in 1..n
      OBVIOUS
    <2>2. \A i \in 1..n : n - i \in Nat
      OBVIOUS
    <2>3. R \subseteq Nat
      BY <2>1, <2>2
    <2> QED
      BY <2>3
  <1>2. PICK r \in R : \A y \in R : r <= y
    <2> HIDE DEF R
    <2> QED
      BY <1>1, LeastOf
  <1>3. PICK m \in T : r = n - m
    OBVIOUS
  <1>4. \A i \in T : i <= m
    <2> SUFFICES ASSUME NEW i \in T PROVE i <= m
      OBVIOUS
    <2>1. n - m <= n - i
      BY <1>2, <1>3
    <2>2. i \in 1..n /\ m \in 1..n
      OBVIOUS
    <2> QED
      BY <2>1, <2>2
  <1>5. T \subseteq Int
    OBVIOUS
  <1> QED
    BY <1>4, <1>5, MaxIs

LEMMA SkipWithin ==
  ASSUME NEW S, NEW s \in Seq(S)
  PROVE  SkipBlanks(s) \in Seq(S)
  <1> DEFINE solid == {i \in 1..Len(s) : s[i] \notin Space}
  <1>1. Len(s) \in Nat
    BY LenProperties
  <1>2. CASE solid = {}
    <2>1. SkipBlanks(s) = <<>>
      BY <1>2 DEF SkipBlanks
    <2> QED
      BY <2>1, EmptySeq
  <1>3. CASE solid # {}
    <2>1. solid \subseteq 1..Len(s)
      OBVIOUS
    <2>2. Min(solid) \in solid
      <3> HIDE DEF solid
      <3> QED
        BY <1>1, <1>3, <2>1, LeastIn
    <2>3. SkipBlanks(s) = SubSeq(s, Min(solid), Len(s))
      BY <1>3 DEF SkipBlanks
    <2>4. Min(solid) \in Nat \ {0}
      BY <2>1, <2>2
    <2> HIDE DEF solid
    <2> QED
      BY <1>1, <2>3, <2>4, Within
  <1> QED
    BY <1>2, <1>3

LEMMA TrimWithin ==
  ASSUME NEW S, NEW s \in Seq(S)
  PROVE  TrimEnd(s) \in Seq(S)
  <1> DEFINE solid == {1} \cup {i \in 1..Len(s) : s[i] \notin Space}
  <1>1. CASE s = <<>>
    BY <1>1 DEF TrimEnd
  <1>2. CASE s # <<>>
    <2>1. Len(s) \in Nat \ {0}
      BY <1>2, EmptySeq
    <2>2. solid \subseteq 1..Len(s) /\ solid # {}
      BY <2>1
    <2>3. TrimEnd(s) = SubSeq(s, 1, Max(solid))
      BY <1>2 DEF TrimEnd
    <2> HIDE DEF solid
    <2>4. Max(solid) \in 1..Len(s)
      BY <2>1, <2>2, GreatestIn
    <2>5. Max(solid) \in Int /\ Max(solid) <= Len(s) /\ 1 \in Nat \ {0}
      BY <2>1, <2>4
    <2> QED
      BY <2>3, <2>5, Within
  <1> QED
    BY <1>1, <1>2

LEMMA TokenWithin ==
  ASSUME NEW S, NEW s \in Seq(S), NEW d
  PROVE  Strtok(s, d).token \in Seq(S)
  <1> DEFINE starts == {i \in 1..Len(s) : s[i] # d}
             start == Min(starts)
             T == {i \in start..Len(s) : s[i] = d} \cup {Len(s) + 1}
  <1>1. Len(s) \in Nat
    BY LenProperties
  <1>2. CASE starts = {}
    <2>1. Strtok(s, d).token = <<>>
      BY <1>2 DEF Strtok
    <2> QED
      BY <2>1, EmptySeq
  <1>3. CASE starts # {}
    <2>1. Strtok(s, d) = [token |-> SubSeq(s, start, Min(T) - 1),
                          rest |-> SubSeq(s, Min(T) + 1, Len(s))]
      BY <1>3 DEF Strtok
    <2>2. starts \subseteq 1..Len(s)
      OBVIOUS
    <2> HIDE DEF starts
    <2>3. start \in starts
      BY <1>1, <1>3, <2>2, LeastIn
    <2>4. start \in 1..Len(s)
      BY <2>2, <2>3
    <2> HIDE DEF start
    <2>5. T \subseteq 1..(Len(s) + 1) /\ T # {}
      BY <1>1, <2>4
    <2> HIDE DEF T
    <2>6. Min(T) \in 1..(Len(s) + 1)
      <3> PICK n \in Nat : n = Len(s) + 1
        BY <1>1
      <3>1. T \subseteq 1..n
        BY <2>5
      <3>2. Min(T) \in T
        BY <2>5, <3>1, LeastIn
      <3> QED
        BY <2>5, <3>2
    <2> PICK e : e = Min(T)
      OBVIOUS
    <2> PICK l \in Nat : l = Len(s)
      BY <1>1
    <2>7. start \in Nat \ {0} /\ e - 1 \in Int /\ e - 1 <= Len(s)
      BY <2>4, <2>6
    <2>8. SubSeq(s, start, e - 1) \in Seq(S)
      BY <2>7, Within
    <2> QED
      BY <2>1, <2>8
  <1> QED
    BY <1>2, <1>3

LEMMA KeyWithin ==
  ASSUME NEW S, NEW s \in Seq(S)
  PROVE  Entry(s).key \in Seq(S)
  <1> DEFINE text == SkipBlanks(s)
             e == Strtok(text, Equals)
             k == e.token
             v == Unquoted(TrimEnd(Uncommented(SkipBlanks(Strtok(e.rest, Newline).token))))
  <1>1. TrimEnd(k) \in Seq(S)
    <2>1. text \in Seq(S)
      BY SkipWithin
    <2> HIDE DEF text
    <2>2. k \in Seq(S)
      BY <2>1, TokenWithin
    <2> HIDE DEF k
    <2> QED
      BY <2>2, TrimWithin
  <1>2. Entry(s) = Nothing \/ Entry(s) = [key |-> TrimEnd(k), value |-> v]
    BY DEF Entry
  <1> HIDE DEF k, v
  <1>3. Entry(s).key = <<>> \/ Entry(s).key = TrimEnd(k)
    BY <1>2 DEF Nothing
  <1> QED
    BY <1>1, <1>3, EmptySeq

-----------------------------------------------------------------------------
(* The file, and the lines of it that have been read.                      *)

\* The first lines as they are spelled, one behind the other.
UpTo(lines) ==
  LET upTo[i \in 0..Len(lines)] == IF i = 0 THEN <<>> ELSE upTo[i - 1] \o Spelled(lines[i])
  IN upTo

LEMMA UpToIs ==
  ASSUME NEW lines, Len(lines) \in Nat
  PROVE  /\ UpTo(lines)[0] = <<>>
         /\ \A i \in 1..Len(lines) : UpTo(lines)[i] = UpTo(lines)[i - 1] \o Spelled(lines[i])
         /\ UpTo(lines)[Len(lines)] = SpelledFile(lines)
  <1> DEFINE G(f, i) == IF i = 0 THEN <<>> ELSE f[i - 1] \o Spelled(lines[i])
             Is(f, n) == f = [i \in 0..n |-> G(f, i)]
             None == {n \in Nat : \A f : ~Is(f, n)}
  <1>1. None = {}
    <2> SUFFICES ASSUME None # {} PROVE FALSE
      OBVIOUS
    <2>1. PICK m \in Nat :
            (\A f : ~Is(f, m)) /\ \A y \in Nat : y < m => \E f : Is(f, y)
      <3> HIDE DEF Is
      <3>1. None \in SUBSET Nat
        OBVIOUS
      <3>2. PICK m \in None : \A y \in None : m <= y
        <4> HIDE DEF None
        <4> QED
          BY <3>1, LeastOf
      <3>3. m \in Nat /\ \A f : ~Is(f, m)
        OBVIOUS
      <3>4. ASSUME NEW y \in Nat, y < m PROVE \E f : Is(f, y)
        <4>1. ~(m <= y)
          BY <3>3, <3>4
        <4>2. y \notin None
          BY <3>2, <4>1
        <4> QED
          BY <4>2
      <3> HIDE DEF None
      <3> QED
        BY <3>3, <3>4
    <2>2. m # 0
      <3> DEFINE f == [i \in 0..0 |-> <<>>]
      <3>1. f = [i \in 0..0 |-> G(f, i)]
        OBVIOUS
      <3>2. Is(f, 0)
        BY <3>1
      <3> QED
        BY <2>1, <3>2
    <2>3. m - 1 \in Nat /\ m - 1 < m
      BY <2>2
    <2>4. PICK f : Is(f, m - 1)
      <3> HIDE DEF Is
      <3> QED
        BY <2>1, <2>3
    <2> DEFINE g == [i \in 0..m |-> IF i = m THEN f[m - 1] \o Spelled(lines[m]) ELSE f[i]]
    <2>5. \A i \in 0..m : g[i] = G(g, i)
      <3> SUFFICES ASSUME NEW i \in 0..m PROVE g[i] = G(g, i)
        OBVIOUS
      <3>1. CASE i = 0
        BY <2>2, <2>3, <2>4, <3>1
      <3>2. CASE i = m
        <4>1. m - 1 \in 0..m /\ m - 1 # m /\ m \in 0..m
          BY <2>3
        <4>2. g[m - 1] = f[m - 1] /\ g[m] = f[m - 1] \o Spelled(lines[m])
          BY <4>1
        <4> HIDE DEF g
        <4> QED
          BY <2>2, <3>2, <4>2
      <3>3. CASE i # 0 /\ i # m
        <4>1. i \in 0..(m - 1) /\ i - 1 \in 0..m /\ i - 1 # m
          BY <3>3
        <4>2. f[i] = f[i - 1] \o Spelled(lines[i])
          BY <2>4, <3>3, <4>1
        <4> QED
          BY <3>3, <4>1, <4>2
      <3> QED
        BY <3>1, <3>2, <3>3
    <2>6. Is(g, m)
      <3>1. g = [i \in 0..m |-> g[i]]
        OBVIOUS
      <3> HIDE DEF g
      <3> QED
        BY <2>5, <3>1
    <2> QED
      BY <2>1, <2>6
  <1> DEFINE u == CHOOSE f : Is(f, Len(lines))
  <1>2. Is(u, Len(lines))
    <2> HIDE DEF Is
    <2>1. \E f : Is(f, Len(lines))
      BY <1>1
    <2> QED
      BY <2>1
  <1>3. UpTo(lines) = u
    BY DEF UpTo
  <1>4. SpelledFile(lines) = u[Len(lines)]
    BY DEF SpelledFile
  <1> HIDE DEF u
  <1>5. \A i \in 0..Len(lines) : u[i] = G(u, i)
    BY <1>2
  <1>6. \A i \in 1..Len(lines) : i \in 0..Len(lines) /\ i # 0
    OBVIOUS
  <1>7. 0 \in 0..Len(lines)
    OBVIOUS
  <1> QED
    BY <1>3, <1>4, <1>5, <1>6, <1>7

\* The symbols of a line, and of a file.
SymbolsOf(line) ==
  {Blank, Newline, Equals, Hash, Quote, "remark", line.key}
    \cup {line.value[j] : j \in DOMAIN line.value}

Symbols(f) ==
  {Blank, Newline, Equals, Hash, Quote, "remark"}
    \cup UNION {SymbolsOf(f[i]) : i \in DOMAIN f}

LEMMA FileIs ==
  ASSUME NEW f \in Files
  PROVE  /\ Alphabet(Symbols(f)) /\ Len(f) \in Nat /\ DOMAIN f = 1..Len(f)
         /\ \A i \in 1..Len(f) : /\ Over(f[i], SymbolsOf(f[i]))
                                 /\ SymbolsOf(f[i]) \subseteq Symbols(f)
  <1>1. IsText(f) /\ \A i \in DOMAIN f : WellPut(f[i])
    BY FilesAssumption
  <1>2. Len(f) \in Nat /\ DOMAIN f = 1..Len(f)
    BY <1>1 DEF IsText
  <1>3. Alphabet(Symbols(f))
    BY DEF Alphabet, Symbols
  <1>4. ASSUME NEW i \in DOMAIN f PROVE Over(f[i], SymbolsOf(f[i]))
    <2> DEFINE v == f[i].value
               A == {v[j] : j \in DOMAIN v}
               S == SymbolsOf(f[i])
    <2>1. WellPut(f[i]) /\ v \in Seq(A)
      BY <1>1, <1>4 DEF WellPut, IsText
    <2>2. A \subseteq S
      BY DEF SymbolsOf
    <2>3. v \in Seq(S)
      <3> HIDE DEF A, v, S
      <3> QED
        BY <2>1, <2>2, Widened
    <2>4. f[i].key \in S /\ Alphabet(S)
      BY DEF SymbolsOf, Alphabet
    <2> HIDE DEF S
    <2> QED
      BY <2>1, <2>3, <2>4 DEF Over, S
  <1>5. ASSUME NEW i \in DOMAIN f PROVE SymbolsOf(f[i]) \subseteq Symbols(f)
    BY <1>5 DEF Symbols
  <1> QED
    BY <1>2, <1>3, <1>4, <1>5

LEMMA LinesAre ==
  ASSUME NEW f \in Files, NEW i \in 1..Len(f)
  PROVE  /\ \E s \in Seq(SymbolsOf(f[i]) \ {Newline}) : Spelled(f[i]) = s \o <<Newline>>
         /\ Spelled(f[i]) \in Seq(Symbols(f)) /\ Spelled(f[i]) # <<>>
  <1> DEFINE A == SymbolsOf(f[i])
             S == Symbols(f)
  <1>1. Over(f[i], A) /\ A \subseteq S /\ Newline \in S
    BY FileIs DEF Alphabet
  <1> HIDE DEF S, A
  <1>2. PICK s \in Seq(A \ {Newline}) : Spelled(f[i]) = s \o <<Newline>>
    BY <1>1, LineEnds
  <1>3. s \in Seq(S) /\ <<Newline>> \in Seq(S) /\ <<Newline>> # <<>>
    <2>1. A \ {Newline} \subseteq S
      BY <1>1
    <2> QED
      BY <1>1, <2>1, Widened, OneSymbol
  <1> DEFINE n == <<Newline>>
  <1>4. n \in Seq(S) /\ n # <<>>
    BY <1>3
  <1>5. Spelled(f[i]) = s \o n
    BY <1>2
  <1> HIDE DEF n
  <1>6. s \o n \in Seq(S) /\ s \o n # <<>>
    BY <1>3, <1>4, Joined, ConcatEqualIffEmpty
  <1> QED
    BY <1>2, <1>5, <1>6 DEF A, S

\* What has been read is the beginning of the file.
LEMMA Beginnings ==
  ASSUME NEW f \in Files
  PROVE  /\ \A i \in 0..Len(f) : UpTo(f)[i] \in Seq(Symbols(f))
         /\ \A i \in 0..Len(f) :
              \E t \in Seq(Symbols(f)) : UpTo(f)[i] \o t = SpelledFile(f)
  <1> DEFINE S == Symbols(f)
             T == Seq(S)
             u == UpTo(f)
             p(i) == Spelled(f[i])
             all == SpelledFile(f)
             Wrong == {i \in 0..Len(f) : u[i] \notin T}
             Begins(i) == \E t \in T : u[i] \o t = all
             Left == {j \in 0..Len(f) : ~Begins(Len(f) - j)}
  <1> PICK n \in Nat : n = Len(f)
    BY FileIs
  <1>1. u[0] = <<>> /\ \A i \in 1..n : u[i] = u[i - 1] \o p(i)
    BY UpToIs
  <1>2. \A i \in 1..n : p(i) \in T
    BY LinesAre
  <1>3. u[n] = all
    BY UpToIs
  <1>4. <<>> \in T
    OBVIOUS
  <1>5. \A x, y \in T : x \o y \in T
    <2> HIDE DEF S
    <2> QED
      BY ConcatProperties
  <1>6. \A x, y, z \in T : (x \o y) \o z = x \o (y \o z)
    <2> HIDE DEF S
    <2> SUFFICES ASSUME NEW x \in T, NEW y \in T, NEW z \in T
                 PROVE  (x \o y) \o z = x \o (y \o z)
      OBVIOUS
    <2>1. x \in TextsOver(S) /\ y \in TextsOver(S) /\ z \in TextsOver(S)
      BY Zenon DEF TextsOver
    <2>2. Cat(Cat(x, y), z) = Cat(x, Cat(y, z))
      BY <2>1, CatAssociates
    <2> QED
      BY <2>2, Zenon DEF Cat
  <1>7. \A x \in T : x \o <<>> = x
    <2> HIDE DEF S
    <2> QED
      BY ConcatEmptySeq
  <1> HIDE DEF T, u, p, all
  <1>8. Wrong = {}
    <2> SUFFICES ASSUME Wrong # {} PROVE FALSE
      OBVIOUS
    <2>1. Wrong \in SUBSET Nat
      OBVIOUS
    <2>2. PICK m \in Wrong : \A y \in Wrong : m <= y
      <3> HIDE DEF Wrong
      <3> QED
        BY <2>1, LeastOf
    <2>3. m \in 0..n /\ u[m] \notin T /\ m # 0
      BY <1>1, <1>4
    <2>4. m \in 1..n /\ m - 1 \in 0..n /\ ~(m <= m - 1)
      BY <2>3
    <2>5. u[m - 1] \in T
      BY <2>2, <2>4
    <2> QED
      BY <1>1, <1>2, <1>5, <2>3, <2>4, <2>5
  <1>9. \A i \in 0..n : u[i] \in T
    BY <1>8
  <1>10. Begins(n)
    <2>1. u[n] \in T /\ u[n] \o <<>> = u[n]
      BY <1>7, <1>9
    <2> QED
      BY <1>3, <1>4, <2>1
  <1>11. ASSUME NEW i \in 1..n, Begins(i) PROVE Begins(i - 1)
    <2>1. PICK t \in T : u[i] \o t = all
      BY <1>11
    <2>2. u[i - 1] \in T /\ p(i) \in T /\ u[i] = u[i - 1] \o p(i)
      <3>1. i - 1 \in 0..n
        OBVIOUS
      <3> HIDE DEF u, p, T
      <3> QED
        BY <1>1, <1>2, <1>9, <3>1
    <2>3. u[i - 1] \o (p(i) \o t) = all
      <3> PICK x \in T : x = u[i - 1]
        BY <2>2
      <3> PICK y \in T : y = p(i)
        BY <2>2
      <3>1. (x \o y) \o t = x \o (y \o t)
        BY <1>6
      <3> QED
        BY <2>1, <2>2, <3>1
    <2> QED
      BY <1>5, <2>2, <2>3
  <1> HIDE DEF Begins
  <1>12. Left = {}
    <2> SUFFICES ASSUME Left # {} PROVE FALSE
      OBVIOUS
    <2>1. Left \in SUBSET Nat
      OBVIOUS
    <2>2. PICK m \in Left : \A y \in Left : m <= y
      <3> HIDE DEF Left
      <3> QED
        BY <2>1, LeastOf
    <2>3. m \in 0..n /\ ~Begins(n - m)
      OBVIOUS
    <2>4. m # 0
      <3>1. n - 0 = n
        OBVIOUS
      <3> QED
        BY <1>10, <2>3, <3>1
    <2>5. /\ m - 1 \in 0..n /\ ~(m <= m - 1) /\ n - (m - 1) \in 1..n
          /\ (n - (m - 1)) - 1 = n - m
      BY <2>3, <2>4
    <2>6. Begins(n - (m - 1))
      BY <2>2, <2>5
    <2> QED
      BY <1>11, <2>3, <2>5, <2>6
  <1>13. \A i \in 0..n : Begins(i)
    <2> SUFFICES ASSUME NEW i \in 0..n PROVE Begins(i)
      OBVIOUS
    <2>1. n - i \in 0..n /\ n - (n - i) = i
      OBVIOUS
    <2> QED
      BY <1>12, <2>1
  <1> QED
    BY <1>9, <1>13 DEF Begins, T, u, all

\* What follows the first n lines is the next line and what follows that.
LEMMA NextLine ==
  ASSUME NEW f \in Files, NEW n \in 0..Len(f), NEW t \in Seq(Symbols(f)),
         UpTo(f)[n] \o t = SpelledFile(f)
  PROVE  /\ t = <<>> => n = Len(f)
         /\ t # <<>> =>
              /\ n + 1 \in 1..Len(f)
              /\ \E t2 \in Seq(Symbols(f)) :
                   t = Spelled(f[n + 1]) \o t2 /\ UpTo(f)[n + 1] \o t2 = SpelledFile(f)
  <1> DEFINE S == Symbols(f)
             u == UpTo(f)
  <1>0. Len(f) \in Nat
    BY FileIs
  <1>1. CASE n = Len(f)
    <2>1. u[n] \o t = u[n] /\ u[n] \in Seq(S)
      BY <1>0, <1>1, UpToIs, Beginnings
    <2> HIDE DEF u, S
    <2>2. t = <<>>
      BY <2>1, ConcatEqualIffEmpty DEF S
    <2> QED
      BY <1>1, <2>2
  <1>2. CASE n # Len(f)
    <2>1. n + 1 \in 1..Len(f) /\ n + 1 \in 0..Len(f) /\ (n + 1) - 1 = n
      BY <1>0, <1>2
    <2> DEFINE p == Spelled(f[n + 1])
    <2>2. p \in Seq(S) /\ p # <<>>
      BY <2>1, LinesAre
    <2>3. PICK t2 \in Seq(S) : u[n + 1] \o t2 = SpelledFile(f)
      BY <2>1, Beginnings
    <2>4. u[n + 1] = u[n] \o p
      BY <1>0, <2>1, UpToIs
    <2>5. u[n] \in Seq(S) /\ t \in Seq(S)
      BY Beginnings
    <2> HIDE DEF p, u, S
    <2>6. t = p \o t2
      <3>1. p \o t2 \in Seq(S)
        BY <2>2, <2>3, Joined
      <3>2. (u[n] \o p) \o t2 = u[n] \o (p \o t2)
        <4> PICK x \in Seq(S) : x = u[n]
          BY <2>5
        <4>1. x \in TextsOver(S) /\ p \in TextsOver(S) /\ t2 \in TextsOver(S)
          BY <2>2 DEF TextsOver
        <4>2. Cat(Cat(x, p), t2) = Cat(x, Cat(p, t2))
          BY <4>1, CatAssociates
        <4>3. (x \o p) \o t2 = x \o (p \o t2)
          BY <4>2, Zenon DEF Cat
        <4> QED
          BY <4>3
      <3>3. u[n] \o t = u[n] \o (p \o t2)
        BY <2>3, <2>4, <3>2 DEF u
      <3> QED
        BY <2>5, <3>1, <3>3, ConcatSimplifications
    <2>7. t # <<>>
      BY <2>2, <2>3, <2>6, ConcatEqualIffEmpty
    <2> QED
      BY <2>1, <2>3, <2>6, <2>7 DEF p, u, S
  <1> QED
    BY <1>1, <1>2

-----------------------------------------------------------------------------
(* The settings that the lines read so far have made.                      *)

GivenTo(f, k, n) == {i \in 1..n : f[i].key \in Names(k)}

\* v is what the lines G of f make of the setting k.
KeptBy(f, k, G, v) ==
  IF k \in Latches THEN v = \E i \in G : TurnsOn(k, f[i].value)
  ELSE IF k = "hasGpsCoordinates" THEN v = (G # {})
  ELSE IF G # {} THEN Holds(k, v, f[Max(G)].value)
  ELSE v = Defaults[k]

Kept(f, k, n, v) == KeptBy(f, k, GivenTo(f, k, n), v)

\* The settings but the latches, and the names of each.
Plain == Numbers \cup Coordinates \cup Texts \cup Switches

LEMMA Kinds ==
  /\ Key = Plain \cup Latches \cup {"hasGpsCoordinates"}
  /\ Latches = {"createGraph", "noMetadataExchange"} /\ "createGraph" # "noMetadataExchange"
  /\ Plain \cap Latches = {} /\ "hasGpsCoordinates" \notin Plain \cup Latches
  /\ Numbers \cap (Coordinates \cup Texts \cup Switches) = {}
  /\ Coordinates \cap (Texts \cup Switches) = {} /\ Texts \cap Switches = {}
  /\ {"contactLifetime", Hash} \cap Key = {} /\ "contactLifetime" # Hash
  /\ "metadataLifetime" \in Numbers
  BY DEF Key, Plain, Numbers, Coordinates, Texts, Switches, Latches, Hash

LEMMA NamesAre ==
  ASSUME NEW k \in Key, NEW key
  PROVE  key \in Names(k) <=>
           \/ key = k /\ k # "hasGpsCoordinates"
           \/ key = "contactLifetime" /\ k = "metadataLifetime"
           \/ key \in Coordinates /\ k = "hasGpsCoordinates"
  <1>1. "metadataLifetime" # "hasGpsCoordinates"
    OBVIOUS
  <1>2. CASE k = "metadataLifetime"
    BY <1>1, <1>2 DEF Names
  <1>3. CASE k = "hasGpsCoordinates"
    <2>1. Names(k) = Coordinates
      BY <1>3 DEF Names
    <2> QED
      BY <1>1, <1>3, <2>1
  <1>4. CASE k # "metadataLifetime" /\ k # "hasGpsCoordinates"
    <2>1. Names(k) = {k}
      BY <1>4 DEF Names
    <2> QED
      BY <1>4, <2>1
  <1> QED
    BY <1>2, <1>3, <1>4

LEMMA NoSymbolNames ==
  ASSUME NEW k \in Key
  PROVE  Names(k) \cap {Blank, Newline, Equals, Hash, Quote, "remark"} = {}
  <1> SUFFICES ASSUME NEW key \in Names(k)
               PROVE  key \notin {Blank, Newline, Equals, Hash, Quote, "remark"}
    OBVIOUS
  <1>1. key \in Key \cup {"contactLifetime"}
    <2>1. Coordinates \subseteq Key
      BY DEF Key
    <2> QED
      BY <2>1, NamesAre
  <1> QED
    BY <1>1 DEF Key, Numbers, Coordinates, Texts, Switches, Latches, Blank, Newline, Equals,
                Hash, Quote

\* One line more.
LEMMA OneMore ==
  ASSUME NEW f, NEW n \in Nat, NEW k
  PROVE  /\ f[n + 1].key \notin Names(k) => GivenTo(f, k, n + 1) = GivenTo(f, k, n)
         /\ f[n + 1].key \in Names(k) =>
              /\ GivenTo(f, k, n + 1) = GivenTo(f, k, n) \cup {n + 1}
              /\ Max(GivenTo(f, k, n + 1)) = n + 1
  <1>1. 1..(n + 1) = (1..n) \cup {n + 1}
    OBVIOUS
  <1>2. f[n + 1].key \notin Names(k) => GivenTo(f, k, n + 1) = GivenTo(f, k, n)
    BY <1>1 DEF GivenTo
  <1>3. ASSUME f[n + 1].key \in Names(k)
        PROVE  GivenTo(f, k, n + 1) = GivenTo(f, k, n) \cup {n + 1}
    BY <1>1, <1>3 DEF GivenTo
  <1>4. ASSUME f[n + 1].key \in Names(k) PROVE Max(GivenTo(f, k, n + 1)) = n + 1
    <2> DEFINE T == GivenTo(f, k, n + 1)
    <2>1. T \subseteq Int /\ \A i \in T : i <= n + 1
      BY DEF GivenTo
    <2>2. n + 1 \in T
      BY <1>3, <1>4
    <2> HIDE DEF T
    <2> QED
      BY <2>1, <2>2, MaxIs DEF T
  <1> QED
    BY <1>2, <1>3, <1>4

LEMMA KeptSame ==
  ASSUME NEW f, NEW n \in Nat, NEW k, f[n + 1].key \notin Names(k), NEW v, Kept(f, k, n, v)
  PROVE  Kept(f, k, n + 1, v)
  <1>1. GivenTo(f, k, n + 1) = GivenTo(f, k, n)
    BY OneMore
  <1> QED
    BY <1>1 DEF Kept

\* What a line that names k makes of a setting that was b.
Named(k, b, v, s) ==
  IF k \in Latches THEN v = (b \/ TurnsOn(k, s))
  ELSE IF k = "hasGpsCoordinates" THEN v = TRUE ELSE Holds(k, v, s)

LEMMA KeptNew ==
  ASSUME NEW f, NEW n \in Nat, NEW k \in Key, f[n + 1].key \in Names(k),
         NEW b, Kept(f, k, n, b), NEW v, Named(k, b, v, f[n + 1].value)
  PROVE  Kept(f, k, n + 1, v)
  <1> DEFINE G == GivenTo(f, k, n)
             H == GivenTo(f, k, n + 1)
             T(i) == TurnsOn(k, f[i].value)
  <1>1. H = G \cup {n + 1} /\ Max(H) = n + 1
    BY OneMore
  <1>2. KeptBy(f, k, G, b)
    BY DEF Kept
  <1>3. H # {}
    BY <1>1
  <1> HIDE DEF G, H
  <1>4. CASE k \in Latches
    <2>1. b = \E i \in G : T(i)
      BY <1>2, <1>4, Zenon DEF KeptBy
    <2>2. v = (b \/ T(n + 1))
      BY <1>4, Zenon DEF Named
    <2> HIDE DEF T
    <2>3. (\E i \in H : T(i)) <=> (\E i \in G : T(i)) \/ T(n + 1)
      BY <1>1, Zenon
    <2>4. v = \E i \in H : T(i)
      BY <2>1, <2>2, <2>3, Zenon
    <2> QED
      BY <1>4, <2>4, Zenon DEF Kept, KeptBy, H, T
  <1>5. CASE k = "hasGpsCoordinates"
    <2>1. k \notin Latches
      BY <1>5, Kinds
    <2>2. v = TRUE
      BY <1>5, <2>1, Zenon DEF Named
    <2>3. v = (H # {})
      BY <1>3, <2>2, Zenon
    <2> QED
      BY <1>5, <2>1, <2>3, Zenon DEF Kept, KeptBy, H
  <1>6. CASE k \notin Latches /\ k # "hasGpsCoordinates"
    <2>1. Holds(k, v, f[n + 1].value)
      BY <1>6, Zenon DEF Named
    <2>2. Holds(k, v, f[Max(H)].value)
      BY <1>1, <2>1
    <2> QED
      BY <1>3, <1>6, <2>2, Zenon DEF Kept, KeptBy, H
  <1> QED
    BY <1>4, <1>5, <1>6

\* c with another value for j, and with a coordinate; and a latch that stays on.
Becomes(c, j, v) == [c EXCEPT ![j] = v]
Placed(c, j, v) == [c EXCEPT ![j] = v, !["hasGpsCoordinates"] = TRUE]
Stays(c, j, s) == c[j] \/ s = <<"true">>

LEMMA Assigned ==
  ASSUME NEW c, NEW key, NEW s, NEW d \in Assign(c, key, s)
  PROVE  /\ key \in Numbers => d = Becomes(c, key, Numeric(s))
         /\ key = "contactLifetime" => d = Becomes(c, "metadataLifetime", Numeric(s))
         /\ key \in Texts => \E t \in Copied(key, s) : d = Becomes(c, key, t)
         /\ key = "createGraph" => d = Becomes(c, key, c[key] \/ On(s))
         /\ key = "noMetadataExchange" => d = Becomes(c, key, Stays(c, key, s))
         /\ key \in Switches => d = Becomes(c, key, On(s))
         /\ key \in Coordinates => d = Placed(c, key, Numeric(s))
         /\ key \notin Plain \cup Latches \cup {"contactLifetime"} => d = c
  <1> DEFINE T == {[c EXCEPT ![key] = t] : t \in Copied(key, s)}
  <1>1. d \in CASE key \in Numbers -> {Becomes(c, key, Numeric(s))}
                [] key = "contactLifetime" -> {Becomes(c, "metadataLifetime", Numeric(s))}
                [] key \in Texts -> T
                [] key = "createGraph" -> {Becomes(c, key, c[key] \/ On(s))}
                [] key = "noMetadataExchange" -> {Becomes(c, key, Stays(c, key, s))}
                [] key \in Switches -> {Becomes(c, key, On(s))}
                [] key \in Coordinates -> {Placed(c, key, Numeric(s))}
                [] OTHER -> {c}
    BY DEF Assign, Becomes, Placed, Stays
  <1>2. d \in T => \E t \in Copied(key, s) : d = Becomes(c, key, t)
    BY DEF Becomes
  <1> HIDE DEF T
  <1>3. /\ Numbers \cap (Coordinates \cup Texts \cup Switches) = {}
        /\ Coordinates \cap (Texts \cup Switches) = {} /\ Texts \cap Switches = {}
        /\ Latches = {"createGraph", "noMetadataExchange"}
        /\ "createGraph" # "noMetadataExchange" /\ "contactLifetime" \notin Plain \cup Latches
        /\ Plain \cap Latches = {} /\ Plain = Numbers \cup Coordinates \cup Texts \cup Switches
    BY Kinds DEF Plain
  <1>4. /\ key \in Numbers => d = Becomes(c, key, Numeric(s))
        /\ key = "contactLifetime" => d = Becomes(c, "metadataLifetime", Numeric(s))
    BY <1>1, <1>3
  <1>5. key \in Texts => d \in T
    BY <1>1, <1>3
  <1>6. /\ key = "createGraph" => d = Becomes(c, key, c[key] \/ On(s))
        /\ key = "noMetadataExchange" => d = Becomes(c, key, Stays(c, key, s))
    BY <1>1, <1>3
  <1>7. /\ key \in Switches => d = Becomes(c, key, On(s))
        /\ key \in Coordinates => d = Placed(c, key, Numeric(s))
    BY <1>1, <1>3
  <1>8. key \notin Plain \cup Latches \cup {"contactLifetime"} => d = c
    BY <1>1, <1>3
  <1> QED
    BY <1>2, <1>4, <1>5, <1>6, <1>7, <1>8

LEMMA WholeBefore ==
  ASSUME NEW S, NEW s \in Seq(S), NEW x
  PROVE  SubSeq(s, 1, Len(s)) = s /\ SubSeq(Append(s, x), 1, Len(s)) = s
  <1> DEFINE W == S \cup {x}
  <1>1. S \subseteq W /\ x \in W
    OBVIOUS
  <1> HIDE DEF W
  <1>2. s \in Seq(W) /\ <<x>> \in Seq(W)
    BY <1>1, Widened, OneSymbol
  <1> DEFINE t == <<x>>
  <1>3. Append(s, x) = s \o t
    BY <1>2, AppendIsConcat
  <1>4. t \in Seq(W)
    BY <1>2
  <1> HIDE DEF t
  <1>5. SubSeq(s \o t, 1, Len(s)) = s
    BY <1>2, <1>4, Joined
  <1>6. SubSeq(s, 1, Len(s)) = s
    BY SubSeqFull
  <1> QED
    BY <1>3, <1>5, <1>6

\* What has been copied keeps the beginning of a text.
LEMMA CopyHolds ==
  ASSUME NEW k \in Texts, NEW S, NEW s \in Seq(S), NEW t \in Copied(k, s)
  PROVE  Holds(k, t, s)
  <1> PICK r \in Nat : r = Room[k] - 1
    BY ConfigAssumption
  <1> PICK l \in Nat : l = Len(s)
    BY LenProperties
  <1> DEFINE H == IF l < r THEN t = s ELSE SubSeq(t, 1, r) = SubSeq(s, 1, r)
  <1>1. ASSUME l < r PROVE H
    BY <1>1 DEF Copied
  <1>2. ASSUME ~(l < r) PROVE H
    <2> DEFINE cut == SubSeq(s, 1, r)
    <2>1. t = cut \/ t = Append(cut, "garbage")
      <3>1. Copied(k, s) = {cut} \cup IF k = "nodemetadata" THEN {} ELSE {Append(cut, "garbage")}
        BY <1>2 DEF Copied
      <3> HIDE DEF cut
      <3> QED
        BY <3>1
    <2>2. cut \in Seq(S) /\ Len(cut) = r
      BY <1>2, Parted
    <2> HIDE DEF cut
    <2>3. SubSeq(cut, 1, r) = cut /\ SubSeq(Append(cut, "garbage"), 1, r) = cut
      BY <2>2, WholeBefore
    <2>5. SubSeq(t, 1, r) = SubSeq(s, 1, r)
      BY <2>1, <2>3 DEF cut
    <2> QED
      BY <1>2, <2>5
  <1>3. H => Holds(k, t, s)
    <2>1. Len(s) < Room[k] - 1 <=> l < r
      OBVIOUS
    <2>2. H <=> IF Len(s) < Room[k] - 1 THEN t = s
                ELSE SubSeq(t, 1, Room[k] - 1) = SubSeq(s, 1, Room[k] - 1)
      BY <2>1
    <2>3. k \notin Switches
      BY Kinds
    <2> HIDE DEF H
    <2> QED
      BY <2>2, <2>3, Zenon DEF Holds
  <1> HIDE DEF H
  <1> QED
    BY <1>1, <1>2, <1>3

\* Another value for one setting.
LEMMA OneBecomes ==
  ASSUME NEW c, c = [k \in Key |-> c[k]], NEW j \in Key, NEW v, NEW d, d = Becomes(c, j, v)
  PROVE  d = [k \in Key |-> d[k]] /\ d[j] = v /\ \A k \in Key : k # j => d[k] = c[k]
  BY DEF Becomes

\* A plain setting is given its value whatever it was.
LEMMA PlainNamed ==
  ASSUME NEW k \in Plain, NEW b, NEW v, NEW s, Holds(k, v, s)
  PROVE  Named(k, b, v, s)
  <1>1. k \notin Latches /\ k # "hasGpsCoordinates"
    BY Kinds
  <1> QED
    BY <1>1, Zenon DEF Named

LEMMA LatchNamed ==
  ASSUME NEW k \in Latches, NEW b, NEW v, NEW s, v = (b \/ TurnsOn(k, s))
  PROVE  Named(k, b, v, s)
  BY Zenon DEF Named

\* What is given a value under a name, and what is not.
LEMMA Assigns ==
  ASSUME NEW c, c = [k \in Key |-> c[k]], NEW key, NEW s, NEW d \in Assign(c, key, s),
         NEW S
  PROVE  /\ d = [k \in Key |-> d[k]]
         /\ \A k \in Key : /\ key \notin Names(k) => d[k] = c[k]
                           /\ key \in Names(k) /\ s \in Seq(S) =>
                                Named(k, c[k], d[k], s)
  <1> DEFINE Goal == /\ d = [k \in Key |-> d[k]]
                     /\ \A k \in Key : /\ key \notin Names(k) => d[k] = c[k]
                                       /\ key \in Names(k) /\ s \in Seq(S) =>
                                            Named(k, c[k], d[k], s)
  <1>1. ASSUME NEW j \in Plain, NEW v, d = Becomes(c, j, v), key \notin Coordinates,
               key = j \/ (key = "contactLifetime" /\ j = "metadataLifetime"),
               s \in Seq(S) => Holds(j, v, s)
        PROVE  Goal
    <2>1. d = [k \in Key |-> d[k]] /\ d[j] = v /\ \A k \in Key : k # j => d[k] = c[k]
      <3>1. j \in Key
        BY Kinds
      <3> QED
        BY <1>1, <3>1, OneBecomes
    <2>2. \A k \in Key : key \in Names(k) <=> k = j
      <3> SUFFICES ASSUME NEW k \in Key PROVE key \in Names(k) <=> k = j
        OBVIOUS
      <3>1. /\ j # "hasGpsCoordinates" /\ "contactLifetime" # k
            /\ j # "contactLifetime" /\ "metadataLifetime" # "hasGpsCoordinates"
        BY Kinds
      <3> QED
        BY <1>1, <3>1, NamesAre
    <2>3. s \in Seq(S) => Named(j, c[j], d[j], s)
      BY <1>1, <2>1, PlainNamed
    <2>4. \A k \in Key : key \in Names(k) /\ s \in Seq(S) => Named(k, c[k], d[k], s)
      BY <2>2, <2>3, Zenon
    <2> QED
      BY <2>1, <2>2, <2>4
  <1>2. ASSUME key \in Coordinates PROVE Goal
    <2> DEFINE v == Numeric(s)
    <2>1. d = Placed(c, key, v) /\ key \in Key /\ key \in Plain
          /\ key # "hasGpsCoordinates"
      BY <1>2, Assigned, Kinds DEF Plain
    <2> HIDE DEF v
    <2>2. /\ d = [k \in Key |-> d[k]] /\ d[key] = v
          /\ d["hasGpsCoordinates"] = TRUE
          /\ \A k \in Key : k # key /\ k # "hasGpsCoordinates" => d[k] = c[k]
      <3> PICK j \in Key : j = key
        BY <2>1
      <3>1. d = Placed(c, j, v) /\ j # "hasGpsCoordinates"
        BY <2>1
      <3>2. /\ d = [k \in Key |-> d[k]] /\ d[j] = v /\ d["hasGpsCoordinates"] = TRUE
            /\ \A k \in Key : k # j /\ k # "hasGpsCoordinates" => d[k] = c[k]
        <4>1. d = [c EXCEPT ![j] = v, !["hasGpsCoordinates"] = TRUE]
          BY <3>1 DEF Placed
        <4>2. "hasGpsCoordinates" \in Key
          BY DEF Key
        <4> QED
          BY <3>1, <4>1, <4>2
      <3> QED
        BY <3>2
    <2>3. \A k \in Key : key \in Names(k) <=> k = key \/ k = "hasGpsCoordinates"
      <3> SUFFICES ASSUME NEW k \in Key
                   PROVE  key \in Names(k) <=> k = key \/ k = "hasGpsCoordinates"
        OBVIOUS
      <3>1. key # "contactLifetime"
        BY <2>1, Kinds
      <3> QED
        BY <1>2, <2>1, <3>1, NamesAre
    <2>4. Named(key, c[key], d[key], s)
      <3>1. key \notin Texts /\ key \notin Switches
        BY <1>2, Kinds
      <3>2. Holds(key, d[key], s)
        BY <2>2, <3>1 DEF Holds, v
      <3> QED
        BY <2>1, <3>2, PlainNamed
    <2>5. Named("hasGpsCoordinates", c["hasGpsCoordinates"], d["hasGpsCoordinates"], s)
      <3>1. "hasGpsCoordinates" \notin Latches
        BY Kinds
      <3> QED
        BY <2>2, <3>1, Zenon DEF Named
    <2>6. \A k \in Key : key \in Names(k) => Named(k, c[k], d[k], s)
      BY <2>3, <2>4, <2>5, Zenon
    <2> QED
      BY <2>2, <2>3, <2>6
  <1>3. ASSUME key \in Latches PROVE Goal
    <2> DEFINE v == c[key] \/ TurnsOn(key, s)
    <2>1. d = Becomes(c, key, v)
      <3>1. CASE key = "createGraph"
        <4>1. d = Becomes(c, key, c[key] \/ On(s))
          BY <3>1, Assigned
        <4>2. v = (c[key] \/ On(s))
          BY <3>1 DEF On, TurnsOn
        <4> QED
          BY <4>1, <4>2
      <3>2. CASE key = "noMetadataExchange"
        <4>1. d = Becomes(c, key, Stays(c, key, s))
          BY <3>2, Assigned
        <4>2. v = Stays(c, key, s)
          BY <3>2 DEF Stays, TurnsOn
        <4> QED
          BY <4>1, <4>2
      <3> QED
        BY <1>3, <3>1, <3>2, Kinds
    <2> HIDE DEF v
    <2>2. d = [k \in Key |-> d[k]] /\ d[key] = v /\ \A k \in Key : k # key => d[k] = c[k]
      <3>1. key \in Key
        BY <1>3, Kinds
      <3> QED
        BY <2>1, <3>1, OneBecomes
    <2>3. \A k \in Key : key \in Names(k) <=> k = key
      <3> SUFFICES ASSUME NEW k \in Key PROVE key \in Names(k) <=> k = key
        OBVIOUS
      <3>1. /\ key # "hasGpsCoordinates" /\ key # "contactLifetime"
            /\ key \notin Coordinates
        BY <1>3, Kinds DEF Plain
      <3> QED
        BY <3>1, NamesAre
    <2>4. d[key] = (c[key] \/ TurnsOn(key, s))
      BY <2>2, Zenon DEF v
    <2>5. Named(key, c[key], d[key], s)
      BY <1>3, <2>4, LatchNamed
    <2>6. \A k \in Key : key \in Names(k) => Named(k, c[k], d[k], s)
      BY <2>3, <2>5, Zenon
    <2> QED
      BY <2>2, <2>3, <2>6
  <1>4. ASSUME key \in Plain \cup {"contactLifetime"}, key \notin Coordinates PROVE Goal
    <2>1. CASE key \in Numbers
      <3>1. d = Becomes(c, key, Numeric(s)) /\ key \in Plain
            /\ key \notin Texts /\ key \notin Switches
        BY <2>1, Assigned, Kinds DEF Plain
      <3>2. Holds(key, Numeric(s), s)
        BY <3>1 DEF Holds
      <3> QED
        BY <1>1, <1>4, <3>1, <3>2
    <2>2. CASE key = "contactLifetime"
      <3>1. /\ d = Becomes(c, "metadataLifetime", Numeric(s)) /\ "metadataLifetime" \in Plain
            /\ "metadataLifetime" \notin Texts /\ "metadataLifetime" \notin Switches
        BY <2>2, Assigned, Kinds DEF Plain
      <3>2. Holds("metadataLifetime", Numeric(s), s)
        BY <3>1 DEF Holds
      <3> QED
        BY <1>1, <1>4, <2>2, <3>1, <3>2
    <2>3. CASE key \in Texts
      <3>1. PICK t \in Copied(key, s) : d = Becomes(c, key, t)
        BY <2>3, Assigned
      <3>2. (s \in Seq(S) => Holds(key, t, s)) /\ key \in Plain
        BY <2>3, CopyHolds DEF Plain
      <3> QED
        BY <1>1, <1>4, <3>1, <3>2
    <2>4. CASE key \in Switches
      <3>1. d = Becomes(c, key, On(s)) /\ key \in Plain /\ key \notin Texts
        BY <2>4, Assigned, Kinds DEF Plain
      <3>2. Holds(key, On(s), s)
        BY <2>4, <3>1 DEF Holds
      <3> QED
        BY <1>1, <1>4, <3>1, <3>2
    <2> QED
      BY <1>4, <2>1, <2>2, <2>3, <2>4 DEF Plain
  <1>5. ASSUME key \notin Plain \cup Latches \cup {"contactLifetime"} PROVE Goal
    <2>1. d = c
      BY <1>5, Assigned
    <2>2. \A k \in Key : key \notin Names(k)
      <3> SUFFICES ASSUME NEW k \in Key PROVE key \notin Names(k)
        OBVIOUS
      <3>1. k \in Plain \cup Latches \cup {"hasGpsCoordinates"}
        BY Kinds
      <3>2. key \notin Coordinates
        BY <1>5 DEF Plain
      <3> QED
        BY <1>5, <3>1, <3>2, NamesAre
    <2> QED
      BY <2>1, <2>2
  <1> HIDE DEF Goal
  <1>6. Goal
    BY <1>2, <1>3, <1>4, <1>5
  <1> QED
    BY <1>6 DEF Goal

\* A line whose name is among A gives a value to nothing that has another name.
LEMMA Touches ==
  ASSUME NEW c, c = [k \in Key |-> c[k]], NEW A, NEW p, Entry(p).key \in Seq(A),
         NEW d \in Load(c, p)
  PROVE  d = [k \in Key |-> d[k]] /\ \A k \in Key : Names(k) \cap A = {} => d[k] = c[k]
  <1> DEFINE e == Entry(p)
  <1>1. CASE Len(e.key) # 1
    <2>1. d = c
      BY <1>1 DEF Load
    <2> QED
      BY <2>1
  <1>2. CASE Len(e.key) = 1
    <2>1. d \in Assign(c, e.key[1], e.value)
      BY <1>2 DEF Load
    <2>2. e.key[1] \in A
      BY <1>2
    <2> PICK v : v = e.value
      OBVIOUS
    <2> PICK key : key = e.key[1]
      OBVIOUS
    <2> HIDE DEF e
    <2>3. d \in Assign(c, key, v)
      BY <2>1
    <2>4. /\ d = [k \in Key |-> d[k]]
          /\ \A k \in Key : key \notin Names(k) => d[k] = c[k]
      BY <2>3, Assigns
    <2> QED
      BY <2>2, <2>4
  <1> QED
    BY <1>1, <1>2

\* No line of f spoils k.
Spares(f, k) == \A i \in DOMAIN f : Names(k) \cap Spoils(f[i]) = {}

\* c gives every setting that is spared what the first n lines of f say.
AsWritten(c, f, n) ==
  c = [k \in Key |-> c[k]] /\ \A k \in Key : Spares(f, k) => Kept(f, k, n, c[k])

LEMMA DefaultsWritten ==
  ASSUME NEW f
  PROVE  AsWritten([Defaults EXCEPT !["noMetadataExchange"] = FALSE], f, 0)
  <1> DEFINE c == [Defaults EXCEPT !["noMetadataExchange"] = FALSE]
  <1>1. c = [k \in Key |-> c[k]]
    BY Reset
  <1>2. \A k : GivenTo(f, k, 0) = {}
    BY DEF GivenTo
  <1>3. ASSUME NEW k \in Key PROVE KeptBy(f, k, {}, c[k])
    <2>1. Defaults = [j \in Key |-> Defaults[j]]
      BY DefaultsOK
    <2>2. k # "noMetadataExchange" => c[k] = Defaults[k]
      BY <2>1
    <2>3. CASE k \in Plain
      <3>1. k # "noMetadataExchange" /\ k \notin Latches /\ k # "hasGpsCoordinates"
        BY <2>3, Kinds
      <3> QED
        BY <2>2, <3>1 DEF KeptBy
    <2>4. CASE k \in Latches
      <3>1. c[k] = FALSE
        <4>1. Defaults["createGraph"] = FALSE
          BY DEF Defaults, Key, Latches, Coordinates
        <4>2. c["noMetadataExchange"] = FALSE
          BY <2>1, Keys
        <4> QED
          BY <2>2, <2>4, <4>1, <4>2, Kinds
      <3> HIDE DEF c
      <3> QED
        BY <2>4, <3>1 DEF KeptBy
    <2>5. CASE k = "hasGpsCoordinates"
      <3>1. c[k] = FALSE
        <4>1. Defaults["hasGpsCoordinates"] = FALSE
          BY DEF Defaults, Key, Coordinates
        <4>2. k # "noMetadataExchange"
          BY <2>5
        <4> QED
          BY <2>2, <2>5, <4>1, <4>2
      <3>2. k \notin Latches
        BY <2>5, Kinds
      <3> HIDE DEF c
      <3> QED
        BY <2>5, <3>1, <3>2 DEF KeptBy
    <2> QED
      BY <2>3, <2>4, <2>5, Kinds
  <1> HIDE DEF c
  <1>4. \A k \in Key : Kept(f, k, 0, c[k])
    BY <1>2, <1>3 DEF Kept
  <1> QED
    BY <1>1, <1>4 DEF AsWritten, c

\* A line that is clear.
LEMMA ClearWrites ==
  ASSUME NEW f \in Files, NEW n \in Nat, n + 1 \in 1..Len(f), Clear(f[n + 1]),
         NEW c, AsWritten(c, f, n), NEW d \in Load(c, Spelled(f[n + 1]))
  PROVE  AsWritten(d, f, n + 1)
  <1> DEFINE line == f[n + 1]
             S == SymbolsOf(line)
  <1>1. Over(line, S) /\ (line.key # Hash => Readable(line))
    BY FileIs DEF Clear, Readable
  <1>2. c = [k \in Key |-> c[k]] /\ \A k \in Key : Spares(f, k) => Kept(f, k, n, c[k])
    BY DEF AsWritten
  <1>3. d \in IF line.key = Hash THEN {c} ELSE Assign(c, line.key, line.value)
    <2> HIDE DEF S
    <2>1. Load(c, Spelled(line)) = IF line.key = Hash THEN {c}
                                   ELSE Assign(c, line.key, line.value)
      BY <1>1, LineSays
    <2> QED
      BY <2>1
  <1>4. line.value \in Seq(S)
    BY <1>1 DEF Over
  <1> HIDE DEF line, S
  <1>5. /\ d = [k \in Key |-> d[k]]
        /\ \A k \in Key : /\ line.key \notin Names(k) => d[k] = c[k]
                          /\ line.key \in Names(k) => Named(k, c[k], d[k], line.value)
    <2>1. CASE line.key = Hash
      <3>1. \A k \in Key : line.key \notin Names(k)
        BY <2>1, NoSymbolNames
      <3> QED
        BY <1>2, <1>3, <2>1, <3>1
    <2>2. CASE line.key # Hash
      <3> PICK key : key = line.key
        OBVIOUS
      <3> PICK s \in Seq(S) : s = line.value
        BY <1>4
      <3>1. d \in Assign(c, key, s)
        BY <1>3, <2>2
      <3>2. /\ d = [k \in Key |-> d[k]]
            /\ \A k \in Key : /\ key \notin Names(k) => d[k] = c[k]
                              /\ key \in Names(k) /\ s \in Seq(S) =>
                                   Named(k, c[k], d[k], s)
        BY <1>2, <3>1, Assigns
      <3> QED
        BY <3>2
    <2> QED
      BY <2>1, <2>2
  <1>6. ASSUME NEW k \in Key, Spares(f, k) PROVE Kept(f, k, n + 1, d[k])
    <2>1. Kept(f, k, n, c[k])
      BY <1>2, <1>6
    <2>2. CASE line.key \notin Names(k)
      <3>1. d[k] = c[k] /\ f[n + 1].key \notin Names(k)
        BY <1>5, <1>6, <2>2 DEF line
      <3>2. Kept(f, k, n + 1, c[k])
        BY <2>1, <3>1, KeptSame
      <3> QED
        BY <3>1, <3>2
    <2>3. CASE line.key \in Names(k)
      <3>1. Named(k, c[k], d[k], f[n + 1].value) /\ f[n + 1].key \in Names(k)
        BY <1>5, <1>6, <2>3 DEF line
      <3> QED
        BY <2>1, <3>1, KeptNew
    <2> QED
      BY <2>2, <2>3
  <1> QED
    BY <1>5, <1>6 DEF AsWritten

\* What is read of a line that is not clear gives nothing to what is spared.
LEMMA UnclearWrites ==
  ASSUME NEW f \in Files, NEW i \in 1..Len(f), ~Clear(f[i]), NEW c, c = [k \in Key |-> c[k]],
         NEW p \in Seq(SymbolsOf(f[i])), Fits(f[i]) => p = Spelled(f[i]), NEW d \in Load(c, p)
  PROVE  /\ d = [k \in Key |-> d[k]]
         /\ \A k \in Key : Spares(f, k) => f[i].key \notin Names(k) /\ d[k] = c[k]
  <1> DEFINE line == f[i]
             A == SymbolsOf(line)
             B == {Blank, Newline, Equals, Hash, Quote, "remark"} \cup Spoils(line)
  <1>1. \A k \in Key : Spares(f, k) => Names(k) \cap B = {}
    <2>1. \A k \in Key : Spares(f, k) => Names(k) \cap Spoils(line) = {}
      BY FileIs DEF Spares
    <2> QED
      BY <2>1, NoSymbolNames
  <1>2. line.key \in B
    BY DEF Spoils
  <1>3. Entry(p).key \in Seq(B)
    <2>1. CASE Fits(line)
      <3>1. Over(line, A) /\ line.key # Hash
        BY <2>1, FileIs DEF Clear
      <3>2. Setting(line, A) /\ Alphabet(A) /\ p = Spelled(line)
        BY <2>1, <3>1 DEF Over, Setting
      <3> HIDE DEF line, A, B
      <3>3. Entry(p).key \in {<<>>, <<line.key>>}
        BY <3>2, OwnKey
      <3>4. <<line.key>> \in Seq(B) /\ <<>> \in Seq(B)
        BY <1>2, OneSymbol
      <3> QED
        BY <3>3, <3>4
    <2>2. CASE ~Fits(line)
      <3>1. A \subseteq B
        BY <2>2 DEF SymbolsOf, Spoils, Clear
      <3>2. p \in Seq(A)
        OBVIOUS
      <3> HIDE DEF line, A, B
      <3>3. Entry(p).key \in Seq(A)
        BY <3>2, KeyWithin
      <3> QED
        BY <3>1, <3>3, Widened
    <2> QED
      BY <2>1, <2>2
  <1> HIDE DEF B
  <1>4. d = [k \in Key |-> d[k]] /\ \A k \in Key : Names(k) \cap B = {} => d[k] = c[k]
    BY <1>3, Touches
  <1> QED
    BY <1>1, <1>2, <1>4 DEF line

LEMMA LineWrites ==
  ASSUME NEW f \in Files, NEW n \in Nat, n + 1 \in 1..Len(f), NEW c, AsWritten(c, f, n),
         NEW p \in Seq(SymbolsOf(f[n + 1])), Fits(f[n + 1]) => p = Spelled(f[n + 1]),
         NEW d \in Load(c, p)
  PROVE  AsWritten(d, f, n + 1)
  <1>1. CASE Clear(f[n + 1])
    <2>1. p = Spelled(f[n + 1])
      BY <1>1 DEF Clear
    <2> QED
      BY <1>1, <2>1, ClearWrites
  <1>2. CASE ~Clear(f[n + 1])
    <2>1. c = [k \in Key |-> c[k]] /\ \A k \in Key : Spares(f, k) => Kept(f, k, n, c[k])
      BY DEF AsWritten
    <2>2. /\ d = [k \in Key |-> d[k]]
          /\ \A k \in Key : Spares(f, k) => f[n + 1].key \notin Names(k) /\ d[k] = c[k]
      <3> PICK i \in 1..Len(f) : i = n + 1
        OBVIOUS
      <3>1. ~Clear(f[i]) /\ p \in Seq(SymbolsOf(f[i])) /\ (Fits(f[i]) => p = Spelled(f[i]))
        BY <1>2
      <3>2. /\ d = [k \in Key |-> d[k]]
            /\ \A k \in Key : Spares(f, k) => f[i].key \notin Names(k) /\ d[k] = c[k]
        BY <2>1, <3>1, UnclearWrites
      <3> QED
        BY <3>2
    <2>3. ASSUME NEW k \in Key, Spares(f, k) PROVE Kept(f, k, n + 1, d[k])
      <3>1. Kept(f, k, n, c[k]) /\ f[n + 1].key \notin Names(k) /\ d[k] = c[k]
        BY <2>1, <2>2, <2>3
      <3>2. Kept(f, k, n + 1, c[k])
        BY <3>1, KeptSame
      <3> QED
        BY <3>1, <3>2
    <2> QED
      BY <2>2, <2>3 DEF AsWritten
  <1> QED
    BY <1>1, <1>2

\* A later piece of a line that does not fit.
LEMMA PieceWrites ==
  ASSUME NEW f \in Files, NEW n \in 1..Len(f), NEW c, AsWritten(c, f, n), ~Fits(f[n]),
         NEW p \in Seq(SymbolsOf(f[n])), NEW d \in Load(c, p)
  PROVE  AsWritten(d, f, n)
  <1>1. c = [k \in Key |-> c[k]] /\ \A k \in Key : Spares(f, k) => Kept(f, k, n, c[k])
    BY DEF AsWritten
  <1>2. ~Clear(f[n])
    BY DEF Clear
  <1>3. /\ d = [k \in Key |-> d[k]]
        /\ \A k \in Key : Spares(f, k) => f[n].key \notin Names(k) /\ d[k] = c[k]
    BY <1>1, <1>2, UnclearWrites
  <1>4. \A k \in Key : Spares(f, k) => Kept(f, k, n, d[k])
    BY <1>1, <1>3
  <1> QED
    BY <1>3, <1>4 DEF AsWritten

-----------------------------------------------------------------------------
(* What has been read of a file is in the settings, line by line.          *)

\* The next piece is the beginning of a line, or the middle of one that does not fit.
Progress(f, rest, c) ==
  /\ rest \in Seq(Symbols(f))
  /\ \E n \in 0..Len(f) : \E t \in Seq(Symbols(f)) :
       /\ UpTo(f)[n] \o t = SpelledFile(f) /\ AsWritten(c, f, n)
       /\ \/ rest = t
          \/ /\ n \in 1..Len(f) /\ ~Fits(f[n])
             /\ \E s \in Seq(SymbolsOf(f[n]) \ {Newline}) : rest = (s \o <<Newline>>) \o t

LoadInv ==
  /\ file \in Files \cup {NoFile}
  /\ phase = "loading" /\ file # NoFile => Progress(file, unread, config)

LEMMA Begun ==
  ASSUME NEW f \in Files
  PROVE  Progress(f, SpelledFile(f), [Defaults EXCEPT !["noMetadataExchange"] = FALSE])
  <1> DEFINE all == SpelledFile(f)
             c == [Defaults EXCEPT !["noMetadataExchange"] = FALSE]
  <1>1. Len(f) \in Nat
    BY FileIs
  <1>2. UpTo(f)[0] = <<>> /\ UpTo(f)[Len(f)] = all
    BY <1>1, UpToIs
  <1>3. all \in Seq(Symbols(f))
    BY <1>1, <1>2, Beginnings
  <1> HIDE DEF all
  <1>4. UpTo(f)[0] \o all = all
    BY <1>2, <1>3, ConcatEmptySeq
  <1>5. 0 \in 0..Len(f)
    BY <1>1
  <1>6. AsWritten(c, f, 0)
    BY DefaultsWritten
  <1> HIDE DEF c
  <1> QED
    BY <1>3, <1>4, <1>5, <1>6 DEF Progress, all, c

LEMMA GoesOn ==
  ASSUME NEW f \in Files, NEW rest, rest # <<>>, NEW c, Progress(f, rest, c),
         NEW d \in Load(c, Line(rest))
  PROVE  Progress(f, SubSeq(rest, Len(Line(rest)) + 1, Len(rest)), d)
  <1> DEFINE S == Symbols(f)
             more == SubSeq(rest, Len(Line(rest)) + 1, Len(rest))
  <1>1. PICK n \in 0..Len(f), t \in Seq(S) :
          /\ UpTo(f)[n] \o t = SpelledFile(f) /\ AsWritten(c, f, n)
          /\ \/ rest = t
             \/ /\ n \in 1..Len(f) /\ ~Fits(f[n])
                /\ \E s \in Seq(SymbolsOf(f[n]) \ {Newline}) : rest = (s \o <<Newline>>) \o t
    BY Zenon DEF Progress
  <1>2. Len(f) \in Nat /\ \A i \in 1..Len(f) : SymbolsOf(f[i]) \subseteq S
    BY FileIs
  <1>3. \A i \in 1..Len(f) : Newline \in SymbolsOf(f[i])
    BY DEF SymbolsOf
  <1> HIDE DEF S
  <1>4. CASE rest = t
    <2>1. n + 1 \in 1..Len(f)
          /\ \E t2 \in Seq(S) : /\ t = Spelled(f[n + 1]) \o t2
                                /\ UpTo(f)[n + 1] \o t2 = SpelledFile(f)
      BY <1>1, <1>4, NextLine DEF S
    <2> PICK m \in 1..Len(f) : m = n + 1
      BY <2>1
    <2>2. PICK t2 \in Seq(S) : t = Spelled(f[m]) \o t2 /\ UpTo(f)[m] \o t2 = SpelledFile(f)
      BY <2>1
    <2> DEFINE A == SymbolsOf(f[m])
    <2>3. PICK s \in Seq(A \ {Newline}) : Spelled(f[m]) = s \o <<Newline>>
      BY LinesAre
    <2>4. A \subseteq S /\ Newline \in A
      BY <1>2, <1>3
    <2> HIDE DEF A
    <2> DEFINE x == s \o <<Newline>>
    <2>5. PICK p \in Seq(A), y \in Seq(A) : Cuts(x, t2, p, y, A)
      BY <2>4, LineCut
    <2>6. Spelled(f[m]) = x
      BY <2>3
    <2> HIDE DEF x
    <2>7. Line(rest) = p /\ more = y \o t2 /\ Rest(y, A)
      BY <1>4, <2>2, <2>5, <2>6 DEF Cuts
    <2>8. Fits(f[m]) => p = Spelled(f[m]) /\ y = <<>>
      BY <2>5, <2>6 DEF Fits, Cuts
    <2> HIDE DEF more
    <2>9. AsWritten(d, f, m)
      <3>1. /\ n \in Nat /\ p \in Seq(SymbolsOf(f[n + 1]))
            /\ (Fits(f[n + 1]) => p = Spelled(f[n + 1])) /\ d \in Load(c, p)
        BY <1>2, <2>7, <2>8 DEF A
      <3>2. AsWritten(d, f, n + 1)
        BY <1>1, <2>1, <3>1, LineWrites
      <3> QED
        BY <3>2
    <2>10. more \in Seq(S)
      <3>1. y \in Seq(S)
        BY <2>4, Widened
      <3> QED
        BY <2>7, <3>1, Joined
    <2>11. m \in 0..Len(f)
      BY <1>2
    <2>12. \/ more = t2
           \/ /\ m \in 1..Len(f) /\ ~Fits(f[m])
              /\ \E r \in Seq(A \ {Newline}) : more = (r \o <<Newline>>) \o t2
      <3>1. <<>> \o t2 = t2
        BY ConcatEmptySeq
      <3>2. CASE y = <<>>
        BY <2>7, <3>1, <3>2
      <3>3. CASE y # <<>>
        <4>1. PICK r \in Seq(A \ {Newline}) : y = r \o <<Newline>>
          BY <2>7, <3>3 DEF Rest
        <4> QED
          BY <2>7, <2>8, <3>3, <4>1, Zenon
      <3> QED
        BY <3>2, <3>3
    <2> QED
      BY <2>2, <2>9, <2>10, <2>11, <2>12, Zenon DEF Progress, S, A, more
  <1>5. CASE rest # t
    <2>1. /\ n \in 1..Len(f) /\ ~Fits(f[n])
          /\ \E s \in Seq(SymbolsOf(f[n]) \ {Newline}) : rest = (s \o <<Newline>>) \o t
      BY <1>1, <1>5, Zenon
    <2> DEFINE A == SymbolsOf(f[n])
    <2>2. PICK s \in Seq(A \ {Newline}) : rest = (s \o <<Newline>>) \o t
      BY <2>1
    <2>3. A \subseteq S /\ Newline \in A
      BY <1>2, <1>3, <2>1
    <2> HIDE DEF A
    <2> DEFINE x == s \o <<Newline>>
    <2>4. PICK p \in Seq(A), y \in Seq(A) : Cuts(x, t, p, y, A)
      BY <2>3, LineCut
    <2>5. rest = x \o t
      BY <2>2
    <2> HIDE DEF x
    <2>6. Line(rest) = p /\ more = y \o t /\ Rest(y, A)
      BY <2>4, <2>5 DEF Cuts
    <2> HIDE DEF more
    <2>7. AsWritten(d, f, n)
      <3>1. p \in Seq(SymbolsOf(f[n])) /\ d \in Load(c, p)
        BY <2>6 DEF A
      <3> QED
        BY <1>1, <2>1, <3>1, PieceWrites
    <2>8. more \in Seq(S)
      <3>1. y \in Seq(S)
        BY <2>3, Widened
      <3> QED
        BY <2>6, <3>1, Joined
    <2>9. \/ more = t
          \/ /\ n \in 1..Len(f) /\ ~Fits(f[n])
             /\ \E r \in Seq(A \ {Newline}) : more = (r \o <<Newline>>) \o t
      <3>1. <<>> \o t = t
        BY ConcatEmptySeq
      <3>2. CASE y = <<>>
        BY <2>6, <3>1, <3>2
      <3>3. CASE y # <<>>
        <4>1. PICK r \in Seq(A \ {Newline}) : y = r \o <<Newline>>
          BY <2>6, <3>3 DEF Rest
        <4> QED
          BY <2>1, <2>6, <4>1, Zenon
      <3> QED
        BY <3>2, <3>3
    <2> QED
      BY <1>1, <2>7, <2>8, <2>9, Zenon DEF Progress, S, A, more
  <1> QED
    BY <1>4, <1>5

LEMMA Ended ==
  ASSUME NEW f \in Files, NEW c, Progress(f, <<>>, c)
  PROVE  AsWritten(c, f, Len(f))
  <1> DEFINE S == Symbols(f)
  <1>1. PICK n \in 0..Len(f), t \in Seq(S) :
          /\ UpTo(f)[n] \o t = SpelledFile(f) /\ AsWritten(c, f, n)
          /\ \/ <<>> = t
             \/ /\ n \in 1..Len(f) /\ ~Fits(f[n])
                /\ \E s \in Seq(SymbolsOf(f[n]) \ {Newline}) : <<>> = (s \o <<Newline>>) \o t
    BY Zenon DEF Progress
  <1>2. t = <<>>
    <2> SUFFICES ASSUME n \in 1..Len(f),
                        NEW s \in Seq(SymbolsOf(f[n]) \ {Newline}),
                        <<>> = (s \o <<Newline>>) \o t
                 PROVE  FALSE
      BY <1>1
    <2>1. SymbolsOf(f[n]) \ {Newline} \subseteq S /\ Newline \in S
      BY FileIs DEF Alphabet
    <2> DEFINE e == <<Newline>>
               x == s \o e
    <2> HIDE DEF S
    <2>2. s \in Seq(S) /\ e \in Seq(S) /\ e # <<>>
      BY <2>1, Widened, OneSymbol
    <2> HIDE DEF e
    <2>3. x \in Seq(S) /\ x # <<>>
      BY <2>2, Joined, ConcatEqualIffEmpty
    <2>4. <<>> = x \o t
      BY DEF e
    <2>5. t \in Seq(S)
      BY <1>1
    <2> HIDE DEF x
    <2>6. Len(x) \in Nat /\ Len(t) \in Nat /\ Len(x \o t) = Len(x) + Len(t)
      BY <2>3, <2>5, Joined
    <2>7. Len(x) # 0
      BY <2>3, EmptySeq
    <2>8. Len(x \o t) = 0
      BY <2>4, EmptySeq
    <2> PICK i \in Nat, j \in Nat : i = Len(x) /\ j = Len(t)
      BY <2>6
    <2> QED
      BY <2>6, <2>7, <2>8
  <1>3. n = Len(f)
    BY <1>1, <1>2, NextLine
  <1> QED
    BY <1>1, <1>3

LEMMA InitLoads == Init => LoadInv
  <1> SUFFICES ASSUME Init PROVE LoadInv
    OBVIOUS
  <1>1. file \in Files \cup {NoFile} /\ Opened(file)
    BY DEF Init
  <1>2. ASSUME file # NoFile PROVE Progress(file, unread, config)
    <2>1. file \in Files
      BY <1>1, <1>2
    <2>2. /\ unread = SpelledFile(file)
          /\ config = [Defaults EXCEPT !["noMetadataExchange"] = FALSE]
      BY <1>1, <1>2 DEF Opened
    <2> QED
      BY <2>1, <2>2, Begun
  <1> QED
    BY <1>1, <1>2 DEF LoadInv

LEMMA LineLoads == LoadInv /\ LoadLine => LoadInv'
  <1> SUFFICES ASSUME LoadInv, LoadLine PROVE LoadInv'
    OBVIOUS
  <1>1. /\ phase = "loading" /\ unread # <<>> /\ config' \in Load(config, Line(unread))
        /\ unread' = SubSeq(unread, Len(Line(unread)) + 1, Len(unread))
        /\ UNCHANGED file
    BY DEF LoadLine
  <1>2. ASSUME file # NoFile PROVE Progress(file, unread', config')
    <2>1. file \in Files /\ Progress(file, unread, config)
      BY <1>1, <1>2 DEF LoadInv
    <2> QED
      BY <1>1, <2>1, GoesOn
  <1> QED
    BY <1>1, <1>2 DEF LoadInv

LEMMA RestartLoads == LoadInv /\ restartDtnex => LoadInv'
  <1> SUFFICES ASSUME LoadInv, restartDtnex PROVE LoadInv'
    OBVIOUS
  <1>1. /\ UNCHANGED file
        /\ unread' = IF file = NoFile THEN <<>> ELSE SpelledFile(file)
        /\ config' = [Defaults EXCEPT !["noMetadataExchange"] = (file = NoFile)]
    BY DEF restartDtnex
  <1>2. ASSUME file # NoFile PROVE Progress(file, unread', config')
    <2>1. file \in Files
      BY <1>2 DEF LoadInv
    <2>2. /\ unread' = SpelledFile(file)
          /\ config' = [Defaults EXCEPT !["noMetadataExchange"] = FALSE]
      BY <1>1, <1>2
    <2> QED
      BY <2>1, <2>2, Begun
  <1> QED
    BY <1>1, <1>2 DEF LoadInv

LEMMA LeavesLoading ==
  ASSUME LoadInv, UNCHANGED file, phase' # "loading" \/ UNCHANGED <<phase, unread, config>>
  PROVE  LoadInv'
  BY DEF LoadInv

LEMMA NextLoads == LoadInv /\ [Next]_vars => LoadInv'
  <1> SUFFICES ASSUME LoadInv, [Next]_vars PROVE LoadInv'
    OBVIOUS
  <1>1. CASE LoadLine
    BY <1>1, LineLoads
  <1>2. CASE Flags \/ Connect \/ ConnectFails \/ InitEnds
    <2>1. UNCHANGED file /\ phase' # "loading"
      BY <1>2 DEF Flags, Connect, ConnectFails, InitEnds
    <2> QED
      BY <2>1, LeavesLoading
  <1>3. CASE restartDtnex
    BY <1>3, RestartLoads
  <1>4. CASE StartServices \/ LoseConnection \/ Hear \/ updateNodeMetadata
    <2>1. UNCHANGED <<file, phase, unread, config>>
      BY <1>4 DEF StartServices, LoseConnection, Hear, updateNodeMetadata, nodeVars
    <2> QED
      BY <2>1, LeavesLoading
  <1>5. CASE BeginGraph \/ Draw \/ List \/ Total \/ EndGraph
    <2>1. UNCHANGED <<file, phase, unread, config>>
      BY <1>5 DEF BeginGraph, Draw, List, Total, EndGraph
    <2> QED
      BY <2>1, LeavesLoading
  <1>6. CASE UNCHANGED vars
    <2>1. UNCHANGED <<file, phase, unread, config>>
      BY <1>6 DEF vars, nodeVars
    <2> QED
      BY <2>1, LeavesLoading
  <1> QED
    BY <1>1, <1>2, <1>3, <1>4, <1>5, <1>6 DEF Next, getContacts, createGraph, DrawAgain

LEMMA DocumentedIs ==
  ASSUME NEW k \in DOMAIN Documented
  PROVE  Documented[k] = Defaults[k]
  BY DEF Documented, Defaults, Key, Numbers, Coordinates, Texts, Switches, Latches

LEMMA LoadedThen == LoadInv => SettingsAsWritten
  <1> SUFFICES ASSUME LoadInv, phase = "loading", unread = <<>>, file # NoFile,
                      NEW k \in Key, Unspoilt(k)
               PROVE  IF k \in Latches
                        THEN config[k] = \E i \in Given(k) : TurnsOn(k, file[i].value)
                      ELSE IF k = "hasGpsCoordinates" THEN config[k] = (Given(k) # {})
                      ELSE IF Given(k) # {} THEN Holds(k, config[k], Last(k))
                      ELSE k \in DOMAIN Documented => config[k] = Documented[k]
    BY Zenon DEF SettingsAsWritten
  <1>1. file \in Files /\ Progress(file, <<>>, config)
    BY DEF LoadInv
  <1>2. Spares(file, k)
    BY DEF Unspoilt, Spares
  <1>3. Kept(file, k, Len(file), config[k])
    BY <1>1, <1>2, Ended DEF AsWritten
  <1>4. Given(k) = GivenTo(file, k, Len(file))
    <2>1. DOMAIN file = 1..Len(file)
      BY <1>1, FileIs
    <2> QED
      BY <2>1 DEF Given, GivenTo
  <1>5. KeptBy(file, k, Given(k), config[k])
    BY <1>3, <1>4 DEF Kept
  <1>6. k \in DOMAIN Documented => Documented[k] = Defaults[k]
    BY DocumentedIs
  <1> QED
    BY <1>5, <1>6, Zenon DEF KeptBy, Last

\* The settings are what the operator wrote, for every file of any length, whatever
\* blanks, quotes and remarks its lines hold and whatever fgets cuts a line into: a
\* line that is not clear harms the settings named in it only.  SettingsAsWritten of
\* LocalNode.
THEOREM SettingsAreAsWritten == Spec => []SettingsAsWritten
  <1>1. Spec => []LoadInv
    BY InitLoads, NextLoads, PTL DEF Spec
  <1> QED
    BY <1>1, LoadedThen, PTL
=============================================================================
