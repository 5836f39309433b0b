--------------------------- MODULE MetadataTable ---------------------------
(***************************************************************************)
(* nodeMetadataList and its count: the address book of one node.  The      *)
(* reception thread writes a row for each metadata message, main writes    *)
(* the node's own at every connection to ION and reads all of them for the *)
(* graph; no lock orders the two.  A call of updateNodeMetadata is a       *)
(* search, then the write of a row, and for a new row the count; the       *)
(* thread that does not run sees every state in between.  How far a        *)
(* strncpy has come is left out: it changes the text of one row only.      *)
(***************************************************************************)
EXTENDS Integers

CONSTANTS MAX_PLANS,    \* the size of the list
          Own,          \* config->nodeId; every connection reads it anew and is taken to
                        \* find the same
          OwnText,      \* what tryConnectToIon formats from the configuration
          NoRow,        \* a row of the zeroed array
          MaxConnects   \* bound: connections of main to ION

ASSUME TableAssumption == MAX_PLANS \in Nat \ {0} /\ MaxConnects \in Nat

VARIABLES
  nodeMetadataList,
  nodeMetadataCount,
  call,       \* each thread's call of updateNodeMetadata
  main,       \* whether main is connected: "off", "connecting" or "on"
  receiving,  \* the reception thread has been started
  sharing,    \* the configuration names metadata and allows its exchange
  handed,     \* history: the text last handed in for each node
  connects

tableVars == <<nodeMetadataList, nodeMetadataCount, call, main, receiving, sharing, handed,
               connects>>

Thread == {"main", "reception"}

Idle == [stage |-> "idle"]

TableInit ==
  /\ nodeMetadataList = [i \in 1..MAX_PLANS |-> NoRow]
  /\ nodeMetadataCount = 0
  /\ call = [t \in Thread |-> Idle]
  /\ main = "off"
  /\ receiving = FALSE
  /\ sharing \in BOOLEAN
  /\ handed = {}
  /\ connects = 0

-----------------------------------------------------------------------------
\* updateNodeMetadata(n, text), called by t.
Calling(n, text) == [stage |-> "find", nodeId |-> n, text |-> text]

RowsOf(n) == {i \in 1..nodeMetadataCount : nodeMetadataList[i].nodeId = n}

FirstRow(n) == CHOOSE i \in RowsOf(n) : \A j \in RowsOf(n) : i <= j

Row(t) == [nodeId |-> call[t].nodeId, text |-> call[t].text]

Find(t) ==
  /\ call[t].stage = "find"
  /\ call' = [call EXCEPT ![t] =
       IF RowsOf(@.nodeId) # {}
         THEN [stage |-> "overwrite", nodeId |-> @.nodeId, text |-> @.text,
               slot |-> FirstRow(@.nodeId)]
       ELSE IF nodeMetadataCount < MAX_PLANS THEN [@ EXCEPT !.stage = "append"]
       ELSE Idle]
  /\ UNCHANGED <<nodeMetadataList, nodeMetadataCount, main, receiving, sharing, handed, connects>>

Overwrite(t) ==
  /\ call[t].stage = "overwrite"
  /\ nodeMetadataList' = [nodeMetadataList EXCEPT ![call[t].slot].text = call[t].text]
  /\ call' = [call EXCEPT ![t] = Idle]
  /\ handed' = {r \in handed : r.nodeId # call[t].nodeId} \cup {Row(t)}
  /\ UNCHANGED <<nodeMetadataCount, main, receiving, sharing, connects>>

AppendRow(t) ==
  /\ call[t].stage = "append"
  /\ nodeMetadataList' = [nodeMetadataList EXCEPT ![nodeMetadataCount + 1] = Row(t)]
  /\ call' = [call EXCEPT ![t].stage = "count"]
  /\ handed' = {r \in handed : r.nodeId # call[t].nodeId} \cup {Row(t)}
  /\ UNCHANGED <<nodeMetadataCount, main, receiving, sharing, connects>>

CountRow(t) ==
  /\ call[t].stage = "count"
  /\ nodeMetadataCount' = nodeMetadataCount + 1
  /\ call' = [call EXCEPT ![t] = Idle]
  /\ UNCHANGED <<nodeMetadataList, main, receiving, sharing, handed, connects>>

Update(t) == Find(t) \/ Overwrite(t) \/ AppendRow(t) \/ CountRow(t)

-----------------------------------------------------------------------------
\* tryConnectToIon, its last part: the node's own row.
ConnectToIon ==
  /\ main = "off"
  /\ connects < MaxConnects
  /\ connects' = connects + 1
  /\ main' = "connecting"
  /\ call' = [call EXCEPT !["main"] = IF sharing THEN Calling(Own, OwnText) ELSE Idle]
  /\ UNCHANGED <<nodeMetadataList, nodeMetadataCount, receiving, sharing, handed>>

\* Only then does main start the reception thread, unless it still runs.
\* Mutant of StartsReception: the thread is started before the row is in.
StartsReception_Early == main = "connecting"

StartsReception == main = "connecting" /\ call["main"] = Idle

ServicesStart ==
  /\ StartsReception
  /\ main' = "on"
  /\ receiving' = TRUE
  /\ UNCHANGED <<nodeMetadataList, nodeMetadataCount, call, sharing, handed, connects>>

\* A status check fails: main will connect again, the reception thread goes on.
ConnectionLost ==
  /\ main = "on"
  /\ connects < MaxConnects
  /\ main' = "off"
  /\ UNCHANGED <<nodeMetadataList, nodeMetadataCount, call, receiving, sharing, handed, connects>>

Main == ConnectToIon \/ ServicesStart \/ ConnectionLost \/ Update("main")

-----------------------------------------------------------------------------
(* What the graph and the log find in the list at any moment is one whole row *)
(* per node, with the text last handed in for it.  Nothing in                 *)
(* updateNodeMetadata ensures it: two appends in parallel would write the     *)
(* same row and count two.  It holds because the own row is in the list       *)
(* before the reception thread starts, so that main only ever overwrites      *)
(* beside it, and because the reception thread leaves that row alone.         *)
TableIsSound ==
  /\ \A i \in 1..nodeMetadataCount :
       /\ nodeMetadataList[i] \in handed
       /\ RowsOf(nodeMetadataList[i].nodeId) = {i}
  /\ receiving /\ sharing => nodeMetadataCount > 0 /\ nodeMetadataList[1].nodeId = Own
=============================================================================
