-------------------------- MODULE LifecycleProofs --------------------------
(***************************************************************************)
(* Proofs about Lifecycle: its type invariant; that main tears the         *)
(* connection down only when every service thread has ended; and that no   *)
(* thread it waits for is parked with nothing to wake it; both unless a    *)
(* thread was replaced before it ended, and the second unless the services *)
(* were started again after the signal.  All hold for every number of      *)
(* signals, bundles, outages and faults.                                   *)
(***************************************************************************)
EXTENDS Lifecycle, TLAPS

\* What the types rest on: nothing is waiting that has not come.
Bounded ==
  /\ queue["reception"] + queue["bpecho"] <= arrived
  /\ pending <= sent

TypeInv == TypeOK /\ Bounded

\* The globals stay well-typed under each of the program's assignments.
LEMMA FlagsAreTyped ==
  ASSUME NEW m \in Memory, NEW s \in Service
  PROVE  /\ [m EXCEPT !.serving[s] = TRUE] \in Memory
         /\ [m EXCEPT !.serving[s] = FALSE] \in Memory
         /\ [m EXCEPT !.running = FALSE] \in Memory
         /\ [m EXCEPT !.ionConnected = TRUE] \in Memory
         /\ [m EXCEPT !.ionConnected = FALSE] \in Memory
         /\ [m EXCEPT !.inLoop = TRUE] \in Memory
         /\ [m EXCEPT !.serving[s] = FALSE, !.running = FALSE] \in Memory
         /\ [m EXCEPT !.signalCount = 1, !.running = FALSE] \in Memory
  BY DEF Memory

\* The same of the handles of ION.
LEMMA HandlesAreTyped ==
  ASSUME NEW m \in Memory, NEW s \in Service, NEW v \in Sap
  PROVE  /\ [m EXCEPT !.sap[s] = v] \in Memory
         /\ [m EXCEPT !.sap[s] = v, !.ionConnected = FALSE] \in Memory
  BY DEF Memory

\* The same of a service's flag.
LEMMA ServingIsTyped ==
  ASSUME NEW m \in Memory, NEW s \in Service, NEW b \in BOOLEAN
  PROVE  [m EXCEPT !.serving[s] = b] \in Memory
  BY DEF Memory

\* The same of what pthread_create leaves.
LEMMA ThreadHandleIsTyped ==
  ASSUME NEW m \in Memory, NEW s \in Service, NEW i \in Slot
  PROVE  [m EXCEPT !.started[s] = TRUE, !.handle[s] = i] \in Memory
  BY DEF Memory

\* So are those of a program that has just been loaded.
LEMMA LoadedIsTyped == Loaded \in Memory
  BY DEF Loaded, Memory, Service, Slot, Sap

\* Where main may stand.
Place == {"connect", "connected", "openEcho", "initEcho", "createEcho", "initReception",
          "createReception", "top", "scheduled", "update", "wakeup", "exchange", "restart",
          "exec", "stop", "joinReception", "joinEcho", "close", "done", "failed", "killed"}

\* What a step of main or of the signal thread has to respect to keep the types.
Respects ==
  /\ main' \in Place
  /\ mem' \in Memory
  /\ wake' \subseteq Service
  /\ queue' \in [Service -> 0..MaxBundles]
  /\ queue'["reception"] + queue'["bpecho"] <= queue["reception"] + queue["bpecho"]
  /\ thread' \in [Thread -> {"none", "top", "parked", "handling", "closing"}]
  /\ faults' \in 0..MaxFaults
  /\ raced' \in BOOLEAN
  /\ replaced' \in BOOLEAN

\* A step of main that keeps to its own variables.
LEMMA MainIsTyped ==
  ASSUME TypeInv, MainFrame, Respects
  PROVE  TypeInv'
  <1>1. requested' \in BOOLEAN /\ raced' \in BOOLEAN /\ replaced' \in BOOLEAN
    BY DEF TypeInv, TypeOK, MainFrame, Respects
  <1>2. Bounded'
    <2>1. /\ queue["reception"] \in Int /\ queue["bpecho"] \in Int /\ arrived \in Int
          /\ queue'["reception"] \in Int /\ queue'["bpecho"] \in Int
      BY LifecycleAssumption DEF TypeInv, TypeOK, Respects, Service
    <2> QED
      BY <2>1 DEF TypeInv, MainFrame, Respects, Bounded
  <1>3. /\ ion' \in {"up", "down"} /\ era' \in Era /\ arrived' \in 0..MaxBundles
        /\ signaller' \in {"wait", "lowerEcho", "lowerReception", "wakeReception", "wakeEcho"}
        /\ parkedOn' \in [Thread -> Sap] /\ pending' \in 0..MaxSignals
        /\ sent' \in 0..MaxSignals
    BY DEF TypeInv, TypeOK, MainFrame
  <1> QED
    BY <1>1, <1>2, <1>3 DEF TypeInv, TypeOK, Respects, Place

\* A step of main that changes only where it stands and the globals.
LEMMA QuietIsTyped ==
  ASSUME TypeInv, MainFrame, Quietly, main' \in Place, mem' \in Memory
  PROVE  TypeInv'
  <1>1. raced' \in BOOLEAN /\ replaced' \in BOOLEAN
    BY DEF TypeInv, TypeOK, Quietly
  <1>2. /\ queue' \in [Service -> 0..MaxBundles] /\ wake' \subseteq Service
        /\ thread' \in [Thread -> {"none", "top", "parked", "handling", "closing"}]
        /\ faults' \in 0..MaxFaults
    BY DEF TypeInv, TypeOK, Quietly
  <1>3. queue'["reception"] + queue'["bpecho"] <= queue["reception"] + queue["bpecho"]
    <2>1. queue["reception"] \in Int /\ queue["bpecho"] \in Int
      BY LifecycleAssumption DEF TypeInv, TypeOK, Service
    <2> QED
      BY <2>1 DEF Quietly
  <1> QED
    BY <1>1, <1>2, <1>3, MainIsTyped DEF Respects

\* One fault more.
LEMMA FaultIsTyped ==
  ASSUME TypeInv, Fault \/ UNCHANGED faults
  PROVE  faults' \in 0..MaxFaults
  BY LifecycleAssumption DEF TypeInv, TypeOK, Fault

\* A step of main that may fail.
LEMMA FailingIsTyped ==
  ASSUME TypeInv, MainFrame, Fault \/ UNCHANGED faults, main' \in Place, mem' \in Memory,
         UNCHANGED <<queue, wake, thread, replaced>>, raced' \in BOOLEAN
  PROVE  TypeInv'
  <1>1. replaced' \in BOOLEAN
    BY DEF TypeInv, TypeOK
  <1>2. /\ queue' \in [Service -> 0..MaxBundles] /\ wake' \subseteq Service
        /\ thread' \in [Thread -> {"none", "top", "parked", "handling", "closing"}]
    BY DEF TypeInv, TypeOK
  <1>3. queue'["reception"] + queue'["bpecho"] <= queue["reception"] + queue["bpecho"]
    <2>1. queue["reception"] \in Int /\ queue["bpecho"] \in Int
      BY LifecycleAssumption DEF TypeInv, TypeOK, Service
    <2> QED
      BY <2>1
  <1>4. faults' \in 0..MaxFaults
    BY FaultIsTyped
  <1> QED
    BY <1>1, <1>2, <1>3, <1>4, MainIsTyped DEF Respects

\* pthread_create fills a slot.
LEMMA CreateIsTyped ==
  ASSUME TypeInv, NEW s \in Service, NEW m \in Memory, Create(s, m), main' \in Place
  PROVE  TypeInv'
  <1>1. PICK i \in Slot : /\ thread' = [thread EXCEPT ![<<s, i>>] = "top"]
                          /\ mem' = [m EXCEPT !.started[s] = TRUE, !.handle[s] = i]
    BY Zenon DEF Create
  <1>2. mem' \in Memory
    BY <1>1, ThreadHandleIsTyped, Zenon
  <1>3. thread' \in [Thread -> {"none", "top", "parked", "handling", "closing"}]
    BY <1>1 DEF TypeInv, TypeOK
  <1>4. replaced' \in BOOLEAN /\ raced' \in BOOLEAN
    BY DEF TypeInv, TypeOK, Create
  <1>5. /\ queue' \in [Service -> 0..MaxBundles] /\ wake' \subseteq Service
        /\ faults' \in 0..MaxFaults
    BY DEF TypeInv, TypeOK, Create
  <1>6. queue'["reception"] + queue'["bpecho"] <= queue["reception"] + queue["bpecho"]
    <2>1. queue["reception"] \in Int /\ queue["bpecho"] \in Int
      BY LifecycleAssumption DEF TypeInv, TypeOK, Service
    <2> QED
      BY <2>1 DEF Create
  <1>7. MainFrame
    BY DEF Create
  <1> QED
    BY <1>2, <1>3, <1>4, <1>5, <1>6, <1>7, MainIsTyped DEF Respects


\* The initial states are well-typed.
LEMMA InitTypeInv == Init => TypeInv
  <1> SUFFICES ASSUME Init PROVE TypeInv
    OBVIOUS
  <1>1. mem \in Memory
    BY LoadedIsTyped DEF Init
  <1>2. /\ parkedOn \in [Thread -> Sap]
        /\ thread \in [Thread -> {"none", "top", "parked", "handling", "closing"}]
    BY DEF Init, Sap
  <1>3. requested \in BOOLEAN /\ raced \in BOOLEAN /\ replaced \in BOOLEAN
    BY DEF Init
  <1>4. /\ ion \in {"up", "down"} /\ era \in Era /\ queue \in [Service -> 0..MaxBundles]
        /\ wake \subseteq Service /\ arrived \in 0..MaxBundles
        /\ pending \in 0..MaxSignals /\ sent \in 0..MaxSignals /\ faults \in 0..MaxFaults
    BY LifecycleAssumption DEF Init, Era
  <1>5. Bounded
    BY DEF Init, Bounded, Service
  <1> QED
    BY <1>1, <1>2, <1>3, <1>4, <1>5 DEF Init, TypeInv, TypeOK


\* Every step of main keeps the types.
LEMMA MainKeepsTypes == TypeInv /\ Main => TypeInv'
  <1> SUFFICES ASSUME TypeInv, Main PROVE TypeInv'
    OBVIOUS
  <1>0. /\ mem \in Memory /\ era \in Sap /\ NULL \in Sap
        /\ "reception" \in Service /\ "bpecho" \in Service
    BY DEF TypeInv, TypeOK, Sap, Service
  <1>1. Connect => TypeInv'
    <2> SUFFICES ASSUME Connect PROVE TypeInv'
      OBVIOUS
    <2>1. mem' \in Memory
      BY <1>0, FlagsAreTyped, HandlesAreTyped, Zenon DEF Connect
    <2>2. main' \in Place
      BY DEF Connect, Place
    <2>3. MainFrame /\ Quietly
      BY DEF Connect
    <2> QED
      BY <2>1, <2>2, <2>3, QuietIsTyped
  <1>2. Connected => TypeInv'
    <2> SUFFICES ASSUME Connected PROVE TypeInv'
      OBVIOUS
    <2>1. mem' \in Memory
      BY <1>0, FlagsAreTyped, HandlesAreTyped, Zenon DEF Connected
    <2>2. main' \in Place
      BY DEF Connected, Place
    <2>3. MainFrame /\ Quietly
      BY DEF Connected
    <2> QED
      BY <2>1, <2>2, <2>3, QuietIsTyped
  <1>3. OpenEcho => TypeInv'
    <2> SUFFICES ASSUME OpenEcho PROVE TypeInv'
      OBVIOUS
    <2>1. mem' \in Memory
      BY <1>0, FlagsAreTyped, HandlesAreTyped, Zenon DEF OpenEcho
    <2>2. main' \in Place
      BY DEF OpenEcho, Place
    <2>3. MainFrame /\ Quietly
      BY DEF OpenEcho
    <2> QED
      BY <2>1, <2>2, <2>3, QuietIsTyped
  <1>4. InitReception => TypeInv'
    <2> SUFFICES ASSUME InitReception PROVE TypeInv'
      OBVIOUS
    <2>1. mem' \in Memory
      BY <1>0, FlagsAreTyped, HandlesAreTyped, Zenon DEF InitReception, Looping
    <2>2. main' \in Place
      BY DEF InitReception, Place, Served
    <2>3. MainFrame /\ Quietly
      BY DEF InitReception
    <2> QED
      BY <2>1, <2>2, <2>3, QuietIsTyped
  <1>5. Turn => TypeInv'
    <2> SUFFICES ASSUME Turn PROVE TypeInv'
      OBVIOUS
    <2>1. mem' \in Memory
      BY <1>0, FlagsAreTyped, HandlesAreTyped, Zenon DEF Turn
    <2>2. main' \in Place
      BY DEF Turn, Place
    <2>3. MainFrame /\ Quietly
      BY DEF Turn
    <2> QED
      BY <2>1, <2>2, <2>3, QuietIsTyped
  <1>6. WakeUp => TypeInv'
    <2> SUFFICES ASSUME WakeUp PROVE TypeInv'
      OBVIOUS
    <2>1. mem' \in Memory
      BY <1>0, FlagsAreTyped, HandlesAreTyped, Zenon DEF WakeUp
    <2>2. main' \in Place
      BY DEF WakeUp, Place
    <2>3. MainFrame /\ Quietly
      BY DEF WakeUp
    <2> QED
      BY <2>1, <2>2, <2>3, QuietIsTyped
  <1>7. Exchange => TypeInv'
    <2> SUFFICES ASSUME Exchange PROVE TypeInv'
      OBVIOUS
    <2>1. mem' \in Memory
      BY <1>0, FlagsAreTyped, HandlesAreTyped, Zenon DEF Exchange
    <2>2. main' \in Place
      BY DEF Exchange, Place
    <2>3. MainFrame /\ Quietly
      BY DEF Exchange
    <2> QED
      BY <2>1, <2>2, <2>3, QuietIsTyped
  <1>8. Restart => TypeInv'
    <2> SUFFICES ASSUME Restart PROVE TypeInv'
      OBVIOUS
    <2>1. mem' \in Memory
      BY <1>0, FlagsAreTyped, HandlesAreTyped, Zenon DEF Restart
    <2>2. main' \in Place
      BY DEF Restart, Place
    <2>3. MainFrame /\ Quietly
      BY DEF Restart
    <2> QED
      BY <2>1, <2>2, <2>3, QuietIsTyped
  <1>9. JoinReception => TypeInv'
    <2> SUFFICES ASSUME JoinReception PROVE TypeInv'
      OBVIOUS
    <2>1. mem' \in Memory
      BY <1>0, FlagsAreTyped, HandlesAreTyped, Zenon DEF JoinReception
    <2>2. main' \in Place
      BY DEF JoinReception, Place
    <2>3. MainFrame /\ Quietly
      BY DEF JoinReception
    <2> QED
      BY <2>1, <2>2, <2>3, QuietIsTyped
  <1>10. JoinEcho => TypeInv'
    <2> SUFFICES ASSUME JoinEcho PROVE TypeInv'
      OBVIOUS
    <2>1. mem' \in Memory
      BY <1>0, FlagsAreTyped, HandlesAreTyped, Zenon DEF JoinEcho
    <2>2. main' \in Place
      BY DEF JoinEcho, Place
    <2>3. MainFrame /\ Quietly
      BY DEF JoinEcho
    <2> QED
      BY <2>1, <2>2, <2>3, QuietIsTyped
  <1>11. Close => TypeInv'
    <2> SUFFICES ASSUME Close PROVE TypeInv'
      OBVIOUS
    <2>1. mem' \in Memory
      BY <1>0, FlagsAreTyped, HandlesAreTyped, Zenon DEF Close
    <2>2. main' \in Place
      BY DEF Close, Place
    <2>3. MainFrame /\ Quietly
      BY DEF Close
    <2> QED
      BY <2>1, <2>2, <2>3, QuietIsTyped
  <1>12. ConnectFails => TypeInv'
    <2> SUFFICES ASSUME ConnectFails PROVE TypeInv'
      OBVIOUS
    <2>1. mem' \in Memory
      BY <1>0, FlagsAreTyped, HandlesAreTyped, Zenon DEF ConnectFails
    <2>2. main' \in Place
      BY DEF ConnectFails, Place
    <2>3. MainFrame /\ UNCHANGED <<queue, wake, thread, replaced>> /\ (Fault \/ UNCHANGED faults)
      BY DEF ConnectFails
    <2>4. raced' \in BOOLEAN
      BY DEF ConnectFails, TypeInv, TypeOK
    <2> QED
      BY <2>1, <2>2, <2>3, <2>4, FailingIsTyped
  <1>13. OpenEchoFails => TypeInv'
    <2> SUFFICES ASSUME OpenEchoFails PROVE TypeInv'
      OBVIOUS
    <2>1. mem' \in Memory
      BY <1>0, FlagsAreTyped, HandlesAreTyped, Zenon DEF OpenEchoFails
    <2>2. main' \in Place
      BY DEF OpenEchoFails, Place
    <2>3. MainFrame /\ UNCHANGED <<queue, wake, thread, replaced>> /\ (Fault \/ UNCHANGED faults)
      BY DEF OpenEchoFails
    <2>4. raced' \in BOOLEAN
      BY DEF OpenEchoFails, TypeInv, TypeOK
    <2> QED
      BY <2>1, <2>2, <2>3, <2>4, FailingIsTyped
  <1>14. InitEcho => TypeInv'
    <2> SUFFICES ASSUME InitEcho PROVE TypeInv'
      OBVIOUS
    <2>1. mem' \in Memory
      BY <1>0, FlagsAreTyped, HandlesAreTyped, Zenon DEF InitEcho
    <2>2. main' \in Place
      BY DEF InitEcho, Place
    <2>3. MainFrame /\ UNCHANGED <<queue, wake, thread, replaced>> /\ (Fault \/ UNCHANGED faults)
      BY DEF InitEcho
    <2>4. raced' \in BOOLEAN
      BY DEF InitEcho, TypeInv, TypeOK
    <2> QED
      BY <2>1, <2>2, <2>3, <2>4, FailingIsTyped
  <1>15. CreateEchoFails => TypeInv'
    <2> SUFFICES ASSUME CreateEchoFails PROVE TypeInv'
      OBVIOUS
    <2>1. mem' \in Memory
      BY <1>0, FlagsAreTyped, HandlesAreTyped, Zenon DEF CreateEchoFails
    <2>2. main' \in Place
      BY DEF CreateEchoFails, Place
    <2>3. MainFrame /\ UNCHANGED <<queue, wake, thread, replaced>> /\ (Fault \/ UNCHANGED faults)
      BY DEF CreateEchoFails
    <2>4. raced' \in BOOLEAN
      BY DEF CreateEchoFails, TypeInv, TypeOK
    <2> QED
      BY <2>1, <2>2, <2>3, <2>4, FailingIsTyped
  <1>16. CreateReceptionFails => TypeInv'
    <2> SUFFICES ASSUME CreateReceptionFails PROVE TypeInv'
      OBVIOUS
    <2>1. mem' \in Memory
      BY <1>0, FlagsAreTyped, HandlesAreTyped, Zenon DEF CreateReceptionFails
    <2>2. main' \in Place
      BY DEF CreateReceptionFails, Place
    <2>3. MainFrame /\ UNCHANGED <<queue, wake, thread, replaced>> /\ (Fault \/ UNCHANGED faults)
      BY DEF CreateReceptionFails
    <2>4. raced' \in BOOLEAN
      BY DEF CreateReceptionFails, TypeInv, TypeOK
    <2> QED
      BY <2>1, <2>2, <2>3, <2>4, FailingIsTyped
  <1>17. ExecFails => TypeInv'
    <2> SUFFICES ASSUME ExecFails PROVE TypeInv'
      OBVIOUS
    <2>1. mem' \in Memory
      BY <1>0, FlagsAreTyped, HandlesAreTyped, Zenon DEF ExecFails
    <2>2. main' \in Place
      BY DEF ExecFails, Place
    <2>3. MainFrame /\ UNCHANGED <<queue, wake, thread, replaced>> /\ (Fault \/ UNCHANGED faults)
      BY DEF ExecFails
    <2>4. raced' \in BOOLEAN
      BY DEF ExecFails, TypeInv, TypeOK
    <2> QED
      BY <2>1, <2>2, <2>3, <2>4, FailingIsTyped
  <1>18. CreateEcho => TypeInv'
    <2> SUFFICES ASSUME CreateEcho PROVE TypeInv'
      OBVIOUS
    <2>1. mem \in Memory
      BY <1>0, FlagsAreTyped, HandlesAreTyped, Zenon DEF Looping
    <2>2. main' \in Place
      BY DEF CreateEcho, Served, Place
    <2>3. Create("bpecho", mem)
      BY DEF CreateEcho
    <2> QED
      BY <1>0, <2>1, <2>2, <2>3, CreateIsTyped
  <1>19. CreateReception => TypeInv'
    <2> SUFFICES ASSUME CreateReception PROVE TypeInv'
      OBVIOUS
    <2>1. Looping \in Memory
      BY <1>0, FlagsAreTyped, HandlesAreTyped, Zenon DEF Looping
    <2>2. main' \in Place
      BY DEF CreateReception, Served, Place
    <2>3. Create("reception", Looping)
      BY DEF CreateReception
    <2> QED
      BY <1>0, <2>1, <2>2, <2>3, CreateIsTyped
  <1>20. Exec => TypeInv'
    <2> SUFFICES ASSUME Exec PROVE TypeInv'
      OBVIOUS
    <2>1. requested' \in BOOLEAN /\ raced' \in BOOLEAN /\ replaced' \in BOOLEAN
      BY DEF TypeInv, TypeOK, Exec
    <2>2. mem' \in Memory
      BY LoadedIsTyped DEF Exec
    <2>3. /\ thread' \in [Thread -> {"none", "top", "parked", "handling", "closing"}]
          /\ parkedOn' \in [Thread -> Sap]
      BY <1>0 DEF Exec
    <2>4. Bounded'
      BY DEF TypeInv, Bounded, Exec, env
    <2> QED
      BY <2>1, <2>2, <2>3, <2>4 DEF TypeInv, TypeOK, Exec, env
  <1>21. CheckIonStatus => TypeInv'
    <2> SUFFICES ASSUME CheckIonStatus PROVE TypeInv'
      OBVIOUS
    <2>1. mem' \in Memory
      BY <1>0, FlagsAreTyped, HandlesAreTyped, Zenon DEF CheckIonStatus
    <2>2. main' \in Place
      BY DEF CheckIonStatus, Place
    <2>3. raced' \in BOOLEAN /\ replaced' \in BOOLEAN
      BY DEF CheckIonStatus, TypeInv, TypeOK
    <2>4. queue' \in [Service -> 0..MaxBundles]
      BY <1>0, LifecycleAssumption DEF CheckIonStatus, TypeInv, TypeOK
    <2>5. queue'["reception"] + queue'["bpecho"] <= queue["reception"] + queue["bpecho"]
      BY <1>0, LifecycleAssumption DEF CheckIonStatus, TypeInv, TypeOK, Service
    <2>6. wake' \subseteq Service /\ faults' \in 0..MaxFaults
      BY DEF CheckIonStatus, TypeInv, TypeOK
    <2>7. thread' \in [Thread -> {"none", "top", "parked", "handling", "closing"}]
      BY DEF CheckIonStatus, TypeInv, TypeOK
    <2>8. MainFrame
      BY DEF CheckIonStatus
    <2> QED
      BY <2>1, <2>2, <2>3, <2>4, <2>5, <2>6, <2>7, <2>8, MainIsTyped DEF Respects
  <1>22. Stop => TypeInv'
    <2> SUFFICES ASSUME Stop PROVE TypeInv'
      OBVIOUS
    <2>1. mem' \in Memory
      BY <1>0, FlagsAreTyped, HandlesAreTyped, Zenon DEF Stop
    <2>2. main' \in Place
      BY DEF Stop, Place
    <2>3. raced' \in BOOLEAN /\ replaced' \in BOOLEAN
      BY DEF Stop, TypeInv, TypeOK
    <2>4. queue' \in [Service -> 0..MaxBundles] /\ queue' = queue
      BY DEF Stop, TypeInv, TypeOK
    <2>5. queue'["reception"] + queue'["bpecho"] <= queue["reception"] + queue["bpecho"]
      BY <1>0, <2>4, LifecycleAssumption DEF TypeInv, TypeOK
    <2>6. wake' \subseteq Service /\ faults' \in 0..MaxFaults
      BY <1>0 DEF Stop, Interrupt, TypeInv, TypeOK
    <2>7. thread' \in [Thread -> {"none", "top", "parked", "handling", "closing"}]
      BY DEF Stop, TypeInv, TypeOK
    <2>8. MainFrame
      BY DEF Stop
    <2> QED
      BY <2>1, <2>2, <2>3, <2>4, <2>5, <2>6, <2>7, <2>8, MainIsTyped DEF Respects
  <1> QED
    BY <1>1, <1>2, <1>3, <1>4, <1>5, <1>6, <1>7, <1>8, <1>9, <1>10, <1>11, <1>12, <1>13,
       <1>14, <1>15, <1>16, <1>17, <1>18, <1>19, <1>20, <1>21, <1>22 DEF Main

\* Every step of a service thread keeps the types.
LEMMA StepKeepsTypes ==
  ASSUME TypeInv, NEW t \in Thread, Step(t)
  PROVE  TypeInv'
  <1>0. /\ mem \in Memory /\ NULL \in Sap /\ t[1] \in Service
        /\ "reception" \in Service /\ "bpecho" \in Service
    BY DEF TypeInv, TypeOK, Sap, Service, Thread
  <1>1. ServiceFrame
    BY DEF Step, Receive, Delivered, Interrupted, Fails, Handled, Closes
  <1>2. mem' \in Memory
    <2>1. CASE Fails(t)
      <3>1. CASE mem' = [mem EXCEPT !.serving[t[1]] = @ /\ t[1] = "reception" /\ ~mem.running]
        <4>1. DEFINE b == mem.serving[t[1]] /\ t[1] = "reception" /\ ~mem.running
        <4>2. b \in BOOLEAN
          OBVIOUS
        <4>3. mem' = [mem EXCEPT !.serving[t[1]] = b]
          BY <1>0, <3>1 DEF Memory
        <4> HIDE DEF b
        <4> QED
          BY <1>0, <4>2, <4>3, ServingIsTyped
      <3>2. CASE /\ t[1] = "reception"
                 /\ mem' = [mem EXCEPT !.serving[t[1]] = FALSE, !.running = FALSE]
        BY <1>0, <3>2, FlagsAreTyped, Zenon
      <3> QED
        BY <2>1, <3>1, <3>2 DEF Fails
    <2>2. CASE Closes(t)
      BY <1>0, <2>2, HandlesAreTyped, Zenon DEF Closes
    <2>3. CASE Receive(t) \/ Delivered(t) \/ Interrupted(t) \/ Handled(t)
      BY <1>0, <2>3 DEF Receive, Delivered, Interrupted, Handled
    <2> QED
      BY <2>1, <2>2, <2>3 DEF Step
  <1>3. thread' \in [Thread -> {"none", "top", "parked", "handling", "closing"}]
    BY DEF TypeInv, TypeOK, Step, Receive, Delivered, Interrupted, Fails, Handled, Closes, Goes,
           Leaving
  <1>4. parkedOn' \in [Thread -> Sap]
    <2>1. mem.sap[t[1]] \in Sap
      BY <1>0 DEF Memory
    <2> QED
      BY <1>0, <2>1
      DEF TypeInv, TypeOK, Step, Receive, Delivered, Interrupted, Fails, Handled, Closes
  <1>5. wake' \subseteq Service
    BY DEF TypeInv, TypeOK, Step, Receive, Delivered, Interrupted, Fails, Handled, Closes
  <1>6. queue' \in [Service -> 0..MaxBundles] /\ Bounded'
    <2>1. CASE Delivered(t)
      <3>1. /\ queue[t[1]] > 0
            /\ queue' = [queue EXCEPT ![t[1]] = @ - 1]
        BY <2>1 DEF Delivered
      <3>2. queue \in [Service -> 0..MaxBundles] /\ MaxBundles \in Nat /\ arrived \in Nat
        BY LifecycleAssumption DEF TypeInv, TypeOK
      <3>3. queue' \in [Service -> 0..MaxBundles]
        BY <1>0, <3>1, <3>2
      <3>4. queue'["reception"] + queue'["bpecho"] <= arrived
        BY <1>0, <3>1, <3>2 DEF TypeInv, Bounded, Service
      <3> QED
        BY <1>1, <3>3, <3>4 DEF TypeInv, Bounded, ServiceFrame
    <2>2. CASE UNCHANGED queue
      BY <1>1, <2>2 DEF TypeInv, TypeOK, Bounded, ServiceFrame
    <2> QED
      BY <2>1, <2>2 DEF Step, Receive, Interrupted, Fails, Handled, Closes
  <1>7. requested' \in BOOLEAN /\ raced' \in BOOLEAN /\ replaced' \in BOOLEAN
    BY <1>1 DEF TypeInv, TypeOK, ServiceFrame, history
  <1> QED
    BY <1>1, <1>2, <1>3, <1>4, <1>5, <1>6, <1>7 DEF TypeInv, TypeOK, ServiceFrame

\* Every step of the signal thread keeps the types.
LEMMA SignallerKeepsTypes == TypeInv /\ Signaller => TypeInv'
  <1> SUFFICES ASSUME TypeInv, Signaller PROVE TypeInv'
    OBVIOUS
  <1>0. mem \in Memory /\ "reception" \in Service /\ "bpecho" \in Service
    BY DEF TypeInv, TypeOK, Service
  <1>1. SignalFrame
    BY DEF Signaller, Collect, LowerEcho, LowerReception, WakeReception, WakeEcho
  <1>2. mem' \in Memory
    BY <1>0, FlagsAreTyped, Zenon
    DEF Signaller, Collect, LowerEcho, LowerReception, WakeReception, WakeEcho
  <1>3. wake' \subseteq Service
    BY <1>0
    DEF TypeInv, TypeOK, Signaller, Collect, LowerEcho, LowerReception, WakeReception, WakeEcho,
        Interrupt
  <1>4. /\ main' \in Place
        /\ signaller' \in {"wait", "lowerEcho", "lowerReception", "wakeReception", "wakeEcho"}
    BY DEF TypeInv, TypeOK, Place, Signaller, Collect, LowerEcho, LowerReception, WakeReception,
           WakeEcho
  <1>5. requested' \in BOOLEAN
    BY DEF TypeInv, TypeOK, Signaller, Collect, LowerEcho, LowerReception, WakeReception, WakeEcho
  <1>6. pending' \in 0..MaxSignals /\ pending' <= pending
    BY LifecycleAssumption
    DEF TypeInv, TypeOK, Signaller, Collect, LowerEcho, LowerReception, WakeReception, WakeEcho
  <1>7. raced' \in BOOLEAN /\ replaced' \in BOOLEAN
    BY <1>1 DEF TypeInv, TypeOK, SignalFrame
  <1>8. Bounded'
    <2>1. pending \in Int /\ sent \in Int
      BY DEF TypeInv, TypeOK
    <2> QED
      BY <1>1, <1>6, <2>1 DEF TypeInv, Bounded, SignalFrame
  <1> QED
    BY <1>1, <1>2, <1>3, <1>4, <1>5, <1>6, <1>7, <1>8 DEF TypeInv, TypeOK, SignalFrame, Place

\* Signals, bundles and ION's stops and starts keep the types.
LEMMA WorldKeepsTypes == TypeInv /\ World => TypeInv'
  <1> SUFFICES ASSUME TypeInv, World PROVE TypeInv'
    OBVIOUS
  <1>0. /\ requested' \in BOOLEAN /\ raced' \in BOOLEAN /\ replaced' \in BOOLEAN
        /\ mem' \in Memory
    BY DEF TypeInv, TypeOK, World, Signalled, Arrives, IonStops, IonStarts, WorldFrame, history
  <1>1. CASE Signalled
    BY <1>0, <1>1, LifecycleAssumption DEF TypeInv, TypeOK, Bounded, Signalled, env
  <1>2. ASSUME NEW s \in Service, Arrives(s) PROVE TypeInv'
    <2>1. /\ queue \in [Service -> 0..MaxBundles] /\ MaxBundles \in Nat
          /\ arrived \in 0..MaxBundles
          /\ queue["reception"] + queue["bpecho"] <= arrived
      BY LifecycleAssumption DEF TypeInv, TypeOK, Bounded
    <2>2. /\ arrived < MaxBundles /\ arrived' = arrived + 1
          /\ queue' = [queue EXCEPT ![s] = @ + 1]
      BY <1>2 DEF Arrives
    <2>3. queue' \in [Service -> 0..MaxBundles]
      BY <2>1, <2>2 DEF Service
    <2>4. /\ queue'["reception"] + queue'["bpecho"] <= arrived'
          /\ arrived' \in 0..MaxBundles
      BY <2>1, <2>2 DEF Service
    <2> QED
      BY <1>0, <1>2, <2>3, <2>4 DEF TypeInv, TypeOK, Bounded, Arrives, WorldFrame
  <1>3. CASE IonStops
    BY <1>0, <1>3, LifecycleAssumption DEF TypeInv, TypeOK, Bounded, IonStops, WorldFrame, Era
  <1>4. CASE IonStarts
    BY <1>0, <1>4 DEF TypeInv, TypeOK, Bounded, IonStarts, WorldFrame
  <1> QED
    BY <1>1, <1>2, <1>3, <1>4 DEF World

\* A step of something else keeps the types.
LEMMA StutterKeepsTypes == TypeInv /\ UNCHANGED vars => TypeInv'
  BY DEF TypeInv, TypeOK, Bounded, vars, env, history

\* Every reachable state of the process, of its threads and of ION is well-typed:
\* TypeOK of Lifecycle, for any number of signals, bundles, outages and faults.
THEOREM TypeCorrect == Spec => []TypeOK
  <1>1. Init => TypeInv
    BY InitTypeInv
  <1>2. TypeInv /\ [Next]_vars => TypeInv'
    BY MainKeepsTypes, StepKeepsTypes, SignallerKeepsTypes, WorldKeepsTypes, StutterKeepsTypes
    DEF Next
  <1>3. TypeInv => TypeOK
    BY DEF TypeInv
  <1> QED
    BY <1>1, <1>2, <1>3, PTL DEF Spec

-----------------------------------------------------------------------------
(* The teardown.  While no thread has been replaced, the only threads are  *)
(* those whose handles main holds and has marked as started, so that a     *)
(* join that returns, or that is skipped, leaves nobody behind.            *)

\* Nobody of service s is at work.
Quiet(s) == \A i \in Slot : ~Busy(<<s, i>>)

\* Each thread at work is the one main would join.
OnlyTheHandle ==
  \A s \in Service, i \in Slot : Busy(<<s, i>>) => mem.started[s] /\ i = mem.handle[s]

\* What each stage of the teardown leaves ended.
EndedSoFar ==
  /\ main \in {"joinEcho", "close"} => Quiet("reception")
  /\ main = "close" => Quiet("bpecho")

TeardownInv == ~replaced => OnlyTheHandle /\ EndedSoFar

\* Initially there is no thread.
LEMMA InitTeardownInv == Init => TeardownInv
  BY DEF Init, TeardownInv, OnlyTheHandle, EndedSoFar, Busy, Thread

\* A step that starts no thread, keeps every started one's handle and does not
\* advance the teardown.
LEMMA NothingStarts ==
  ASSUME TypeInv, TeardownInv,
         replaced' = replaced,
         \A s \in Service, i \in Slot : Busy(<<s, i>>)' => Busy(<<s, i>>),
         mem'.started = mem.started, mem'.handle = mem.handle,
         main' = main \/ main' \notin {"joinEcho", "close"}
  PROVE  TeardownInv'
  <1> SUFFICES ASSUME ~replaced' PROVE OnlyTheHandle' /\ EndedSoFar'
    BY DEF TeardownInv
  <1>1. OnlyTheHandle /\ EndedSoFar
    BY DEF TeardownInv, TypeInv, TypeOK
  <1>2. OnlyTheHandle'
    BY <1>1 DEF OnlyTheHandle
  <1>3. \A s \in Service : Quiet(s) => Quiet(s)'
    BY DEF Quiet
  <1>4. EndedSoFar'
    BY <1>1, <1>3 DEF EndedSoFar, Service
  <1> QED
    BY <1>2, <1>4

\* pthread_create.
LEMMA CreateKeepsTeardown ==
  ASSUME TypeInv, TeardownInv, NEW s \in Service, NEW m \in Memory, Create(s, m),
         m.started = mem.started, m.handle = mem.handle, main' \notin {"joinEcho", "close"}
  PROVE  TeardownInv'
  <1> SUFFICES ASSUME ~replaced' PROVE OnlyTheHandle' /\ EndedSoFar'
    BY DEF TeardownInv
  <1>1. PICK i \in Slot : /\ thread' = [thread EXCEPT ![<<s, i>>] = "top"]
                          /\ mem' = [m EXCEPT !.started[s] = TRUE, !.handle[s] = i]
    BY Zenon DEF Create
  <1>2. ~replaced /\ \A j \in Slot : ~Busy(<<s, j>>)
    BY DEF Create, TypeInv, TypeOK
  <1>3. OnlyTheHandle
    BY <1>2 DEF TeardownInv
  <1>4. ASSUME NEW r \in Service, NEW j \in Slot, Busy(<<r, j>>)'
        PROVE  mem'.started[r] /\ j = mem'.handle[r]
    <2>1. CASE r = s
      <3>1. j = i
        BY <1>1, <1>2, <1>4, <2>1 DEF Busy, TypeInv, TypeOK, Thread
      <3>2. mem'.started[s] = TRUE /\ mem'.handle[s] = i
        BY <1>1 DEF Memory
      <3> QED
        BY <2>1, <3>1, <3>2
    <2>2. CASE r # s
      <3>1. Busy(<<r, j>>)
        BY <1>1, <1>4, <2>2 DEF Busy, TypeInv, TypeOK, Thread
      <3>2. mem.started[r] /\ j = mem.handle[r]
        BY <1>3, <3>1 DEF OnlyTheHandle
      <3>3. mem'.started[r] = m.started[r] /\ mem'.handle[r] = m.handle[r]
        BY <1>1, <2>2 DEF Memory
      <3> QED
        BY <3>2, <3>3
    <2> QED
      BY <2>1, <2>2
  <1> QED
    BY <1>4 DEF OnlyTheHandle, EndedSoFar

\* Every step of main: its joins wait for the threads the handles name.
LEMMA MainKeepsTeardown == TypeInv /\ TeardownInv /\ Main => TeardownInv'
  <1> SUFFICES ASSUME TypeInv, TeardownInv, Main PROVE TeardownInv'
    OBVIOUS
  <1>0. mem \in Memory /\ "reception" \in Service /\ "bpecho" \in Service
    BY DEF TypeInv, TypeOK, Service
  <1>1. CASE Connect
    <2>1. mem'.started = mem.started /\ mem'.handle = mem.handle
      BY <1>0, <1>1 DEF Connect, Memory
    <2>2. thread' = thread /\ replaced' = replaced /\ main' \notin {"joinEcho", "close"}
      BY <1>1 DEF Connect, MainFrame, Quietly
    <2> QED
      BY <2>1, <2>2, NothingStarts DEF Busy
  <1>2. CASE ConnectFails
    <2>1. mem'.started = mem.started /\ mem'.handle = mem.handle
      BY <1>0, <1>2 DEF ConnectFails, Memory
    <2>2. thread' = thread /\ replaced' = replaced /\ main' \notin {"joinEcho", "close"}
      BY <1>2 DEF ConnectFails, MainFrame
    <2> QED
      BY <2>1, <2>2, NothingStarts DEF Busy
  <1>3. CASE Connected
    <2>1. mem'.started = mem.started /\ mem'.handle = mem.handle
      BY <1>0, <1>3 DEF Connected, Memory
    <2>2. thread' = thread /\ replaced' = replaced /\ main' \notin {"joinEcho", "close"}
      BY <1>3 DEF Connected, MainFrame, Quietly
    <2> QED
      BY <2>1, <2>2, NothingStarts DEF Busy
  <1>4. CASE OpenEcho
    <2>1. mem'.started = mem.started /\ mem'.handle = mem.handle
      BY <1>0, <1>4 DEF OpenEcho, Memory
    <2>2. thread' = thread /\ replaced' = replaced /\ main' \notin {"joinEcho", "close"}
      BY <1>4 DEF OpenEcho, MainFrame, Quietly
    <2> QED
      BY <2>1, <2>2, NothingStarts DEF Busy
  <1>5. CASE OpenEchoFails
    <2>1. mem'.started = mem.started /\ mem'.handle = mem.handle
      BY <1>0, <1>5 DEF OpenEchoFails, Memory
    <2>2. thread' = thread /\ replaced' = replaced /\ main' \notin {"joinEcho", "close"}
      BY <1>5 DEF OpenEchoFails, MainFrame
    <2> QED
      BY <2>1, <2>2, NothingStarts DEF Busy
  <1>6. CASE InitEcho
    <2>1. mem'.started = mem.started /\ mem'.handle = mem.handle
      BY <1>0, <1>6 DEF InitEcho, Memory
    <2>2. thread' = thread /\ replaced' = replaced /\ main' \notin {"joinEcho", "close"}
      BY <1>6 DEF InitEcho, MainFrame
    <2> QED
      BY <2>1, <2>2, NothingStarts DEF Busy
  <1>7. CASE CreateEchoFails
    <2>1. mem'.started = mem.started /\ mem'.handle = mem.handle
      BY <1>0, <1>7 DEF CreateEchoFails, Memory
    <2>2. thread' = thread /\ replaced' = replaced /\ main' \notin {"joinEcho", "close"}
      BY <1>7 DEF CreateEchoFails, MainFrame
    <2> QED
      BY <2>1, <2>2, NothingStarts DEF Busy
  <1>8. CASE InitReception
    <2>1. mem'.started = mem.started /\ mem'.handle = mem.handle
      BY <1>0, <1>8 DEF InitReception, Memory, Looping
    <2>2. thread' = thread /\ replaced' = replaced /\ main' \notin {"joinEcho", "close"}
      BY <1>8 DEF InitReception, MainFrame, Quietly, Looping, Served
    <2> QED
      BY <2>1, <2>2, NothingStarts DEF Busy
  <1>9. CASE CreateReceptionFails
    <2>1. mem'.started = mem.started /\ mem'.handle = mem.handle
      BY <1>0, <1>9 DEF CreateReceptionFails, Memory
    <2>2. thread' = thread /\ replaced' = replaced /\ main' \notin {"joinEcho", "close"}
      BY <1>9 DEF CreateReceptionFails, MainFrame
    <2> QED
      BY <2>1, <2>2, NothingStarts DEF Busy
  <1>10. CASE Turn
    <2>1. mem'.started = mem.started /\ mem'.handle = mem.handle
      BY <1>0, <1>10 DEF Turn, Memory
    <2>2. thread' = thread /\ replaced' = replaced /\ main' \notin {"joinEcho", "close"}
      BY <1>10 DEF Turn, MainFrame, Quietly
    <2> QED
      BY <2>1, <2>2, NothingStarts DEF Busy
  <1>11. CASE CheckIonStatus
    <2>1. mem'.started = mem.started /\ mem'.handle = mem.handle
      BY <1>0, <1>11 DEF CheckIonStatus, Memory
    <2>2. thread' = thread /\ replaced' = replaced /\ main' \notin {"joinEcho", "close"}
      BY <1>11 DEF CheckIonStatus, MainFrame
    <2> QED
      BY <2>1, <2>2, NothingStarts DEF Busy
  <1>12. CASE WakeUp
    <2>1. mem'.started = mem.started /\ mem'.handle = mem.handle
      BY <1>0, <1>12 DEF WakeUp, Memory
    <2>2. thread' = thread /\ replaced' = replaced /\ main' \notin {"joinEcho", "close"}
      BY <1>12 DEF WakeUp, MainFrame, Quietly
    <2> QED
      BY <2>1, <2>2, NothingStarts DEF Busy
  <1>13. CASE Exchange
    <2>1. mem'.started = mem.started /\ mem'.handle = mem.handle
      BY <1>0, <1>13 DEF Exchange, Memory
    <2>2. thread' = thread /\ replaced' = replaced /\ main' \notin {"joinEcho", "close"}
      BY <1>13 DEF Exchange, MainFrame, Quietly
    <2> QED
      BY <2>1, <2>2, NothingStarts DEF Busy
  <1>14. CASE Restart
    <2>1. mem'.started = mem.started /\ mem'.handle = mem.handle
      BY <1>0, <1>14 DEF Restart, Memory
    <2>2. thread' = thread /\ replaced' = replaced /\ main' \notin {"joinEcho", "close"}
      BY <1>14 DEF Restart, MainFrame, Quietly
    <2> QED
      BY <2>1, <2>2, NothingStarts DEF Busy
  <1>15. CASE ExecFails
    <2>1. mem'.started = mem.started /\ mem'.handle = mem.handle
      BY <1>0, <1>15 DEF ExecFails, Memory
    <2>2. thread' = thread /\ replaced' = replaced /\ main' \notin {"joinEcho", "close"}
      BY <1>15 DEF ExecFails, MainFrame
    <2> QED
      BY <2>1, <2>2, NothingStarts DEF Busy
  <1>16. CASE CreateEcho
    <2>1. mem \in Memory /\ mem.started = mem.started /\ mem.handle = mem.handle
      BY <1>0, FlagsAreTyped, Zenon DEF Looping, Memory
    <2>2. Create("bpecho", mem) /\ main' \notin {"joinEcho", "close"}
      BY <1>16 DEF CreateEcho, Served
    <2> QED
      BY <1>0, <2>1, <2>2, CreateKeepsTeardown
  <1>17. CASE CreateReception
    <2>1. Looping \in Memory /\ Looping.started = mem.started /\ Looping.handle = mem.handle
      BY <1>0, FlagsAreTyped, Zenon DEF Looping, Memory
    <2>2. Create("reception", Looping) /\ main' \notin {"joinEcho", "close"}
      BY <1>17 DEF CreateReception, Served
    <2> QED
      BY <1>0, <2>1, <2>2, CreateKeepsTeardown
  <1>18. CASE Exec
    BY <1>18 DEF Exec, TeardownInv, OnlyTheHandle, EndedSoFar, Busy, Thread
  <1>19. CASE Stop
    <2>1. thread' = thread /\ replaced' = replaced
      BY <1>19 DEF Stop
    <2>2. CASE mem.started["reception"]
      <3>1. mem'.started = mem.started /\ mem'.handle = mem.handle
        BY <1>0, <1>19, <2>2 DEF Stop, Memory
      <3>2. main' \notin {"joinEcho", "close"}
        BY <1>19, <2>2 DEF Stop
      <3> QED
        BY <2>1, <3>1, <3>2, NothingStarts DEF Busy
    <2>3. CASE ~mem.started["reception"]
      <3>1. mem' = mem /\ main' = "joinEcho"
        BY <1>19, <2>3 DEF Stop
      <3> QED
        BY <1>0, <2>1, <2>3, <3>1 DEF TeardownInv, OnlyTheHandle, EndedSoFar, Quiet, Busy
    <2> QED
      BY <2>2, <2>3
  <1>20. CASE JoinReception
    BY <1>0, <1>20
    DEF JoinReception, Quietly, Ended, TeardownInv, OnlyTheHandle, EndedSoFar, Quiet, Busy
  <1>21. CASE JoinEcho
    BY <1>0, <1>21
    DEF JoinEcho, Quietly, Ended, TeardownInv, OnlyTheHandle, EndedSoFar, Quiet, Busy
  <1>22. CASE Close
    <2>1. mem'.started = mem.started /\ mem'.handle = mem.handle
      BY <1>0, <1>22 DEF Close, Memory
    <2>2. thread' = thread /\ replaced' = replaced /\ main' \notin {"joinEcho", "close"}
      BY <1>22 DEF Close, Quietly
    <2> QED
      BY <2>1, <2>2, NothingStarts DEF Busy
  <1> QED
    BY <1>1, <1>2, <1>3, <1>4, <1>5, <1>6, <1>7, <1>8, <1>9, <1>10, <1>11, <1>12, <1>13,
       <1>14, <1>15, <1>16, <1>17, <1>18, <1>19, <1>20, <1>21, <1>22 DEF Main

\* Every step of a service thread: it neither starts another nor advances main.
LEMMA StepKeepsTeardown ==
  ASSUME TypeInv, TeardownInv, NEW t \in Thread, Step(t)
  PROVE  TeardownInv'
  <1>1. mem'.started = mem.started /\ mem'.handle = mem.handle
    BY DEF TypeInv, TypeOK, Memory, Step, Receive, Delivered, Interrupted, Fails, Handled, Closes
  <1>2. main' = main /\ replaced' = replaced
    BY DEF Step, Receive, Delivered, Interrupted, Fails, Handled, Closes, ServiceFrame, history
  <1>3. PICK label : Goes(t, label)
    BY DEF Step, Receive, Delivered, Interrupted, Fails, Handled, Closes
  <1>4. thread[t] # "none"
    BY DEF Step, Receive, Delivered, Interrupted, Fails, Handled, Closes
  <1>5. ASSUME NEW s \in Service, NEW i \in Slot, Busy(<<s, i>>)' PROVE Busy(<<s, i>>)
    BY <1>3, <1>4, <1>5 DEF TypeInv, TypeOK, Goes, Busy, Thread
  <1> QED
    BY <1>1, <1>2, <1>5, NothingStarts

\* Every step of the signal thread and of the world outside.
LEMMA OthersKeepTeardown ==
  ASSUME TypeInv, TeardownInv, Signaller \/ World \/ UNCHANGED vars
  PROVE  TeardownInv'
  <1>1. mem'.started = mem.started /\ mem'.handle = mem.handle
    BY DEF TypeInv, TypeOK, Memory, Signaller, Collect, LowerEcho, LowerReception, WakeReception,
           WakeEcho, World, Signalled, Arrives, IonStops, IonStarts, WorldFrame, vars
  <1>2. thread' = thread /\ replaced' = replaced
    BY DEF Signaller, Collect, LowerEcho, LowerReception, WakeReception, WakeEcho, SignalFrame,
           World, Signalled, Arrives, IonStops, IonStarts, WorldFrame, vars, history
  <1>3. main' = main \/ main' = "killed"
    BY DEF Signaller, Collect, LowerEcho, LowerReception, WakeReception, WakeEcho,
           World, Signalled, Arrives, IonStops, IonStarts, WorldFrame, vars
  <1> QED
    BY <1>1, <1>2, <1>3, NothingStarts DEF Busy

\* "Cleanup is performed by main ... outside any SDR transaction": when main closes
\* the endpoint no service thread is at work, unless a thread was started before
\* the last one of its service had ended.
THEOREM TeardownIsSafe == Spec => []TeardownIsOutsideUnlessReplaced
  <1>1. Init => TypeInv /\ TeardownInv
    BY InitTypeInv, InitTeardownInv
  <1>2. TypeInv /\ TeardownInv /\ [Next]_vars => TypeInv' /\ TeardownInv'
    BY MainKeepsTypes, StepKeepsTypes, SignallerKeepsTypes, WorldKeepsTypes, StutterKeepsTypes,
       MainKeepsTeardown, StepKeepsTeardown, OthersKeepTeardown
    DEF Next
  <1>3. TypeInv /\ TeardownInv => TeardownIsOutsideUnlessReplaced
    BY DEF TeardownInv, EndedSoFar, Quiet, TeardownIsOutsideUnlessReplaced, TeardownIsOutside,
           Thread, Service
  <1> QED
    BY <1>1, <1>2, <1>3, PTL DEF Spec
-----------------------------------------------------------------------------
(* The wake-ups.  A thread that waits on an endpoint of this run of ION is *)
(* one the process still knows of: the endpoint it waits on is the one an  *)
(* interrupt would reach, and the process is connected.  So neither the    *)
(* signal thread nor main finds its wake-up disabled by a condition that   *)
(* belongs to another run of ION.                                          *)

\* A thread of service s waits for ION as it now runs.
Waits(s, i) == thread[<<s, i>>] = "parked" /\ Live(parkedOn[<<s, i>>])

\* The process holds a handle of service s that ION would still accept.
Holds(s) == Live(mem.sap[s]) \/ \E i \in Slot : Waits(s, i)

\* No handle is of a run of ION that has not begun.
Opened(h) == h # NULL => h < era \/ (h = era /\ ion = "up")

HandlesAreOpened ==
  /\ \A s \in Service : Opened(mem.sap[s])
  /\ \A t \in Thread : Opened(parkedOn[t])

\* Who holds a valid handle is connected, but for the step between bp_open and
\* the flag, at which only the reception thread can already use the handle.
ConnectedWhileHolding ==
  /\ main = "connect" => ~mem.ionConnected
  /\ main = "openEcho" => mem.ionConnected
  /\ \A s \in Service : Holds(s) =>
       \/ Gone
       \/ /\ mem.sap["reception"] = era
          /\ mem.ionConnected \/ (s = "reception" /\ main = "connected")

\* bpecho's handle is the one its thread waits on, so WakeEcho reaches it.
EchoCanBeWoken == \A i \in Slot : Waits("bpecho", i) => mem.sap["bpecho"] = era

Woken(s) == s \in wake \/ queue[s] > 0

\* The signal was collected and nothing has undone it.
Ending == requested /\ ~raced /\ ~Gone

\* What the signal thread has done so far: the flag is down, the thread woken.
EchoIsTold ==
  Ending =>
    /\ signaller # "lowerEcho" => ~mem.serving["bpecho"]
    /\ signaller = "wait" => \A i \in Slot : Waits("bpecho", i) => Woken("bpecho")

\* What main has done when it joins the reception thread.
ReceptionIsTold ==
  main = "joinReception" =>
    /\ ~mem.serving["reception"]
    /\ \A i \in Slot : Waits("reception", i) => Woken("reception")

WakeInv ==
  /\ HandlesAreOpened
  /\ ConnectedWhileHolding
  /\ ~replaced => EchoCanBeWoken /\ EchoIsTold /\ ReceptionIsTold

\* Initially no handle is open and no thread runs.
LEMMA InitWakeInv == Init => WakeInv
  <1> SUFFICES ASSUME Init PROVE WakeInv
    OBVIOUS
  <1>1. /\ \A s \in Service : mem.sap[s] = NULL
        /\ \A t \in Thread : parkedOn[t] = NULL /\ thread[t] = "none"
        /\ ~mem.ionConnected /\ main = "connect" /\ ~requested
    BY DEF Init, Loaded
  <1>2. era # NULL /\ \A s \in Service, i \in Slot : <<s, i>> \in Thread
    BY LifecycleAssumption DEF Init, Thread
  <1>3. \A s \in Service : ~Holds(s) /\ \A i \in Slot : ~Waits(s, i)
    <2>1. ASSUME NEW s \in Service, NEW i \in Slot PROVE ~Waits(s, i)
      BY <1>1, <1>2 DEF Waits
    <2>2. ASSUME NEW s \in Service PROVE ~Live(mem.sap[s])
      BY <1>1, <1>2 DEF Live
    <2> QED
      BY <2>1, <2>2 DEF Holds
  <1> QED
    BY <1>1, <1>3 DEF WakeInv, HandlesAreOpened, Opened, ConnectedWhileHolding, EchoCanBeWoken,
       EchoIsTold, Ending, ReceptionIsTold, Service

\* A handle stays opened, and what waits or holds one, while ION runs on.
LEMMA SameIon ==
  ASSUME TypeInv, UNCHANGED <<ion, era>>
  PROVE  /\ \A h \in Sap : Live(h)' = Live(h) /\ Opened(h)' = Opened(h)
         /\ \A s \in Service : mem.sap[s] \in Sap
         /\ \A s \in Service, i \in Slot : parkedOn[<<s, i>>] \in Sap
  BY DEF Live, Opened, TypeInv, TypeOK, Memory, Thread

\* What most steps of main respect: they open and close no endpoint, park no
\* thread, disconnect from nothing and leave bpecho as the signal thread left it.
Calm ==
  /\ ~Gone
  /\ UNCHANGED <<ion, era, signaller, parkedOn, requested>>
  /\ mem'.sap = mem.sap
  /\ mem.ionConnected => mem'.ionConnected
  /\ main' \notin {"connect", "connected", "joinReception"}
  /\ main' = "openEcho" => mem'.ionConnected
  /\ main = "connected" => mem'.ionConnected
  /\ \A t \in Thread : thread'[t] = "parked" => thread[t] = "parked"
  /\ wake \subseteq wake' /\ queue'["bpecho"] = queue["bpecho"]
  /\ raced => raced'
  /\ replaced => replaced'
  /\ mem'.serving["bpecho"] =>
       mem.serving["bpecho"] \/ raced' \/ ~requested \/ signaller = "lowerEcho"

\* Such a step undoes no wake-up.
LEMMA CalmKeepsWakeInv == TypeInv /\ WakeInv /\ Calm => WakeInv'
  <1> SUFFICES ASSUME TypeInv, WakeInv, Calm PROVE WakeInv'
    OBVIOUS
  <1>1. /\ UNCHANGED <<ion, era>> /\ mem'.sap = mem.sap /\ parkedOn' = parkedOn
        /\ "bpecho" \in Service /\ "reception" \in Service
    BY DEF Calm, Service
  <1>2. HandlesAreOpened'
    BY <1>1 DEF WakeInv, HandlesAreOpened, Opened
  <1>3. \A s \in Service, i \in Slot : Waits(s, i)' => Waits(s, i)
    BY <1>1 DEF Waits, Live, Calm, Thread
  <1>4. \A s \in Service : Holds(s)' => Holds(s)
    BY <1>1, <1>3 DEF Holds, Live
  <1>5. ConnectedWhileHolding'
    <2>1. ConnectedWhileHolding
      BY DEF WakeInv
    <2>2. ASSUME NEW s \in Service, Holds(s)'
          PROVE  mem'.sap["reception"] = era' /\ mem'.ionConnected
      BY <1>1, <1>4, <2>1, <2>2 DEF ConnectedWhileHolding, Calm
    <2> QED
      BY <2>2 DEF ConnectedWhileHolding, Calm
  <1>6. ASSUME ~replaced' PROVE (EchoCanBeWoken /\ EchoIsTold /\ ReceptionIsTold)'
    <2>1. EchoCanBeWoken /\ EchoIsTold
      BY <1>6 DEF WakeInv, Calm
    <2>2. EchoCanBeWoken'
      BY <1>1, <1>3, <2>1 DEF EchoCanBeWoken
    <2>3. Ending' => Ending
      BY DEF Ending, Calm
    <2>4. ASSUME Ending', signaller' # "lowerEcho" PROVE ~mem'.serving["bpecho"]
      BY <2>1, <2>3, <2>4 DEF EchoIsTold, Ending, Calm
    <2>5. ASSUME Ending', signaller' = "wait", NEW i \in Slot, Waits("bpecho", i)'
          PROVE  Woken("bpecho")'
      BY <1>1, <1>3, <2>1, <2>3, <2>5 DEF EchoIsTold, Calm, Woken
    <2>6. EchoIsTold'
      BY <2>4, <2>5 DEF EchoIsTold
    <2>7. ReceptionIsTold'
      BY DEF ReceptionIsTold, Calm
    <2> QED
      BY <2>2, <2>6, <2>7
  <1> QED
    BY <1>2, <1>5, <1>6 DEF WakeInv

\* The steps of main that open, close or create nothing.
LEMMA UsualStepsAreCalm ==
  ASSUME TypeInv, ~Gone,
         \/ ConnectFails \/ Connected \/ OpenEchoFails \/ InitEcho \/ CreateEchoFails
         \/ InitReception \/ CreateReceptionFails \/ Turn \/ WakeUp \/ Restart \/ ExecFails
         \/ JoinReception \/ JoinEcho
  PROVE  Calm
  <1>0. mem \in Memory /\ "reception" \in Service /\ "bpecho" \in Service
    BY DEF TypeInv, TypeOK, Service
  <1>1. CASE ConnectFails
    <2>1. /\ mem'.sap = mem.sap /\ (mem.ionConnected => mem'.ionConnected)
          /\ (mem'.serving["bpecho"] => mem.serving["bpecho"])
          /\ (main = "connected" => mem'.ionConnected)
      BY <1>0, <1>1 DEF ConnectFails, Memory
    <2> QED
      BY <1>1, <2>1 DEF Calm, ConnectFails, MainFrame
  <1>2. CASE Connected
    <2>1. /\ mem'.sap = mem.sap /\ (mem.ionConnected => mem'.ionConnected)
          /\ (mem'.serving["bpecho"] => mem.serving["bpecho"])
          /\ (main = "connected" => mem'.ionConnected)
      BY <1>0, <1>2 DEF Connected, Memory
    <2> QED
      BY <1>2, <2>1 DEF Calm, Connected, MainFrame, Quietly
  <1>3. CASE OpenEchoFails
    <2>1. /\ mem'.sap = mem.sap /\ (mem.ionConnected => mem'.ionConnected)
          /\ (mem'.serving["bpecho"] => mem.serving["bpecho"])
          /\ (main = "connected" => mem'.ionConnected)
      BY <1>0, <1>3 DEF OpenEchoFails, Memory
    <2> QED
      BY <1>3, <2>1 DEF Calm, OpenEchoFails, MainFrame
  <1>4. CASE CreateEchoFails
    <2>1. /\ mem'.sap = mem.sap /\ (mem.ionConnected => mem'.ionConnected)
          /\ (mem'.serving["bpecho"] => mem.serving["bpecho"])
          /\ (main = "connected" => mem'.ionConnected)
      BY <1>0, <1>4 DEF CreateEchoFails, Memory
    <2> QED
      BY <1>4, <2>1 DEF Calm, CreateEchoFails, MainFrame
  <1>5. CASE InitReception
    <2>1. /\ mem'.sap = mem.sap /\ (mem.ionConnected => mem'.ionConnected)
          /\ (mem'.serving["bpecho"] => mem.serving["bpecho"])
          /\ (main = "connected" => mem'.ionConnected)
      BY <1>0, <1>5 DEF InitReception, Memory, Looping
    <2> QED
      BY <1>5, <2>1 DEF Calm, InitReception, MainFrame, Quietly, Looping, Served
  <1>6. CASE CreateReceptionFails
    <2>1. /\ mem'.sap = mem.sap /\ (mem.ionConnected => mem'.ionConnected)
          /\ (mem'.serving["bpecho"] => mem.serving["bpecho"])
          /\ (main = "connected" => mem'.ionConnected)
      BY <1>0, <1>6 DEF CreateReceptionFails, Memory
    <2> QED
      BY <1>6, <2>1 DEF Calm, CreateReceptionFails, MainFrame
  <1>7. CASE Turn
    <2>1. /\ mem'.sap = mem.sap /\ (mem.ionConnected => mem'.ionConnected)
          /\ (mem'.serving["bpecho"] => mem.serving["bpecho"])
          /\ (main = "connected" => mem'.ionConnected)
      BY <1>0, <1>7 DEF Turn, Memory
    <2> QED
      BY <1>7, <2>1 DEF Calm, Turn, MainFrame, Quietly
  <1>8. CASE WakeUp
    <2>1. /\ mem'.sap = mem.sap /\ (mem.ionConnected => mem'.ionConnected)
          /\ (mem'.serving["bpecho"] => mem.serving["bpecho"])
          /\ (main = "connected" => mem'.ionConnected)
      BY <1>0, <1>8 DEF WakeUp, Memory
    <2> QED
      BY <1>8, <2>1 DEF Calm, WakeUp, MainFrame, Quietly
  <1>9. CASE Restart
    <2>1. /\ mem'.sap = mem.sap /\ (mem.ionConnected => mem'.ionConnected)
          /\ (mem'.serving["bpecho"] => mem.serving["bpecho"])
          /\ (main = "connected" => mem'.ionConnected)
      BY <1>0, <1>9 DEF Restart, Memory
    <2> QED
      BY <1>9, <2>1 DEF Calm, Restart, MainFrame, Quietly
  <1>10. CASE ExecFails
    <2>1. /\ mem'.sap = mem.sap /\ (mem.ionConnected => mem'.ionConnected)
          /\ (mem'.serving["bpecho"] => mem.serving["bpecho"])
          /\ (main = "connected" => mem'.ionConnected)
      BY <1>0, <1>10 DEF ExecFails, Memory
    <2> QED
      BY <1>10, <2>1 DEF Calm, ExecFails, MainFrame
  <1>11. CASE JoinReception
    <2>1. /\ mem'.sap = mem.sap /\ (mem.ionConnected => mem'.ionConnected)
          /\ (mem'.serving["bpecho"] => mem.serving["bpecho"])
          /\ (main = "connected" => mem'.ionConnected)
      BY <1>0, <1>11 DEF JoinReception, Memory
    <2> QED
      BY <1>11, <2>1 DEF Calm, JoinReception, MainFrame, Quietly
  <1>12. CASE JoinEcho
    <2>1. /\ mem'.sap = mem.sap /\ (mem.ionConnected => mem'.ionConnected)
          /\ (mem'.serving["bpecho"] => mem.serving["bpecho"])
          /\ (main = "connected" => mem'.ionConnected)
      BY <1>0, <1>12 DEF JoinEcho, Memory
    <2> QED
      BY <1>12, <2>1 DEF Calm, JoinEcho, MainFrame, Quietly
  <1>13. CASE InitEcho
    <2>1. /\ mem'.sap = mem.sap /\ mem'.ionConnected = mem.ionConnected
          /\ (raced => raced') /\ (requested /\ signaller # "lowerEcho" => raced')
      BY <1>0, <1>13 DEF InitEcho, Memory, TypeInv, TypeOK
    <2> QED
      BY <1>13, <2>1 DEF Calm, InitEcho, MainFrame
  <1> QED
    BY <1>1, <1>2, <1>3, <1>4, <1>5, <1>6, <1>7, <1>8, <1>9, <1>10, <1>11, <1>12, <1>13

\* pthread_create parks nobody: the new thread has its loop's test ahead.
LEMMA CreateIsCalm ==
  ASSUME TypeInv, ~Gone, NEW s \in Service, NEW m \in Memory, Create(s, m),
         m.sap = mem.sap, m.ionConnected = mem.ionConnected, m.serving = mem.serving,
         main # "connected", main' \in {"initReception", "wakeup", "top"}
  PROVE  Calm
  <1>1. PICK i \in Slot : /\ thread' = [thread EXCEPT ![<<s, i>>] = "top"]
                          /\ mem' = [m EXCEPT !.started[s] = TRUE, !.handle[s] = i]
    BY Zenon DEF Create
  <1>2. \A t \in Thread : thread'[t] = "parked" => thread[t] = "parked"
    BY <1>1 DEF TypeInv, TypeOK
  <1>3. /\ mem'.sap = mem.sap /\ mem'.ionConnected = mem.ionConnected
        /\ mem'.serving = mem.serving
    BY <1>1 DEF Memory
  <1>4. /\ UNCHANGED <<ion, era, signaller, parkedOn, requested, queue, wake, raced>>
        /\ replaced => replaced'
    BY DEF Create, MainFrame
  <1> QED
    BY <1>2, <1>3, <1>4 DEF Calm

\* The process holds no valid handle when it is not connected, and none when the
\* one it was connected with has died.
LEMMA NothingHeld ==
  ASSUME ConnectedWhileHolding, ~Gone,
         \/ ~mem.ionConnected /\ main # "connected"
         \/ ~Live(mem.sap["reception"])
  PROVE  \A s \in Service : ~Holds(s) /\ \A i \in Slot : ~Waits(s, i)
  <1>1. \A s \in Service : ~Holds(s)
    BY DEF ConnectedWhileHolding, Holds, Waits, Live
  <1> QED
    BY <1>1 DEF Holds

\* A step of main after which no bpecho thread waits has nobody to wake.
LEMMA NobodyToWake ==
  ASSUME TypeInv, WakeInv, ~Gone, HandlesAreOpened', ConnectedWhileHolding',
         UNCHANGED <<signaller, requested, raced, replaced>>,
         mem'.serving = mem.serving,
         main' # "joinReception",
         \A i \in Slot : ~Waits("bpecho", i)'
  PROVE  WakeInv'
  <1>1. ~replaced => EchoIsTold
    BY DEF WakeInv
  <1>2. Ending' => Ending
    BY DEF Ending
  <1>3. ~replaced' => (EchoCanBeWoken /\ EchoIsTold /\ ReceptionIsTold)'
    BY <1>1, <1>2 DEF EchoCanBeWoken, EchoIsTold, ReceptionIsTold
  <1> QED
    BY <1>3 DEF WakeInv

\* tryConnectToIon finds nothing held; only the new handle is.
LEMMA ConnectKeepsWakeInv == TypeInv /\ WakeInv /\ ~Gone /\ Connect => WakeInv'
  <1> SUFFICES ASSUME TypeInv, WakeInv, ~Gone, Connect PROVE WakeInv'
    OBVIOUS
  <1>0. mem \in Memory /\ era \in Sap /\ "reception" \in Service /\ "bpecho" \in Service
    BY DEF TypeInv, TypeOK, Sap, Service
  <1>1. /\ mem' = [mem EXCEPT !.sap["reception"] = era] /\ ion = "up" /\ main' = "connected"
        /\ UNCHANGED <<ion, era, thread, parkedOn, signaller, requested, raced, replaced>>
    BY DEF Connect, MainFrame, Quietly
  <1>2. /\ mem'.sap["reception"] = era /\ mem'.sap["bpecho"] = mem.sap["bpecho"]
        /\ mem'.serving = mem.serving
    BY <1>0, <1>1 DEF Memory
  <1>3. \A s \in Service : ~Holds(s) /\ \A i \in Slot : ~Waits(s, i)
    BY NothingHeld DEF WakeInv, ConnectedWhileHolding, Connect
  <1>4. ASSUME NEW s \in Service, NEW i \in Slot PROVE ~Waits(s, i)'
    <2>1. Waits(s, i)' = Waits(s, i)
      BY <1>1 DEF Waits, Live
    <2> QED
      BY <1>3, <2>1
  <1>5. ~Holds("bpecho")'
    <2>1. ~Live(mem.sap["bpecho"])
      BY <1>0, <1>3 DEF Holds
    <2>2. ~Live(mem.sap["bpecho"])'
      BY <1>1, <1>2, <2>1 DEF Live
    <2> QED
      BY <1>0, <1>4, <2>2 DEF Holds
  <1>6. HandlesAreOpened'
    BY <1>1, <1>2 DEF WakeInv, HandlesAreOpened, Opened, Service
  <1>7. ConnectedWhileHolding'
    BY <1>1, <1>2, <1>5 DEF ConnectedWhileHolding, Service
  <1> QED
    BY <1>0, <1>1, <1>2, <1>4, <1>6, <1>7, NobodyToWake

\* bp_open of the echo endpoint: ION accepts it as it accepts the other one.
LEMMA OpenEchoKeepsWakeInv == TypeInv /\ WakeInv /\ ~Gone /\ OpenEcho => WakeInv'
  <1> SUFFICES ASSUME TypeInv, WakeInv, ~Gone, OpenEcho PROVE WakeInv'
    OBVIOUS
  <1>0. mem \in Memory /\ era \in Sap /\ "reception" \in Service /\ "bpecho" \in Service
    BY DEF TypeInv, TypeOK, Sap, Service
  <1>1. /\ mem' = [mem EXCEPT !.sap["bpecho"] = era]
        /\ ion = "up" /\ mem.sap["reception"] = era /\ mem.ionConnected
        /\ main' = "initEcho"
        /\ UNCHANGED <<ion, era, thread, parkedOn, queue, wake, signaller, requested, raced, replaced>>
    BY DEF OpenEcho, MainFrame, Quietly, Live, WakeInv, ConnectedWhileHolding
  <1>2. /\ mem'.sap["bpecho"] = era /\ mem'.sap["reception"] = mem.sap["reception"]
        /\ mem'.serving = mem.serving /\ mem'.ionConnected = mem.ionConnected
    BY <1>0, <1>1 DEF Memory
  <1>3. HandlesAreOpened'
    BY <1>1, <1>2 DEF WakeInv, HandlesAreOpened, Opened, Service
  <1>4. ConnectedWhileHolding'
    BY <1>1, <1>2 DEF ConnectedWhileHolding
  <1>5. \A s \in Service, i \in Slot : Waits(s, i)' = Waits(s, i)
    BY <1>1 DEF Waits, Live
  <1>6. EchoCanBeWoken'
    BY <1>1, <1>2 DEF EchoCanBeWoken
  <1>7. ~replaced => EchoIsTold'
    BY <1>0, <1>1, <1>2, <1>5 DEF WakeInv, EchoIsTold, Ending, Woken, Gone
  <1>8. ReceptionIsTold'
    BY <1>1 DEF ReceptionIsTold
  <1> QED
    BY <1>1, <1>3, <1>4, <1>6, <1>7, <1>8 DEF WakeInv

\* The status check or the exchange finds the handle dead, and with it all others.
LEMMA DisconnectKeepsWakeInv ==
  ASSUME TypeInv, WakeInv, ~Gone, ~Live(mem.sap["reception"]),
         UNCHANGED <<ion, era, thread, parkedOn, signaller, requested, raced, replaced>>,
         NEW h \in {mem.sap["reception"], NULL},
         mem' = [mem EXCEPT !.sap["reception"] = h, !.ionConnected = FALSE],
         main' \in {"top", "restart"}
  PROVE  WakeInv'
  <1>0. mem \in Memory /\ "reception" \in Service /\ "bpecho" \in Service
    BY DEF TypeInv, TypeOK, Service
  <1>1. /\ mem'.sap["reception"] = h /\ mem'.sap["bpecho"] = mem.sap["bpecho"]
        /\ mem'.serving = mem.serving
    BY <1>0 DEF Memory
  <1>2. \A s \in Service : ~Holds(s) /\ \A i \in Slot : ~Waits(s, i)
    BY NothingHeld DEF WakeInv
  <1>3. ASSUME NEW s \in Service, NEW i \in Slot PROVE ~Waits(s, i)'
    <2>1. Waits(s, i)' = Waits(s, i)
      BY DEF Waits, Live
    <2> QED
      BY <1>2, <2>1
  <1>4. era \in Nat /\ era # NULL
    BY LifecycleAssumption DEF TypeInv, TypeOK, Era
  <1>5. ~Live(h)'
    BY <1>4 DEF Live
  <1>6. \A s \in Service : ~Live(mem.sap[s])'
    <2>1. ~Live(mem.sap["bpecho"])
      BY <1>0, <1>2 DEF Holds
    <2>2. ~Live(mem.sap["bpecho"])' /\ ~Live(mem.sap["reception"])'
      BY <1>1, <1>5, <2>1 DEF Live
    <2> QED
      BY <2>2 DEF Service
  <1>7. \A s \in Service : ~Holds(s)'
    BY <1>3, <1>6 DEF Holds
  <1>8. HandlesAreOpened'
    BY <1>1 DEF WakeInv, HandlesAreOpened, Opened, Service
  <1>9. ConnectedWhileHolding'
    BY <1>7 DEF ConnectedWhileHolding
  <1> QED
    BY <1>0, <1>1, <1>3, <1>8, <1>9, NobodyToWake

\* execv: a new process holds nothing, and the signal is forgotten.
LEMMA ExecKeepsWakeInv == TypeInv /\ WakeInv /\ Exec => WakeInv'
  <1> SUFFICES ASSUME TypeInv, Exec PROVE WakeInv'
    OBVIOUS
  <1>1. /\ mem' = Loaded /\ main' = "connect"
        /\ thread' = [t \in Thread |-> "none"] /\ parkedOn' = [t \in Thread |-> NULL]
        /\ requested => raced'
        /\ requested' = requested /\ era' = era
    BY DEF Exec, env, TypeInv, TypeOK
  <1>2. era # NULL
    BY LifecycleAssumption DEF TypeInv, TypeOK, Era
  <1>3. \A s \in Service : mem'.sap[s] = NULL
    BY <1>1 DEF Loaded
  <1>4. ~mem'.ionConnected
    BY <1>1 DEF Loaded
  <1>5. \A s \in Service, i \in Slot : ~Waits(s, i)'
    BY <1>1 DEF Waits, Thread
  <1>6. \A s \in Service : ~Holds(s)'
    BY <1>1, <1>2, <1>3, <1>5 DEF Holds, Live
  <1>7. HandlesAreOpened'
    BY <1>1, <1>3 DEF HandlesAreOpened, Opened
  <1>8. ConnectedWhileHolding'
    BY <1>1, <1>4, <1>6 DEF ConnectedWhileHolding
  <1>9. (EchoCanBeWoken /\ EchoIsTold /\ ReceptionIsTold)'
    BY <1>1, <1>5 DEF EchoCanBeWoken, EchoIsTold, Ending, ReceptionIsTold, Service
  <1> QED
    BY <1>7, <1>8, <1>9 DEF WakeInv

\* stopBundleReception: whoever waits holds the handle main interrupts.
LEMMA StopKeepsWakeInv == TypeInv /\ WakeInv /\ ~Gone /\ Stop => WakeInv'
  <1> SUFFICES ASSUME TypeInv, WakeInv, ~Gone, Stop PROVE WakeInv'
    OBVIOUS
  <1>0. mem \in Memory /\ "reception" \in Service /\ "bpecho" \in Service
    BY DEF TypeInv, TypeOK, Service
  <1>1. CASE ~mem.started["reception"]
    <2>1. Calm
      BY <1>1 DEF Stop, MainFrame, Calm
    <2> QED
      BY <2>1, CalmKeepsWakeInv
  <1>2. CASE mem.started["reception"]
    <2>1. /\ main = "stop" /\ main' = "joinReception"
          /\ mem' = [mem EXCEPT !.serving["reception"] = FALSE]
          /\ IF mem.ionConnected THEN Interrupt("reception") ELSE UNCHANGED wake
          /\ UNCHANGED <<ion, era, thread, parkedOn, queue, signaller, requested, raced, replaced>>
      BY <1>2 DEF Stop, MainFrame
    <2>2. /\ mem'.sap = mem.sap /\ mem'.ionConnected = mem.ionConnected
          /\ mem'.serving["bpecho"] = mem.serving["bpecho"] /\ ~mem'.serving["reception"]
      BY <1>0, <2>1 DEF Memory
    <2>3. \A s \in Service, i \in Slot : Waits(s, i)' = Waits(s, i)
      BY <2>1 DEF Waits, Live
    <2>4. \A s \in Service : Holds(s)' = Holds(s)
      BY <2>1, <2>2, <2>3 DEF Holds, Live
    <2>5. wake \subseteq wake'
      BY <2>1 DEF Interrupt
    <2>6. HandlesAreOpened'
      BY <2>1, <2>2 DEF WakeInv, HandlesAreOpened, Opened
    <2>7. ConnectedWhileHolding'
      BY <2>1, <2>2, <2>4 DEF WakeInv, ConnectedWhileHolding, Gone
    <2>8. EchoCanBeWoken => EchoCanBeWoken'
      BY <1>0, <2>1, <2>2, <2>3 DEF EchoCanBeWoken
    <2>9. EchoIsTold => EchoIsTold'
      BY <1>0, <2>1, <2>2, <2>3, <2>5 DEF EchoIsTold, Ending, Woken, Gone
    <2>10. ASSUME NEW i \in Slot, Waits("reception", i)' PROVE Woken("reception")'
      <3>1. Holds("reception")
        BY <1>0, <2>3, <2>10 DEF Holds
      <3>2. mem.sap["reception"] = era /\ mem.ionConnected /\ ion = "up"
        BY <1>0, <2>1, <3>1 DEF WakeInv, ConnectedWhileHolding, Holds, Waits, Live
      <3> QED
        BY <2>1, <3>2 DEF Interrupt, Live, Woken
    <2>11. ReceptionIsTold'
      BY <2>2, <2>10 DEF ReceptionIsTold
    <2> QED
      BY <2>1, <2>6, <2>7, <2>8, <2>9, <2>11 DEF WakeInv
  <1> QED
    BY <1>1, <1>2

\* bp_close: the process is gone.
LEMMA CloseKeepsWakeInv == TypeInv /\ WakeInv /\ Close => WakeInv'
  <1> SUFFICES ASSUME TypeInv, WakeInv, Close PROVE WakeInv'
    OBVIOUS
  <1>0. mem \in Memory /\ "reception" \in Service /\ "bpecho" \in Service
    BY DEF TypeInv, TypeOK, Service
  <1>1. /\ main' = "done" /\ mem' = [mem EXCEPT !.sap["reception"] = NULL]
        /\ UNCHANGED <<ion, era, thread, parkedOn, replaced>>
    BY DEF Close, MainFrame, Quietly
  <1>2. mem'.sap["reception"] = NULL /\ mem'.sap["bpecho"] = mem.sap["bpecho"]
    BY <1>0, <1>1 DEF Memory
  <1>3. HandlesAreOpened'
    BY <1>1, <1>2 DEF WakeInv, HandlesAreOpened, Opened, Service
  <1>4. ConnectedWhileHolding' /\ EchoIsTold' /\ ReceptionIsTold'
    BY <1>1 DEF ConnectedWhileHolding, EchoIsTold, ReceptionIsTold, Ending, Gone
  <1>5. EchoCanBeWoken => EchoCanBeWoken'
    BY <1>1, <1>2 DEF EchoCanBeWoken, Waits, Live
  <1> QED
    BY <1>1, <1>3, <1>4, <1>5 DEF WakeInv

\* Every step of main.
LEMMA MainKeepsWakeInv == TypeInv /\ WakeInv /\ ~Gone /\ Main => WakeInv'
  <1> SUFFICES ASSUME TypeInv, WakeInv, ~Gone, Main PROVE WakeInv'
    OBVIOUS
  <1>0. mem \in Memory /\ "reception" \in Service /\ "bpecho" \in Service
    BY DEF TypeInv, TypeOK, Service
  <1>1. CASE \/ ConnectFails \/ Connected \/ OpenEchoFails \/ InitEcho \/ CreateEchoFails
             \/ InitReception \/ CreateReceptionFails \/ Turn \/ WakeUp \/ Restart \/ ExecFails
             \/ JoinReception \/ JoinEcho
    BY <1>1, UsualStepsAreCalm, CalmKeepsWakeInv
  <1>2. CASE CreateEcho
    <2>1. Create("bpecho", mem)
      BY <1>2 DEF CreateEcho
    <2>2. main # "connected" /\ main' \in {"initReception", "wakeup", "top"}
      BY <1>2 DEF CreateEcho
    <2>3. Calm
      BY <1>0, <2>1, <2>2, CreateIsCalm
    <2> QED
      BY <2>3, CalmKeepsWakeInv
  <1>3. CASE CreateReception
    <2>1. Create("reception", Looping)
      BY <1>3 DEF CreateReception
    <2>2. main # "connected" /\ main' \in {"initReception", "wakeup", "top"}
      BY <1>3 DEF CreateReception, Served
    <2>3. /\ Looping.sap = mem.sap /\ Looping.ionConnected = mem.ionConnected
          /\ Looping.serving = mem.serving
      BY <1>0 DEF Looping, Memory
    <2>4. Looping \in Memory
      BY <1>0 DEF Looping, Memory
    <2>5. Calm
      BY <1>0, <2>1, <2>2, <2>3, <2>4, CreateIsCalm
    <2> QED
      BY <2>5, CalmKeepsWakeInv
  <1>4. CASE Live(mem.sap["reception"]) /\ (CheckIonStatus \/ Exchange)
    <2>1. Calm
      BY <1>0, <1>4 DEF CheckIonStatus, Exchange, Quietly, MainFrame, Calm, TypeInv, TypeOK
    <2> QED
      BY <2>1, CalmKeepsWakeInv
  <1>5. CASE ~Live(mem.sap["reception"]) /\ CheckIonStatus
    <2>1. /\ mem' = [mem EXCEPT !.ionConnected = FALSE]
          /\ UNCHANGED <<ion, era, thread, parkedOn, signaller, requested, raced, replaced>>
          /\ main' = "top"
      BY <1>5 DEF CheckIonStatus, MainFrame
    <2>2. mem' = [mem EXCEPT !.sap["reception"] = mem.sap["reception"], !.ionConnected = FALSE]
      BY <1>0, <2>1 DEF Memory
    <2> QED
      BY <1>5, <2>1, <2>2, DisconnectKeepsWakeInv
  <1>6. CASE ~Live(mem.sap["reception"]) /\ Exchange
    <2>1. /\ mem' = [mem EXCEPT !.sap["reception"] = NULL, !.ionConnected = FALSE]
          /\ UNCHANGED <<ion, era, thread, parkedOn, signaller, requested, raced, replaced>>
          /\ main' = "restart"
      BY <1>6 DEF Exchange, MainFrame, Quietly
    <2> QED
      BY <1>6, <2>1, DisconnectKeepsWakeInv
  <1> QED
    BY <1>1, <1>2, <1>3, <1>4, <1>5, <1>6, ConnectKeepsWakeInv, OpenEchoKeepsWakeInv,
       ExecKeepsWakeInv, StopKeepsWakeInv, CloseKeepsWakeInv DEF Main

\* What a step of a service thread has to respect: it connects nothing, raises no
\* flag, and leaves no thread waiting whose flag is down and whose wake-up it took.
LEMMA ServiceStepKeepsWakeInv ==
  ASSUME TypeInv, WakeInv, ~Gone, HandlesAreOpened',
         UNCHANGED <<ion, era, main, signaller, requested, raced, replaced>>,
         mem'.ionConnected = mem.ionConnected,
         mem'.sap["reception"] = mem.sap["reception"],
         \A s \in Service : mem'.serving[s] => mem.serving[s],
         \A s \in Service : Holds(s)' => Holds(s),
         ~replaced => EchoCanBeWoken',
         ~replaced => \A s \in Service, i \in Slot :
           Waits(s, i)' => mem.serving[s] \/ (Waits(s, i) /\ (Woken(s) => Woken(s)'))
  PROVE  WakeInv'
  <1>1. ConnectedWhileHolding'
    BY DEF WakeInv, ConnectedWhileHolding, Gone
  <1>2. "reception" \in Service /\ "bpecho" \in Service
    BY DEF Service
  <1>3. ASSUME ~replaced PROVE EchoIsTold' /\ ReceptionIsTold'
    <2>1. EchoIsTold /\ ReceptionIsTold
      BY <1>3 DEF WakeInv
    <2>2. \A s \in Service, i \in Slot :
            Waits(s, i)' => mem.serving[s] \/ (Waits(s, i) /\ (Woken(s) => Woken(s)'))
      BY <1>3
    <2>3. EchoIsTold'
      BY <1>2, <2>1, <2>2 DEF EchoIsTold, Ending, Gone
    <2>4. ReceptionIsTold'
      BY <1>2, <2>1, <2>2 DEF ReceptionIsTold
    <2> QED
      BY <2>3, <2>4
  <1> QED
    BY <1>1, <1>3 DEF WakeInv

\* While no thread was replaced, each service has one thread.
LEMMA OneThread ==
  ASSUME TeardownInv, ~replaced, NEW s \in Service, NEW i \in Slot, NEW j \in Slot,
         Busy(<<s, i>>), Busy(<<s, j>>)
  PROVE  i = j
  BY DEF TeardownInv, OnlyTheHandle

\* A thread parks only on the handle the process holds, and only if its flag is up.
LEMMA ReceiveKeepsWakeInv ==
  ASSUME TypeInv, WakeInv, ~Gone, NEW s \in Service, NEW i \in Slot, Receive(<<s, i>>)
  PROVE  WakeInv'
  <1>1. /\ UNCHANGED <<ion, era, main, signaller, requested, raced, replaced, mem, wake, queue>>
        /\ <<s, i>> \in Thread
        /\ thread \in [Thread -> {"none", "top", "parked", "handling", "closing"}]
        /\ parkedOn \in [Thread -> Sap]
    BY DEF Receive, ServiceFrame, history, TypeInv, TypeOK, Thread
  <1>2. \/ /\ mem.serving[s]
           /\ thread' = [thread EXCEPT ![<<s, i>>] = "parked"]
           /\ parkedOn' = [parkedOn EXCEPT ![<<s, i>>] = mem.sap[s]]
        \/ /\ parkedOn' = parkedOn
           /\ thread' = [thread EXCEPT ![<<s, i>>] = Leaving(s)]
           /\ Leaving(s) # "parked"
    BY DEF Receive, Serves, Goes, Leaving
  <1>3. \A t \in Thread : parkedOn'[t] = parkedOn[t] \/ parkedOn'[t] = mem.sap[s]
    BY <1>1, <1>2
  <1>4. HandlesAreOpened'
    BY <1>1, <1>3 DEF WakeInv, HandlesAreOpened, Opened
  <1>5. ASSUME NEW r \in Service, NEW j \in Slot, Waits(r, j)'
        PROVE  \/ Waits(r, j)
               \/ r = s /\ mem.serving[s] /\ Live(mem.sap[s])
    <2>1. <<r, j>> \in Thread
      BY DEF Thread
    <2>2. CASE <<r, j>> = <<s, i>>
      <3>1. r = s /\ thread'[<<s, i>>] = "parked" /\ Live(parkedOn[<<s, i>>])'
        BY <1>5, <2>2 DEF Waits
      <3>2. mem.serving[s] /\ parkedOn'[<<s, i>>] = mem.sap[s]
        BY <1>1, <1>2, <3>1
      <3> QED
        BY <1>1, <3>1, <3>2 DEF Live
    <2>3. CASE <<r, j>> # <<s, i>>
      <3>1. thread'[<<r, j>>] = thread[<<r, j>>] /\ parkedOn'[<<r, j>>] = parkedOn[<<r, j>>]
        BY <1>1, <1>2, <2>1, <2>3
      <3> QED
        BY <1>1, <1>5, <3>1 DEF Waits, Live
    <2> QED
      BY <2>2, <2>3
  <1>6. \A r \in Service : Live(mem.sap[r])' = Live(mem.sap[r]) /\ Woken(r)' = Woken(r)
    BY <1>1 DEF Live, Woken
  <1>7. \A r \in Service : Holds(r)' => Holds(r)
    BY <1>5, <1>6 DEF Holds
  <1>8. EchoCanBeWoken => EchoCanBeWoken'
    BY <1>1, <1>5 DEF EchoCanBeWoken, Live, Service
  <1> QED
    BY <1>1, <1>4, <1>5, <1>6, <1>7, <1>8, ServiceStepKeepsWakeInv DEF WakeInv

\* A thread that takes a bundle or an interrupt is the only one of its service.
LEMMA ReturnKeepsWakeInv ==
  ASSUME TypeInv, TeardownInv, WakeInv, ~Gone, NEW s \in Service, NEW i \in Slot,
         Delivered(<<s, i>>) \/ Interrupted(<<s, i>>)
  PROVE  WakeInv'
  <1>1. /\ UNCHANGED <<ion, era, main, signaller, requested, raced, replaced, mem>>
        /\ <<s, i>> \in Thread
        /\ thread \in [Thread -> {"none", "top", "parked", "handling", "closing"}]
        /\ parkedOn \in [Thread -> Sap]
        /\ queue \in [Service -> 0..MaxBundles]
    BY DEF Delivered, Interrupted, ServiceFrame, history, TypeInv, TypeOK, Thread
  <1>2. PICK label \in {"handling", "top"} :
          /\ thread' = [thread EXCEPT ![<<s, i>>] = label]
          /\ parkedOn' = [parkedOn EXCEPT ![<<s, i>>] = NULL]
    BY DEF Delivered, Interrupted, Goes
  <1>3. thread[<<s, i>>] = "parked"
    BY DEF Delivered, Interrupted
  <1>4. \A r \in Service : r # s => (Woken(r) => Woken(r)')
    BY <1>1 DEF Delivered, Interrupted, Woken
  <1>5. HandlesAreOpened'
    BY <1>1, <1>2 DEF WakeInv, HandlesAreOpened, Opened
  <1>6. ASSUME NEW r \in Service, NEW j \in Slot, Waits(r, j)'
        PROVE  Waits(r, j) /\ <<r, j>> # <<s, i>>
    <2>1. <<r, j>> \in Thread /\ thread'[<<r, j>>] = "parked"
      BY <1>6 DEF Thread, Waits
    <2>2. <<r, j>> # <<s, i>>
      BY <1>1, <1>2, <2>1
    <2>3. thread'[<<r, j>>] = thread[<<r, j>>] /\ parkedOn'[<<r, j>>] = parkedOn[<<r, j>>]
      BY <1>1, <1>2, <2>1, <2>2
    <2> QED
      BY <1>1, <1>6, <2>2, <2>3 DEF Waits, Live
  <1>7. \A r \in Service : Holds(r)' => Holds(r)
    BY <1>1, <1>6 DEF Holds, Live
  <1>8. EchoCanBeWoken => EchoCanBeWoken'
    BY <1>1, <1>6 DEF EchoCanBeWoken, Service
  <1>9. ASSUME ~replaced, NEW r \in Service, NEW j \in Slot, Waits(r, j)'
        PROVE  Waits(r, j) /\ (Woken(r) => Woken(r)')
    <2>1. Waits(r, j) /\ <<r, j>> # <<s, i>>
      BY <1>6, <1>9
    <2>2. Busy(<<r, j>>) /\ Busy(<<s, i>>)
      BY <1>3, <2>1 DEF Waits, Busy
    <2>3. r # s
      BY <1>9, <2>1, <2>2, OneThread
    <2> QED
      BY <1>4, <2>1, <2>3
  <1> QED
    BY <1>1, <1>5, <1>7, <1>8, <1>9, ServiceStepKeepsWakeInv DEF WakeInv

\* A thread that leaves bp_receive for good, or has handled its bundle.
LEMMA LeavingKeepsWakeInv ==
  ASSUME TypeInv, TeardownInv, WakeInv, ~Gone, NEW s \in Service, NEW i \in Slot,
         Fails(<<s, i>>) \/ Handled(<<s, i>>) \/ Closes(<<s, i>>)
  PROVE  WakeInv'
  <1>0. mem \in Memory /\ "reception" \in Service /\ "bpecho" \in Service
    BY DEF TypeInv, TypeOK, Service
  <1>1. /\ UNCHANGED <<ion, era, main, signaller, requested, raced, replaced, queue, wake>>
        /\ <<s, i>> \in Thread
        /\ thread \in [Thread -> {"none", "top", "parked", "handling", "closing"}]
        /\ parkedOn \in [Thread -> Sap]
    BY DEF Fails, Handled, Closes, ServiceFrame, history, TypeInv, TypeOK, Thread
  <1>2. PICK label \in {"none", "closing", "top"} : thread' = [thread EXCEPT ![<<s, i>>] = label]
    BY DEF Fails, Handled, Closes, Goes, Leaving
  <1>3. \A t \in Thread : parkedOn'[t] \in {parkedOn[t], NULL}
    <2>1. parkedOn' = [parkedOn EXCEPT ![<<s, i>>] = NULL] \/ parkedOn' = parkedOn
      BY DEF Fails, Handled, Closes
    <2> QED
      BY <1>1, <2>1
  <1>4. /\ mem'.ionConnected = mem.ionConnected
        /\ mem'.sap["reception"] = mem.sap["reception"]
        /\ mem'.sap["bpecho"] \in {mem.sap["bpecho"], NULL}
        /\ \A r \in Service : mem'.serving[r] => mem.serving[r]
    <2>1. CASE Fails(<<s, i>>)
      <3>1. PICK b \in BOOLEAN :
              /\ b => mem.serving[s]
              /\ \/ mem' = [mem EXCEPT !.serving[s] = b]
                 \/ mem' = [mem EXCEPT !.serving[s] = b, !.running = FALSE]
        <4>1. \/ mem' = [mem EXCEPT !.serving[s] = mem.serving[s] /\ s = "reception" /\ ~mem.running]
              \/ mem' = [mem EXCEPT !.serving[s] = FALSE, !.running = FALSE]
          BY <2>1 DEF Fails
        <4> QED
          BY <4>1, Zenon
      <3> QED
        BY <1>0, <3>1 DEF Memory
    <2>2. CASE Handled(<<s, i>>)
      BY <1>0, <2>2 DEF Handled, Memory
    <2>3. CASE Closes(<<s, i>>)
      BY <1>0, <2>3 DEF Closes, Memory
    <2> QED
      BY <2>1, <2>2, <2>3
  <1>5. mem'.sap["bpecho"] = mem.sap["bpecho"] \/ (s = "bpecho" /\ thread[<<s, i>>] = "closing")
    BY <1>0 DEF Fails, Handled, Closes, Memory
  <1>6. HandlesAreOpened'
    BY <1>1, <1>3, <1>4 DEF WakeInv, HandlesAreOpened, Opened, Service
  <1>7. era # NULL
    BY LifecycleAssumption DEF TypeInv, TypeOK, Era
  <1>8. ASSUME NEW r \in Service, NEW j \in Slot, Waits(r, j)' PROVE Waits(r, j)
    <2>1. <<r, j>> \in Thread /\ thread'[<<r, j>>] = "parked" /\ Live(parkedOn[<<r, j>>])'
      BY <1>8 DEF Thread, Waits
    <2>2. thread[<<r, j>>] = "parked"
      BY <1>1, <1>2, <2>1
    <2>3. parkedOn'[<<r, j>>] = parkedOn[<<r, j>>]
      BY <1>1, <1>3, <1>7, <2>1 DEF Live
    <2> QED
      BY <1>1, <2>1, <2>2, <2>3 DEF Waits, Live
  <1>9. \A r \in Service : Live(mem.sap[r])' => Live(mem.sap[r])
    BY <1>1, <1>4, <1>7 DEF Live, Service
  <1>10. \A r \in Service : Holds(r)' => Holds(r)
    BY <1>8, <1>9 DEF Holds
  <1>11. ASSUME ~replaced PROVE EchoCanBeWoken'
    <2> SUFFICES ASSUME NEW j \in Slot, Waits("bpecho", j)' PROVE mem'.sap["bpecho"] = era'
      BY DEF EchoCanBeWoken
    <2>1. Waits("bpecho", j)
      BY <1>0, <1>8
    <2>2. mem.sap["bpecho"] = era
      BY <1>11, <2>1 DEF WakeInv, EchoCanBeWoken
    <2>3. CASE s = "bpecho" /\ thread[<<s, i>>] = "closing"
      <3>1. Busy(<<s, i>>) /\ Busy(<<s, j>>)
        BY <2>1, <2>3 DEF Busy, Waits
      <3>2. i = j
        BY <1>11, <3>1, OneThread
      <3> QED
        BY <2>1, <2>3, <3>2 DEF Waits
    <2> QED
      BY <1>1, <1>5, <2>2, <2>3
  <1>12. \A r \in Service : Woken(r)' = Woken(r)
    BY <1>1 DEF Woken
  <1> QED
    BY <1>1, <1>4, <1>6, <1>8, <1>10, <1>11, <1>12, ServiceStepKeepsWakeInv

\* Every step of a service thread.
LEMMA StepKeepsWakeInv ==
  ASSUME TypeInv, TeardownInv, WakeInv, NEW t \in Thread, Step(t)
  PROVE  WakeInv'
  <1>1. PICK s \in Service, i \in Slot : t = <<s, i>>
    BY DEF Thread
  <1>2. /\ ~Gone
        /\ \/ Receive(<<s, i>>) \/ Delivered(<<s, i>>) \/ Interrupted(<<s, i>>)
           \/ Fails(<<s, i>>) \/ Handled(<<s, i>>) \/ Closes(<<s, i>>)
    BY <1>1 DEF Step
  <1> QED
    BY <1>2, ReceiveKeepsWakeInv, ReturnKeepsWakeInv, LeavingKeepsWakeInv

\* Every step of the signal thread: its wake-ups reach whoever is waiting.
LEMMA SignallerKeepsWakeInv == TypeInv /\ WakeInv /\ Signaller => WakeInv'
  <1> SUFFICES ASSUME TypeInv, WakeInv, Signaller PROVE WakeInv'
    OBVIOUS
  <1>0. mem \in Memory /\ "reception" \in Service /\ "bpecho" \in Service
    BY DEF TypeInv, TypeOK, Service
  <1>1. /\ ~Gone
        /\ UNCHANGED <<ion, era, queue, thread, parkedOn, raced, replaced>>
        /\ main' = main \/ main' = "killed"
        /\ wake \subseteq wake'
    BY DEF Signaller, Collect, LowerEcho, LowerReception, WakeReception, WakeEcho, SignalFrame,
           Interrupt
  <1>2. /\ mem'.sap = mem.sap /\ mem'.ionConnected = mem.ionConnected
        /\ \A s \in Service : mem'.serving[s] => mem.serving[s]
    BY <1>0 DEF Signaller, Collect, LowerEcho, LowerReception, WakeReception, WakeEcho, Memory
  <1>3. \A s \in Service, i \in Slot : Waits(s, i)' = Waits(s, i)
    BY <1>1 DEF Waits, Live
  <1>4. \A s \in Service : Holds(s)' = Holds(s)
    BY <1>1, <1>2, <1>3 DEF Holds, Live
  <1>5. \A s \in Service : Woken(s) => Woken(s)'
    BY <1>1 DEF Woken
  <1>6. HandlesAreOpened'
    BY <1>1, <1>2 DEF WakeInv, HandlesAreOpened, Opened
  <1>7. ConnectedWhileHolding'
    BY <1>1, <1>2, <1>4 DEF WakeInv, ConnectedWhileHolding, Gone
  <1>8. ASSUME ~replaced PROVE EchoCanBeWoken' /\ ReceptionIsTold'
    <2>1. EchoCanBeWoken /\ ReceptionIsTold
      BY <1>8 DEF WakeInv
    <2>2. EchoCanBeWoken'
      BY <1>0, <1>1, <1>2, <1>3, <2>1 DEF EchoCanBeWoken
    <2>3. ReceptionIsTold'
      BY <1>0, <1>1, <1>2, <1>3, <1>5, <2>1 DEF ReceptionIsTold
    <2> QED
      BY <2>2, <2>3
  <1>9. ASSUME ~replaced, Ending' PROVE EchoIsTold'
    <2>1. main' = main
      BY <1>1, <1>9 DEF Ending, Gone
    <2>2. CASE Collect
      <3>1. signaller' = "lowerEcho"
        BY <1>1, <1>9, <2>2 DEF Collect, Ending, Gone
      <3> QED
        BY <3>1 DEF EchoIsTold
    <2>3. CASE LowerEcho
      <3>1. signaller' = "lowerReception" /\ ~mem'.serving["bpecho"]
        BY <1>0, <2>3 DEF LowerEcho, Memory
      <3> QED
        BY <3>1 DEF EchoIsTold
    <2>4. ASSUME ~Collect, ~LowerEcho
          PROVE  Ending /\ EchoIsTold /\ ~mem'.serving["bpecho"]
      <3>1. requested' = requested /\ signaller # "lowerEcho"
        BY <2>4 DEF Signaller, LowerReception, WakeReception, WakeEcho
      <3>2. Ending /\ EchoIsTold
        BY <1>1, <1>9, <3>1 DEF WakeInv, Ending
      <3> QED
        BY <1>0, <1>2, <3>1, <3>2 DEF EchoIsTold
    <2>5. CASE LowerReception \/ (WakeReception /\ mem.ionConnected)
      <3>1. signaller' \in {"wakeReception", "wakeEcho"} /\ ~Collect /\ ~LowerEcho
        BY <2>5 DEF LowerReception, WakeReception, Collect, LowerEcho
      <3> QED
        BY <2>4, <3>1 DEF EchoIsTold
    <2>6. CASE WakeReception /\ ~mem.ionConnected
      <3>1. ~Collect /\ ~LowerEcho
        BY <2>6 DEF WakeReception, Collect, LowerEcho
      <3>2. ~Holds("bpecho")
        BY <1>0, <1>1, <2>6 DEF WakeInv, ConnectedWhileHolding
      <3>3. \A i \in Slot : ~Waits("bpecho", i)'
        BY <1>0, <1>3, <3>2 DEF Holds
      <3> QED
        BY <2>4, <3>1, <3>3 DEF EchoIsTold
    <2>7. CASE WakeEcho
      <3>1. ~Collect /\ ~LowerEcho
        BY <2>7 DEF WakeEcho, Collect, LowerEcho
      <3>2. ASSUME NEW i \in Slot, Waits("bpecho", i)' PROVE "bpecho" \in wake'
        <4>1. Waits("bpecho", i)
          BY <1>0, <1>3, <3>2
        <4>2. ion = "up" /\ mem.sap["bpecho"] = era
          BY <1>9, <1>1, <4>1 DEF WakeInv, EchoCanBeWoken, Waits, Live
        <4> QED
          BY <2>7, <4>2 DEF WakeEcho, Interrupt, Live
      <3> QED
        BY <2>4, <3>1, <3>2 DEF EchoIsTold, Woken
    <2> QED
      BY <2>2, <2>3, <2>5, <2>6, <2>7 DEF Signaller
  <1> QED
    BY <1>1, <1>6, <1>7, <1>8, <1>9 DEF WakeInv, EchoIsTold

\* Every step of the world outside: what ION stops has nobody waiting on it any
\* more, and what it starts had nobody waiting on it yet.
LEMMA WorldKeepsWakeInv == TypeInv /\ WakeInv /\ ~Gone /\ World => WakeInv'
  <1> SUFFICES ASSUME TypeInv, WakeInv, ~Gone, World PROVE WakeInv'
    OBVIOUS
  <1>0. /\ era \in Nat /\ era # NULL /\ NULL \notin Nat
        /\ \A s \in Service : mem.sap[s] \in Nat \cup {NULL}
        /\ \A s \in Service, i \in Slot :
             <<s, i>> \in Thread /\ parkedOn[<<s, i>>] \in Nat \cup {NULL}
    BY LifecycleAssumption DEF TypeInv, TypeOK, Memory, Era, Sap, Thread
  <1>1. UNCHANGED <<main, signaller, thread, parkedOn, mem, requested, raced, replaced>>
    BY DEF World, Signalled, Arrives, IonStops, IonStarts, WorldFrame, history
  <1>2. CASE IonStops \/ IonStarts
    <2>1. HandlesAreOpened
      BY DEF WakeInv
    <2>2. ASSUME NEW s \in Service PROVE ~Live(mem.sap[s])'
      <3>1. Opened(mem.sap[s]) /\ mem.sap[s] \in Nat \cup {NULL}
        BY <1>0, <2>1 DEF HandlesAreOpened
      <3> QED
        BY <1>0, <1>1, <1>2, <3>1 DEF Live, Opened, IonStops, IonStarts
    <2>3. ASSUME NEW s \in Service, NEW i \in Slot PROVE ~Waits(s, i)'
      <3>1. Opened(parkedOn[<<s, i>>]) /\ parkedOn[<<s, i>>] \in Nat \cup {NULL}
        BY <1>0, <2>1 DEF HandlesAreOpened
      <3> QED
        BY <1>0, <1>1, <1>2, <3>1 DEF Waits, Live, Opened, IonStops, IonStarts
    <2>4. HandlesAreOpened'
      <3>1. ASSUME NEW t \in Thread PROVE Opened(parkedOn[t])'
        <4>1. Opened(parkedOn[t]) /\ parkedOn[t] \in Nat \cup {NULL}
          BY <2>1, LifecycleAssumption DEF HandlesAreOpened, TypeInv, TypeOK, Sap, Era
        <4> QED
          BY <1>0, <1>1, <1>2, <4>1 DEF Opened, IonStops, IonStarts
      <3>2. ASSUME NEW s \in Service PROVE Opened(mem.sap[s])'
        <4>1. Opened(mem.sap[s]) /\ mem.sap[s] \in Nat \cup {NULL}
          BY <1>0, <2>1 DEF HandlesAreOpened
        <4> QED
          BY <1>0, <1>1, <1>2, <4>1 DEF Opened, IonStops, IonStarts
      <3> QED
        BY <3>1, <3>2 DEF HandlesAreOpened
    <2>5. ConnectedWhileHolding'
      <3>1. \A s \in Service : ~Holds(s)'
        BY <2>2, <2>3 DEF Holds
      <3> QED
        BY <1>1, <3>1 DEF WakeInv, ConnectedWhileHolding
    <2>6. ~replaced => (EchoCanBeWoken /\ EchoIsTold /\ ReceptionIsTold)'
      BY <1>1, <2>3 DEF WakeInv, EchoCanBeWoken, EchoIsTold, Ending, Gone, ReceptionIsTold, Service
    <2> QED
      BY <1>1, <2>4, <2>5, <2>6 DEF WakeInv
  <1>3. CASE Signalled \/ \E s \in Service : Arrives(s)
    <2>1. UNCHANGED <<ion, era, wake>>
      BY <1>3 DEF Signalled, Arrives, env
    <2>2. \A s \in Service : Woken(s) => Woken(s)'
      <3>1. \A s \in Service : queue[s] > 0 => queue'[s] > 0
        BY <1>3, LifecycleAssumption DEF Signalled, Arrives, env, TypeInv, TypeOK
      <3> QED
        BY <2>1, <3>1 DEF Woken
    <2>3. \A s \in Service, i \in Slot : Waits(s, i)' = Waits(s, i)
      BY <1>1, <2>1 DEF Waits, Live
    <2>4. \A s \in Service : Holds(s)' = Holds(s)
      BY <1>1, <2>1, <2>3 DEF Holds, Live
    <2>5. HandlesAreOpened' /\ ConnectedWhileHolding'
      BY <1>1, <2>1, <2>4
      DEF WakeInv, HandlesAreOpened, Opened, ConnectedWhileHolding, Gone
    <2>6. ~replaced => (EchoCanBeWoken /\ EchoIsTold /\ ReceptionIsTold)'
      BY <1>1, <2>1, <2>2, <2>3
      DEF WakeInv, EchoCanBeWoken, EchoIsTold, Ending, Gone, ReceptionIsTold, Service
    <2> QED
      BY <1>1, <2>5, <2>6 DEF WakeInv
  <1> QED
    BY <1>2, <1>3 DEF World

\* A step of something else changes nothing of it.
LEMMA StutterKeepsWakeInv == WakeInv /\ UNCHANGED vars => WakeInv'
  BY DEF WakeInv, HandlesAreOpened, Opened, ConnectedWhileHolding, Holds, Waits, Live, Woken, Gone,
         EchoCanBeWoken, EchoIsTold, Ending, ReceptionIsTold, vars, env, history

\* "Without these the service threads would stay parked in the blocking
\* bp_receive": once the signal thread has done its part, no thread main waits for
\* is parked with nothing to wake it, unless the services were started again after
\* the signal or a thread was replaced: NobodyIsStranded of Lifecycle, however
\* often ION stops and restarts meanwhile.
THEOREM NoThreadIsStranded == Spec => []NobodyIsStranded
  <1>1. Init => TypeInv /\ TeardownInv /\ WakeInv
    BY InitTypeInv, InitTeardownInv, InitWakeInv
  <1>2. TypeInv /\ TeardownInv /\ WakeInv /\ [Next]_vars => TypeInv' /\ TeardownInv' /\ WakeInv'
    BY MainKeepsTypes, StepKeepsTypes, SignallerKeepsTypes, WorldKeepsTypes, StutterKeepsTypes,
       MainKeepsTeardown, StepKeepsTeardown, OthersKeepTeardown,
       MainKeepsWakeInv, StepKeepsWakeInv, SignallerKeepsWakeInv, WorldKeepsWakeInv,
       StutterKeepsWakeInv
    DEF Next
  <1>3. TypeInv /\ TeardownInv /\ WakeInv => NobodyIsStranded
    <2> SUFFICES ASSUME TypeInv, TeardownInv, WakeInv, requested, ~raced, ~replaced,
                        signaller = "wait", main \in {"joinReception", "joinEcho"},
                        NEW s \in Service, NEW i \in Slot, Waits(s, i)
                 PROVE  Woken(s)
      BY DEF NobodyIsStranded, Waits, Woken, Thread
    <2>1. CASE s = "bpecho"
      BY <2>1 DEF WakeInv, EchoIsTold, Ending, Gone
    <2>2. CASE s = "reception" /\ main = "joinReception"
      BY <2>2 DEF WakeInv, ReceptionIsTold
    <2>3. CASE s = "reception" /\ main = "joinEcho"
      <3>1. Quiet("reception")
        BY <2>3 DEF TeardownInv, EndedSoFar
      <3> QED
        BY <2>3, <3>1 DEF Quiet, Busy, Waits
    <2> QED
      BY <2>1, <2>2, <2>3 DEF Service
  <1> QED
    BY <1>1, <1>2, <1>3, PTL DEF Spec
=============================================================================
