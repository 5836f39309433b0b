----------------------------- MODULE Lifecycle -----------------------------
(***************************************************************************)
(* The threads of one dtnex process (dtnex.c): main, which connects to     *)
(* ION, starts the two services, loops and tears down; the signal thread;  *)
(* the reception and the bpecho thread, parked in bp_receive.  ION stops   *)
(* and restarts; termination signals and bundles arrive at any time.       *)
(*                                                                         *)
(* A step ends where another thread can see or change what it left: at a   *)
(* write of a shared flag, a call that blocks, a call of ION.  The threads *)
(* share `mem`, the globals of dtnex.c; execv gives the process a new one. *)
(*                                                                         *)
(* Of ION (external): an interrupt of an endpoint nobody is receiving on   *)
(* is kept for the next bp_receive; calls on a handle opened before ION    *)
(* stopped fail, those already blocked included.                           *)
(***************************************************************************)
EXTENDS Integers

CONSTANTS NULL,
          MaxSignals,  \* bound: termination signals sent
          MaxBundles,  \* bound: bundles that arrive
          MaxOutages,  \* bound: stops of ION
          MaxFaults    \* bound: failures of bp_open, attendant, pthread_create, execv

Era == 0..MaxOutages    \* an ION handle is named after the run of ION it is of
Sap == Era \cup {NULL}

ASSUME LifecycleAssumption ==
  /\ NULL \notin Nat
  /\ MaxSignals \in Nat
  /\ MaxBundles \in Nat
  /\ MaxOutages \in Nat
  /\ MaxFaults \in Nat

Service == {"reception", "bpecho"}
Slot == {1, 2}
Thread == Service \X Slot

VARIABLES
  ion,        \* is ION up?
  era,        \* how often it has stopped
  queue,      \* queue[s]: bundles waiting at the endpoint of service s
  wake,       \* endpoints with an interrupt nobody has consumed
  arrived,    \* number of bundles so far
  main,       \* where main stands
  signaller,  \* where signalWaitThread stands
  thread,     \* thread[s, i]: where the thread of service s in slot i stands
  parkedOn,   \* parkedOn[s, i]: the handle it has given to bp_receive
  mem,        \* the globals
  pending,    \* signals sent and not yet collected
  sent,       \* number of signals so far
  faults,     \* number of faults so far
  requested,  \* history: a signal was collected
  raced,      \* history: bpecho was started, or the process re-executed, after it
  replaced    \* history: a service thread was started before the last one ended

env == <<ion, era, queue, wake, arrived>>
history == <<requested, raced, replaced>>
vars == <<env, main, signaller, thread, parkedOn, mem, pending, sent, faults, history>>

Memory == [running: BOOLEAN, ionConnected: BOOLEAN, inLoop: BOOLEAN, signalCount: {0, 1},
           sap: [Service -> Sap],          \* sap, bpechoState.sap
           serving: [Service -> BOOLEAN],  \* bundleReceptionState.running, bpechoState.running
           started: [Service -> BOOLEAN],  \* ...ThreadStarted
           handle: [Service -> Slot]]      \* the pthread_t main joins

\* The static initialisers.
Loaded == [running |-> TRUE, ionConnected |-> FALSE, inLoop |-> FALSE, signalCount |-> 0,
           sap |-> [s \in Service |-> NULL], serving |-> [s \in Service |-> FALSE],
           started |-> [s \in Service |-> FALSE], handle |-> [s \in Service |-> 1]]

Gone == main \in {"done", "failed", "killed"}
Live(sap) == ion = "up" /\ sap = era
Busy(t) == thread[t] # "none"

TypeOK ==
  /\ ion \in {"up", "down"}
  /\ era \in Era
  /\ queue \in [Service -> 0..MaxBundles]
  /\ wake \subseteq Service
  /\ arrived \in 0..MaxBundles
  /\ main \in {"connect", "connected", "openEcho", "initEcho", "createEcho", "initReception",
               "createReception", "top", "scheduled", "update", "wakeup", "exchange", "restart", "exec",
               "stop", "joinReception", "joinEcho", "close", "done", "failed", "killed"}
  /\ signaller \in {"wait", "lowerEcho", "lowerReception", "wakeReception", "wakeEcho"}
  /\ thread \in [Thread -> {"none", "top", "parked", "handling", "closing"}]
  /\ parkedOn \in [Thread -> Sap]
  /\ mem \in Memory
  /\ pending \in 0..MaxSignals
  /\ sent \in 0..MaxSignals
  /\ faults \in 0..MaxFaults
  /\ requested \in BOOLEAN /\ raced \in BOOLEAN /\ replaced \in BOOLEAN

Init ==
  /\ ion \in {"up", "down"}
  /\ era = 0
  /\ queue = [s \in Service |-> 0]
  /\ wake = {}
  /\ arrived = 0
  /\ main = "connect"
  /\ signaller = "wait"
  /\ thread = [t \in Thread |-> "none"]
  /\ parkedOn = [t \in Thread |-> NULL]
  /\ mem = Loaded
  /\ pending = 0
  /\ sent = 0
  /\ faults = 0
  /\ requested = FALSE /\ raced = FALSE /\ replaced = FALSE

-----------------------------------------------------------------------------
(* main: connecting, and starting the services.                            *)

MainFrame == UNCHANGED <<ion, era, arrived, signaller, parkedOn, pending, sent, requested>>
Quietly == UNCHANGED <<queue, wake, thread, faults, raced, replaced>>
Fault == faults < MaxFaults /\ faults' = faults + 1

\* Mutant of Connect: the loop never retries.
Connect_StartupOnly ==
  /\ main = "connect"
  /\ ion = "up"
  /\ mem' = [mem EXCEPT !.sap["reception"] = era]
  /\ main' = "connected"
  /\ MainFrame /\ Quietly

\* tryConnectToIon, called by init and again by the loop when its retry is due.
Connect ==
  /\ \/ main = "connect"
     \/ main = "top" /\ mem.running /\ ~mem.ionConnected
  /\ ion = "up"
  /\ mem' = [mem EXCEPT !.sap["reception"] = era]
  /\ main' = "connected"
  /\ MainFrame /\ Quietly

\* At startup main goes on without ION; a later retry changes nothing.
ConnectFails ==
  /\ main = "connect"
  /\ (ion = "down" /\ UNCHANGED faults) \/ Fault
  /\ mem' = [mem EXCEPT !.inLoop = TRUE]
  /\ main' = "top"
  /\ UNCHANGED <<queue, wake, thread, raced, replaced>>
  /\ MainFrame

Connected ==
  /\ main = "connected"
  /\ mem' = [mem EXCEPT !.ionConnected = TRUE]
  /\ main' = IF mem.serving["bpecho"] THEN "initReception" ELSE "openEcho"
  /\ MainFrame /\ Quietly

\* initBpechoService: bp_open.
OpenEcho ==
  /\ main = "openEcho"
  /\ Live(mem.sap["reception"])
  /\ mem' = [mem EXCEPT !.sap["bpecho"] = era]
  /\ main' = "initEcho"
  /\ MainFrame /\ Quietly

OpenEchoFails ==
  /\ main = "openEcho"
  /\ (~Live(mem.sap["reception"]) /\ UNCHANGED faults) \/ Fault
  /\ main' = "initReception"
  /\ UNCHANGED <<mem, queue, wake, thread, raced, replaced>>
  /\ MainFrame

\* state->running = 1, whatever the signal thread has done to it.
InitEcho ==
  /\ main = "initEcho"
  /\ mem' = [mem EXCEPT !.serving["bpecho"] = TRUE]
  /\ raced' = (raced \/ (requested /\ signaller # "lowerEcho"))
  /\ \/ main' = "createEcho" /\ UNCHANGED faults
     \/ main' = "initReception" /\ Fault    \* ionStartAttendant fails
  /\ UNCHANGED <<queue, wake, thread, replaced>>
  /\ MainFrame

\* Mutant of Create: ...ThreadStarted is raised at startup only.
Create_StartedAtStartup(s, m) ==
  /\ \E i \in Slot :
       /\ ~Busy(<<s, i>>) /\ \A j \in Slot : j < i => Busy(<<s, j>>)
       /\ thread' = [thread EXCEPT ![<<s, i>>] = "top"]
       /\ mem' = [m EXCEPT !.started[s] = @ \/ ~mem.inLoop, !.handle[s] = i]
  /\ replaced' = (replaced \/ \E i \in Slot : Busy(<<s, i>>))
  /\ UNCHANGED <<queue, wake, faults, raced>>
  /\ MainFrame

\* pthread_create: the new thread takes the handle main joins.
Create(s, m) ==
  /\ \E i \in Slot :
       /\ ~Busy(<<s, i>>) /\ \A j \in Slot : j < i => Busy(<<s, j>>)
       /\ thread' = [thread EXCEPT ![<<s, i>>] = "top"]
       /\ mem' = [m EXCEPT !.started[s] = TRUE, !.handle[s] = i]
  /\ replaced' = (replaced \/ \E i \in Slot : Busy(<<s, i>>))
  /\ UNCHANGED <<queue, wake, faults, raced>>
  /\ MainFrame

CreateEcho ==
  /\ main = "createEcho"
  /\ Create("bpecho", mem)
  /\ main' = "initReception"

CreateEchoFails ==
  /\ main = "createEcho"
  /\ Fault
  /\ mem' = IF mem.inLoop THEN [mem EXCEPT !.serving["bpecho"] = FALSE] ELSE mem
  /\ main' = "initReception"
  /\ UNCHANGED <<queue, wake, thread, raced, replaced>>
  /\ MainFrame

\* Once the services are started: the first turn of the loop, or the rest of one.
Looping == [mem EXCEPT !.inLoop = TRUE]
Served == IF mem.inLoop THEN "wakeup" ELSE "top"

InitReception ==
  /\ main = "initReception"
  /\ IF mem.serving["reception"]
     THEN mem' = Looping /\ main' = Served
     ELSE mem' = [mem EXCEPT !.serving["reception"] = TRUE] /\ main' = "createReception"
  /\ MainFrame /\ Quietly

CreateReception ==
  /\ main = "createReception"
  /\ Create("reception", Looping)
  /\ main' = Served

\* At startup the process exits; in the loop it goes on without the thread.
CreateReceptionFails ==
  /\ main = "createReception"
  /\ Fault
  /\ main' = IF mem.inLoop THEN "wakeup" ELSE "failed"
  /\ UNCHANGED <<mem, queue, wake, thread, raced, replaced>>
  /\ MainFrame

-----------------------------------------------------------------------------
(* main: eventDrivenLoop.                                                  *)

\* The update may be due or not.
Turn ==
  /\ main = "top"
  /\ IF mem.running THEN mem.ionConnected /\ main' \in {"scheduled", "wakeup"}
                    ELSE main' = "stop"
  /\ UNCHANGED mem
  /\ MainFrame /\ Quietly

\* checkIonStatus, a bp_receive on the reception thread's own handle: it lets go
\* of the bundle it finds.
CheckIonStatus ==
  /\ main = "scheduled"
  /\ IF Live(mem.sap["reception"])
     THEN /\ queue' = [queue EXCEPT !["reception"] = IF @ > 0 THEN @ - 1 ELSE 0]
          /\ main' = "update"
          /\ UNCHANGED mem
     ELSE /\ mem' = [mem EXCEPT !.ionConnected = FALSE]
          /\ main' = "top"
          /\ UNCHANGED queue
  /\ UNCHANGED <<wake, thread, faults, raced, replaced>>
  /\ MainFrame

WakeUp ==
  /\ main = "wakeup"
  /\ main' = IF ~mem.running THEN "stop" ELSE IF mem.ionConnected THEN "exchange" ELSE "top"
  /\ UNCHANGED mem
  /\ MainFrame /\ Quietly

\* exchangeWithNeighbors, then getContacts: ION has gone, or is another one.
Exchange ==
  /\ main \in {"update", "exchange"}
  /\ IF Live(mem.sap["reception"])
     THEN /\ main' = IF main = "update" THEN "wakeup" ELSE "top"
          /\ UNCHANGED mem
     ELSE /\ mem' = [mem EXCEPT !.sap["reception"] = NULL, !.ionConnected = FALSE]
          /\ main' = "restart"
  /\ MainFrame /\ Quietly

\* restartDtnex, up to the execv.
Restart ==
  /\ main = "restart"
  /\ mem' = [mem EXCEPT !.running = FALSE]
  /\ main' = "exec"
  /\ MainFrame /\ Quietly

\* The process image is replaced, whatever its threads are doing.
Exec ==
  /\ main = "exec"
  /\ main' = "connect"
  /\ mem' = Loaded
  /\ signaller' = "wait"
  /\ thread' = [t \in Thread |-> "none"]
  /\ parkedOn' = [t \in Thread |-> NULL]
  /\ raced' = (raced \/ requested)
  /\ UNCHANGED <<env, pending, sent, faults, requested, replaced>>

\* The program has been moved or deleted: exit.
ExecFails ==
  /\ main = "exec"
  /\ Fault
  /\ main' = "failed"
  /\ UNCHANGED <<mem, queue, wake, thread, raced, replaced>>
  /\ MainFrame

-----------------------------------------------------------------------------
(* main: the teardown.                                                     *)

Interrupt(s) == wake' = IF Live(mem.sap[s]) THEN wake \cup {s} ELSE wake

\* stopBundleReception
Stop ==
  /\ main = "stop"
  /\ IF mem.started["reception"]
     THEN /\ mem' = [mem EXCEPT !.serving["reception"] = FALSE]
          /\ IF mem.ionConnected THEN Interrupt("reception") ELSE UNCHANGED wake
          /\ main' = "joinReception"
     ELSE /\ main' = "joinEcho"
          /\ UNCHANGED <<mem, wake>>
  /\ UNCHANGED <<queue, thread, faults, raced, replaced>>
  /\ MainFrame

Ended(s) == ~Busy(<<s, mem.handle[s]>>)

JoinReception ==
  /\ main = "joinReception"
  /\ Ended("reception")
  /\ main' = "joinEcho"
  /\ UNCHANGED mem
  /\ MainFrame /\ Quietly

JoinEcho ==
  /\ main = "joinEcho"
  /\ mem.started["bpecho"] => Ended("bpecho")
  /\ main' = "close"
  /\ UNCHANGED mem
  /\ MainFrame /\ Quietly

\* bp_close and bp_detach.
Close ==
  /\ main = "close"
  /\ main' = "done"
  /\ mem' = [mem EXCEPT !.sap["reception"] = NULL]
  /\ MainFrame /\ Quietly

Main ==
  \/ Connect \/ ConnectFails \/ Connected
  \/ OpenEcho \/ OpenEchoFails \/ InitEcho \/ CreateEcho \/ CreateEchoFails
  \/ InitReception \/ CreateReception \/ CreateReceptionFails
  \/ Turn \/ CheckIonStatus \/ WakeUp \/ Exchange \/ Restart \/ Exec \/ ExecFails
  \/ Stop \/ JoinReception \/ JoinEcho \/ Close

-----------------------------------------------------------------------------
(* runBundleReception and runBpechoService.                                *)

ServiceFrame == UNCHANGED <<ion, era, arrived, main, signaller, pending, sent, faults, history>>

Serves(s) == mem.serving[s] /\ (s = "reception" => mem.running)

\* Out of the loop: bpecho closes its endpoint, the reception thread returns.
Leaving(s) == IF s = "bpecho" THEN "closing" ELSE "none"

Goes(t, label) == thread' = [thread EXCEPT ![t] = label]

\* The test of the loop and the call of bp_receive.
Receive(t) ==
  /\ thread[t] = "top"
  /\ IF Serves(t[1]) THEN Goes(t, "parked") /\ parkedOn' = [parkedOn EXCEPT ![t] = mem.sap[t[1]]]
                     ELSE Goes(t, Leaving(t[1])) /\ UNCHANGED parkedOn
  /\ UNCHANGED <<queue, wake, mem>>
  /\ ServiceFrame

Delivered(t) ==
  /\ thread[t] = "parked" /\ Live(parkedOn[t])
  /\ queue[t[1]] > 0
  /\ queue' = [queue EXCEPT ![t[1]] = @ - 1]
  /\ Goes(t, "handling")
  /\ parkedOn' = [parkedOn EXCEPT ![t] = NULL]
  /\ UNCHANGED <<wake, mem>>
  /\ ServiceFrame

Interrupted(t) ==
  /\ thread[t] = "parked" /\ Live(parkedOn[t])
  /\ queue[t[1]] = 0
  /\ t[1] \in wake
  /\ wake' = wake \ {t[1]}
  /\ Goes(t, "top")
  /\ parkedOn' = [parkedOn EXCEPT ![t] = NULL]
  /\ UNCHANGED <<queue, mem>>
  /\ ServiceFrame

\* ION has stopped: bp_receive fails, which the reception thread takes for the
\* normal shutdown if there is one; or it says that the endpoint has stopped, and
\* then the reception thread stops the whole process.
Fails(t) ==
  /\ thread[t] = "parked" /\ ~Live(parkedOn[t])
  /\ \/ mem' = [mem EXCEPT !.serving[t[1]] = @ /\ t[1] = "reception" /\ ~mem.running]
     \/ t[1] = "reception" /\ mem' = [mem EXCEPT !.serving[t[1]] = FALSE, !.running = FALSE]
  /\ Goes(t, Leaving(t[1]))
  /\ parkedOn' = [parkedOn EXCEPT ![t] = NULL]
  /\ UNCHANGED <<queue, wake>>
  /\ ServiceFrame

\* The bundle is processed and forwarded, or echoed.  Once ION has stopped the
\* transaction that reads it may not begin, and CHKZERO returns from the thread: its
\* flag stays up, and bpecho leaves its endpoint open.
Handled(t) ==
  /\ thread[t] = "handling"
  /\ Goes(t, "top") \/ (era > 0 /\ Goes(t, "none"))
  /\ UNCHANGED <<queue, wake, mem, parkedOn>>
  /\ ServiceFrame

Closes(t) ==
  /\ t[1] = "bpecho" /\ thread[t] = "closing"
  /\ mem' = [mem EXCEPT !.sap["bpecho"] = NULL]
  /\ Goes(t, "none")
  /\ UNCHANGED <<queue, wake, parkedOn>>
  /\ ServiceFrame

Step(t) ==
  ~Gone /\ (Receive(t) \/ Delivered(t) \/ Interrupted(t) \/ Fails(t) \/ Handled(t) \/ Closes(t))

-----------------------------------------------------------------------------
(* signalWaitThread.                                                       *)

SignalFrame ==
  UNCHANGED <<ion, era, queue, arrived, thread, parkedOn, sent, faults, raced, replaced>>

Collect ==
  /\ signaller = "wait"
  /\ pending > 0
  /\ pending' = pending - 1
  /\ requested' = TRUE
  /\ IF mem.signalCount = 0
     THEN /\ mem' = [mem EXCEPT !.signalCount = 1, !.running = FALSE]
          /\ signaller' = "lowerEcho"
          /\ UNCHANGED main
     ELSE main' = "killed" /\ UNCHANGED <<mem, signaller>>
  /\ UNCHANGED wake
  /\ SignalFrame

\* Mutant of LowerEcho: the flag is left to the bpecho thread itself.
LowerEcho_LeftToThread ==
  /\ signaller = "lowerEcho"
  /\ signaller' = "lowerReception"
  /\ UNCHANGED <<main, mem, wake, pending, requested>>
  /\ SignalFrame

LowerEcho ==
  /\ signaller = "lowerEcho"
  /\ mem' = [mem EXCEPT !.serving["bpecho"] = FALSE]
  /\ signaller' = "lowerReception"
  /\ UNCHANGED <<main, wake, pending, requested>>
  /\ SignalFrame

LowerReception ==
  /\ signaller = "lowerReception"
  /\ mem' = [mem EXCEPT !.serving["reception"] = FALSE]
  /\ signaller' = "wakeReception"
  /\ UNCHANGED <<main, wake, pending, requested>>
  /\ SignalFrame

\* The wake-ups are conditional: ION may be unreachable.
WakeReception ==
  /\ signaller = "wakeReception"
  /\ IF mem.ionConnected THEN Interrupt("reception") /\ signaller' = "wakeEcho"
                         ELSE UNCHANGED wake /\ signaller' = "wait"
  /\ UNCHANGED <<main, mem, pending, requested>>
  /\ SignalFrame

\* Mutant of WakeEcho: the attendant is paused, the endpoint is not interrupted.
WakeEcho_AttendantOnly ==
  /\ signaller = "wakeEcho"
  /\ signaller' = "wait"
  /\ UNCHANGED <<main, mem, wake, pending, requested>>
  /\ SignalFrame

WakeEcho ==
  /\ signaller = "wakeEcho"
  /\ Interrupt("bpecho")
  /\ signaller' = "wait"
  /\ UNCHANGED <<main, mem, pending, requested>>
  /\ SignalFrame

Signaller == ~Gone /\ (Collect \/ LowerEcho \/ LowerReception \/ WakeReception \/ WakeEcho)

-----------------------------------------------------------------------------
(* The world outside the process.                                          *)

Signalled ==
  /\ sent < MaxSignals
  /\ sent' = sent + 1
  /\ pending' = pending + 1
  /\ UNCHANGED <<env, main, signaller, thread, parkedOn, mem, faults, history>>

WorldFrame ==
  UNCHANGED <<main, signaller, thread, parkedOn, mem, pending, sent, faults, history>>

Arrives(s) ==
  /\ ion = "up"
  /\ arrived < MaxBundles
  /\ arrived' = arrived + 1
  /\ queue' = [queue EXCEPT ![s] = @ + 1]
  /\ UNCHANGED <<ion, era, wake>>
  /\ WorldFrame

IonStops ==
  /\ ion = "up"
  /\ era < MaxOutages
  /\ ion' = "down"
  /\ era' = era + 1
  /\ wake' = {}
  /\ UNCHANGED <<queue, arrived>>
  /\ WorldFrame

IonStarts ==
  /\ ion = "down"
  /\ ion' = "up"
  /\ UNCHANGED <<era, queue, wake, arrived>>
  /\ WorldFrame

World == Signalled \/ (\E s \in Service : Arrives(s)) \/ IonStops \/ IonStarts

Next == (~Gone /\ Main) \/ (\E t \in Thread : Step(t)) \/ Signaller \/ (~Gone /\ World)

Spec == Init /\ [][Next]_vars

\* The threads run: nothing in dtnex holds the processor or waits for another
\* thread but the joins.
Fairness ==
  /\ WF_vars(~Gone /\ Main)
  /\ \A t \in Thread : WF_vars(Step(t))
  /\ WF_vars(Signaller)

FairSpec == Spec /\ Fairness

-----------------------------------------------------------------------------
\* "Cleanup is performed by main ... outside any SDR transaction": when main
\* closes the endpoint, no service thread is at work.
TeardownIsOutside == main = "close" => \A t \in Thread : ~Busy(t)

\* The exact exception: pthread_create has overwritten the handle of a thread
\* that was still running, so that nobody joins it.
TeardownIsOutsideUnlessReplaced == ~replaced => TeardownIsOutside

\* "Without these the service threads would stay parked in the blocking
\* bp_receive and the join would never return": a termination signal ends the
\* process.
SignalEndsTheProcess == requested ~> Gone

\* The same, but for a bpecho service started after its flag was lowered, for a
\* process re-executed after the signal, and for a service thread started while
\* the last one was closing the endpoint the two share.
SignalEndsTheProcessUnlessRaced == requested ~> (Gone \/ raced \/ replaced)

\* What it takes: once the signal thread has done its part, a thread main waits
\* for is not parked in bp_receive with nothing to wake it.
NobodyIsStranded ==
  /\ requested /\ ~raced /\ ~replaced
  /\ signaller = "wait"
  /\ main \in {"joinReception", "joinEcho"}
  => \A t \in Thread :
       thread[t] = "parked" /\ Live(parkedOn[t]) => t[1] \in wake \/ queue[t[1]] > 0

\* After the last restart of ION, the process is attached to it again, or ends.
Stopping == main \in {"stop", "joinReception", "joinEcho", "close"}
Attached == mem.ionConnected /\ Live(mem.sap["reception"])
Reattaches == (ion = "up" /\ era = MaxOutages) ~> (Gone \/ Stopping \/ Attached)
=============================================================================
