-------------------------- MODULE DiskMonitorProofs --------------------------
(***************************************************************************)
(* For any number of connections, with stops that time out, polls that     *)
(* fail and a deletion at any point: DiskMonitor is type correct, a        *)
(* monitor that has not been told to stop is the one the component manager *)
(* holds, and one that is shut down stays quiet.                           *)
(*                                                                         *)
(* The state of a monitor is overwritten by whoever comes last, so the     *)
(* argument rests on what is not: the event, which is never cleared, and   *)
(* the executor, which never takes tasks again.  A monitor is dropped by a *)
(* disconnect that has set the event, unless the thread had ended, or by a *)
(* deletion that has closed the executor.                                  *)
(***************************************************************************)
EXTENDS DiskMonitor, TLAPS

InStart == {"start", "starting", "submit"}
InMonitor == {"start", "starting", "submit", "started", "stop", "tell", "told", "stopping",
              "close", "join", "drop"}

(* Who is in a monitor is in the one of the component manager, unless the  *)
(* other client has dropped that.                                          *)
PlaceInv ==
  /\ \A c \in Clients : client[c].pc \in InMonitor =>
       client[c].m \in 1 .. made /\ (client[c].m = task \/ task = 0)
  /\ comm # "ESTABLISHED" => task = 0

(* A monitor is made without a thread, and it has none until its start.    *)
FreshInv ==
  /\ \A m \in Monitors : m > made => worker[m] = "none"
  /\ client["comm"].pc = "connect" /\ task # 0 => worker[task] = "none"
  /\ client["comm"].pc \in InStart =>
       /\ worker[client["comm"].m] = "none"
       /\ client["comm"].m = task \/ ~pool[client["comm"].m]
  /\ client["comm"].pc = "submit" /\ pool[client["comm"].m] =>
       state[client["comm"].m] \in {"STARTING", "MONITORING", "STOPPING"}

(* A thread at work keeps the state from looking as if there were none.    *)
BusyInv == \A m \in Monitors : AtWork(m) => state[m] \in {"STARTING", "MONITORING", "STOPPING"}

(* The event is there before STOPPING and after a stop.                    *)
ToldInv ==
  /\ \A m \in Monitors : state[m] = "STOPPING" => evt[m]
  /\ \A c \in Clients : client[c].pc \in {"told", "stopping"} => evt[client[c].m]
  /\ client["comm"].pc = "drop" => ~AtWork(client["comm"].m) \/ evt[client["comm"].m]

(* A deletion closes the executor before it drops the monitor.             *)
ClosedInv ==
  /\ client["delete"].pc \in {"join", "drop"} => ~pool[client["delete"].m]
  /\ client["delete"].pc = "drop" => ~AtWork(client["delete"].m)

Inv == PlaceInv /\ FreshInv /\ BusyInv /\ ToldInv /\ ClosedInv /\ UntoldIsCurrent /\ QuietOnceShut
IInv == TypeOK /\ Inv

-----------------------------------------------------------------------------
(* What the moves of a client do.                                          *)

Moved(c, pc, m) ==
  /\ client'[c].pc = pc /\ client'[c].m = m
  /\ \A d \in Clients : d # c => client'[d] = client[d]
  /\ client' \in [Clients -> [pc : ClientAt, m : 0 .. made]]

LEMMA GotoMoves ==
  ASSUME TypeOK, NEW c \in Clients, NEW pc \in ClientAt, Goto(c, pc)
  PROVE  Moved(c, pc, client[c].m)
BY DEF Goto, Moved, TypeOK

LEMMA EnterMoves ==
  ASSUME TypeOK, NEW c \in Clients, NEW pc \in ClientAt, NEW m \in 0 .. made, Enter(c, pc, m)
  PROVE  Moved(c, pc, m)
BY DEF Enter, Moved, TypeOK

LEMMA ReturnMoves ==
  ASSUME TypeOK, NEW c \in Clients, Return(c)
  PROVE  Moved(c, IF c = "delete" THEN "gone" ELSE "idle", 0)
<1>1. 0 \in 0 .. made
  BY MaxMonitorsAssumption DEF TypeOK
<1> QED
  BY <1>1 DEF Return, Moved, TypeOK, Idle, Gone, ClientAt

LEMMA InitInv == ASSUME Init PROVE IInv
<1>1. TypeOK
  <2>1. 0 \in 0 .. MaxMonitors /\ 0 \in 0 .. 0
    BY MaxMonitorsAssumption
  <2> QED
    BY <2>1 DEF Init, TypeOK, Idle, MonitoringStates, WorkerAt, ClientAt
<1>2. Inv
  BY DEF Init, Inv, PlaceInv, FreshInv, BusyInv, ToldInv, ClosedInv, UntoldIsCurrent, QuietOnceShut,
         AtWork, Idle, InStart, InMonitor, Clients
<1> QED
  BY <1>1, <1>2 DEF IInv

-----------------------------------------------------------------------------
(* The steps that change no monitor: connecting, disconnecting, deleting,  *)
(* looking the monitor up.                                                 *)

LEMMA RequestInv == ASSUME IInv, Request PROVE IInv'
<1> USE MaxMonitorsAssumption DEF IInv, Inv, PlaceInv, FreshInv, BusyInv, ToldInv, ClosedInv,
        UntoldIsCurrent, QuietOnceShut, AtWork, InStart, InMonitor, Clients, Requested, At, Moved
<1>1. CASE ConnectFails
  BY <1>1 DEF ConnectFails, TypeOK
<1>2. CASE Connect
  <2>1. /\ made' = made + 1 /\ task' = made + 1 /\ made + 1 \in Monitors
        /\ worker[made + 1] = "none" /\ comm' = "ESTABLISHED"
    BY <1>2 DEF Connect, TypeOK, Monitors
  <2>2. Moved("comm", "connect", client["comm"].m)
    BY <1>2, GotoMoves DEF Connect, ClientAt
  <2>3. \A c \in Clients : client'[c].pc \notin InMonitor
    BY <1>2, <2>2 DEF Connect
  <2>4. TypeOK'
    <3>1. \A c \in Clients : client'[c] \in [pc : ClientAt, m : 0 .. made + 1]
      BY <2>2 DEF TypeOK
    <3>2. client' \in [Clients -> [pc : ClientAt, m : 0 .. made + 1]]
      BY <2>2, <3>1
    <3> QED
      BY <1>2, <2>1, <3>2 DEF Connect, TypeOK, Monitors
  <2>5. PlaceInv' /\ ToldInv' /\ ClosedInv' /\ BusyInv' /\ QuietOnceShut'
    BY <1>2, <2>1, <2>2, <2>3 DEF Connect
  <2>6. FreshInv'
    BY <1>2, <2>1, <2>2, <2>3 DEF Connect, TypeOK, Monitors
  <2>7. UntoldIsCurrent'
    BY <1>2 DEF Connect, TypeOK, Monitors
  <2> QED
    BY <2>4, <2>5, <2>6, <2>7
<1>3. CASE Disconnect
  <2>1. CASE task # 0
    <3>1. Moved("comm", "disconnect", client["comm"].m)
      BY <1>3, <2>1, GotoMoves DEF Disconnect, ClientAt
    <3> QED
      BY <1>3, <2>1, <3>1 DEF Disconnect, TypeOK
  <2>2. CASE task = 0
    BY <1>3, <2>2 DEF Disconnect, TypeOK
  <2> QED
    BY <2>1, <2>2
<1>4. CASE Delete
  <2>1. Moved("delete", "disconnect", client["delete"].m) \/ Moved("delete", "gone", 0)
    BY <1>4, GotoMoves, ReturnMoves DEF Delete, ClientAt
  <2> QED
    BY <1>4, <2>1 DEF Delete, TypeOK
<1> QED
  BY <1>1, <1>2, <1>3, <1>4 DEF Request

-----------------------------------------------------------------------------
(* The steps of a start.                                                   *)

LEMMA StartingInv == ASSUME IInv, Starting PROVE IInv'
<1> USE MaxMonitorsAssumption DEF IInv, Inv, PlaceInv, FreshInv, BusyInv, ToldInv, ClosedInv,
        UntoldIsCurrent, QuietOnceShut, AtWork, InStart, InMonitor, Clients, At, On, Moved
<1>1. CASE StartLooksUp
  <2>1. CASE task = 0
    <3>1. Moved("comm", "idle", 0)
      BY <1>1, <2>1, ReturnMoves DEF StartLooksUp
    <3> QED
      BY <1>1, <2>1, <3>1 DEF StartLooksUp, TypeOK
  <2>2. CASE task # 0
    <3>1. Moved("comm", "start", task)
      BY <1>1, <2>2, EnterMoves DEF StartLooksUp, ClientAt, TypeOK
    <3>2. task \in 1 .. made
      BY <2>2 DEF TypeOK
    <3> QED
      BY <1>1, <2>2, <3>1, <3>2 DEF StartLooksUp, TypeOK
  <2> QED
    BY <2>1, <2>2
<1>2. CASE StartReads
  <2>1. Moved("comm", "starting", client["comm"].m) \/ Moved("comm", "idle", 0)
    BY <1>2, GotoMoves, ReturnMoves DEF StartReads, ClientAt
  <2> QED
    BY <1>2, <2>1 DEF StartReads, TypeOK
<1>3. CASE StartSets
  <2>1. Moved("comm", "submit", client["comm"].m)
    BY <1>3, GotoMoves DEF StartSets, ClientAt
  <2>2. On("comm") \in Monitors /\ state' = [state EXCEPT ![On("comm")] = "STARTING"]
    BY <1>3 DEF StartSets, SetState, TypeOK, Monitors
  <2> QED
    BY <1>3, <2>1, <2>2 DEF StartSets, TypeOK, MonitoringStates
<1>4. CASE StartSubmits
  <2>1. On("comm") \in Monitors
    BY <1>4 DEF StartSubmits, TypeOK, Monitors
  <2>2. CASE pool[On("comm")]
    <3>1. Moved("comm", "started", client["comm"].m)
      BY <1>4, <2>2, GotoMoves DEF StartSubmits, ClientAt
    <3>2. worker' = [worker EXCEPT ![On("comm")] = "queued"]
      BY <1>4, <2>2 DEF StartSubmits, SetWorker
    <3>3. TypeOK' /\ PlaceInv' /\ ToldInv' /\ ClosedInv'
      BY <1>4, <2>1, <2>2, <3>1, <3>2 DEF StartSubmits, TypeOK, WorkerAt
    <3>4. FreshInv'
      BY <1>4, <2>1, <3>1, <3>2 DEF StartSubmits, TypeOK, Monitors
    <3>5. BusyInv' /\ UntoldIsCurrent' /\ QuietOnceShut'
      BY <1>4, <2>1, <2>2, <3>1, <3>2 DEF StartSubmits, TypeOK
    <3> QED
      BY <3>3, <3>4, <3>5
  <2>3. CASE ~pool[On("comm")]
    <3>1. Moved("comm", "idle", 0)
      BY <1>4, <2>3, ReturnMoves DEF StartSubmits
    <3> QED
      BY <1>4, <2>3, <3>1 DEF StartSubmits, TypeOK
  <2> QED
    BY <2>2, <2>3
<1>5. CASE StartReturns
  <2>1. Moved("comm", "idle", 0)
    BY <1>5, ReturnMoves DEF StartReturns
  <2> QED
    BY <1>5, <2>1 DEF StartReturns, TypeOK
<1> QED
  BY <1>1, <1>2, <1>3, <1>4, <1>5 DEF Starting

(* The steps of a stop, by either client, up to the drop.                  *)
LEMMA StoppingInv == ASSUME IInv, NEW c \in Clients, Stopping(c) PROVE IInv'
<1> USE MaxMonitorsAssumption DEF IInv, Inv, PlaceInv, FreshInv, BusyInv, ToldInv, ClosedInv,
        UntoldIsCurrent, QuietOnceShut, AtWork, InStart, InMonitor, Clients, At, On, Moved
<1>1. CASE StopLooksUp(c)
  <2>1. CASE task = 0
    <3>1. Moved(c, "gone", 0) \/ Moved(c, "idle", 0)
      BY <1>1, <2>1, ReturnMoves DEF StopLooksUp
    <3> QED
      BY <1>1, <2>1, <3>1 DEF StopLooksUp, TypeOK
  <2>2. CASE task # 0 /\ c = "delete" /\ state[task] = "SHUTDOWN"
    <3>1. Moved(c, "drop", task)
      BY <1>1, <2>2, EnterMoves DEF StopLooksUp, ClientAt, TypeOK
    <3>2. task \in 1 .. made /\ task \in Monitors
      BY <2>2 DEF TypeOK, Monitors
    <3> QED
      BY <1>1, <2>2, <3>1, <3>2 DEF StopLooksUp, TypeOK
  <2>3. CASE task # 0 /\ ~(c = "delete" /\ state[task] = "SHUTDOWN")
    <3>1. Moved(c, "stop", task)
      BY <1>1, <2>3, EnterMoves DEF StopLooksUp, ClientAt, TypeOK
    <3>2. task \in 1 .. made
      BY <2>3 DEF TypeOK
    <3> QED
      BY <1>1, <2>3, <3>1, <3>2 DEF StopLooksUp, TypeOK
  <2> QED
    BY <2>1, <2>2, <2>3
<1>2. CASE StopReads(c)
  <2>1. On(c) \in Monitors /\ state[On(c)] \in MonitoringStates
    BY <1>2 DEF StopReads, TypeOK, Monitors
  <2>2. CASE state[On(c)] \in {"WAITING", "STOPPED", "SHUTDOWN"}
    <3>1. Goto(c, AfterStop(c)) /\ AfterStop(c) = IF c = "delete" THEN "close" ELSE "drop"
      BY <1>2, <2>2 DEF StopReads, AfterStop
    <3>2. Moved(c, IF c = "delete" THEN "close" ELSE "drop", client[c].m)
      BY <3>1, GotoMoves DEF ClientAt
    <3> QED
      BY <1>2, <2>1, <2>2, <3>2 DEF StopReads, TypeOK
  <2>3. CASE state[On(c)] \in {"STARTING", "MONITORING"}
    <3>1. Goto(c, "tell")
      BY <1>2, <2>3 DEF StopReads
    <3>2. Moved(c, "tell", client[c].m)
      BY <3>1, GotoMoves DEF ClientAt
    <3> QED
      BY <1>2, <3>2 DEF StopReads, TypeOK
  <2>4. CASE state[On(c)] = "STOPPING"
    <3>1. Goto(c, "stopping")
      BY <1>2, <2>4 DEF StopReads
    <3>2. Moved(c, "stopping", client[c].m)
      BY <3>1, GotoMoves DEF ClientAt
    <3> QED
      BY <1>2, <2>1, <2>4, <3>2 DEF StopReads, TypeOK
  <2> QED
    BY <2>1, <2>2, <2>3, <2>4 DEF MonitoringStates
<1>3. CASE StopTells(c)
  <2>1. Moved(c, "told", client[c].m)
    BY <1>3, GotoMoves DEF StopTells, ClientAt
  <2>2. On(c) \in Monitors
    BY <1>3 DEF StopTells, TypeOK, Monitors
  <2> QED
    BY <1>3, <2>1, <2>2 DEF StopTells, TypeOK
<1>4. CASE StopSets(c)
  <2>1. Moved(c, "stopping", client[c].m)
    BY <1>4, GotoMoves DEF StopSets, ClientAt
  <2>2. On(c) \in Monitors /\ state' = [state EXCEPT ![On(c)] = "STOPPING"]
    BY <1>4 DEF StopSets, SetState, TypeOK, Monitors
  <2> QED
    BY <1>4, <2>1, <2>2 DEF StopSets, TypeOK, MonitoringStates
<1>5. CASE StopEnds(c)
  <2>1. Goto(c, AfterStop(c)) /\ AfterStop(c) = IF c = "delete" THEN "close" ELSE "drop"
    BY <1>5 DEF StopEnds, AfterStop
  <2>2. Moved(c, IF c = "delete" THEN "close" ELSE "drop", client[c].m)
    BY <2>1, GotoMoves DEF ClientAt
  <2> QED
    BY <1>5, <2>2 DEF StopEnds, TypeOK
<1>6. CASE Drop(c)
  <2>1. Moved(c, IF c = "delete" THEN "gone" ELSE "idle", 0)
    BY <1>6, ReturnMoves DEF Drop
  <2>2. task' = 0 /\ 0 \in 0 .. made
    BY <1>6 DEF Drop, TypeOK
  <2>3. UntoldIsCurrent'
    BY <1>6 DEF Drop
  <2>4. TypeOK' /\ PlaceInv' /\ BusyInv' /\ QuietOnceShut' /\ ToldInv' /\ ClosedInv'
    BY <1>6, <2>1, <2>2 DEF Drop, TypeOK
  <2>5. FreshInv'
    BY <1>6, <2>1, <2>2 DEF Drop, TypeOK
  <2> QED
    BY <2>3, <2>4, <2>5
<1> QED
  BY <1>1, <1>2, <1>3, <1>4, <1>5, <1>6 DEF Stopping

(* The end of a deletion.                                                  *)
LEMMA ClosingInv == ASSUME IInv, Closing PROVE IInv'
<1> USE MaxMonitorsAssumption DEF IInv, Inv, PlaceInv, FreshInv, BusyInv, ToldInv, ClosedInv,
        UntoldIsCurrent, QuietOnceShut, AtWork, InStart, InMonitor, Clients, At, On, Moved
<1>1. CASE Close
  <2>1. On("delete") \in Monitors
    BY <1>1 DEF Close, TypeOK, Monitors
  <2>2. CASE worker[On("delete")] = "queued"
    <3>1. Moved("delete", "drop", client["delete"].m)
      BY <1>1, <2>2, GotoMoves DEF Close, ClientAt
    <3>2. worker' = [worker EXCEPT ![On("delete")] = "over"]
      BY <1>1, <2>2 DEF Close, SetWorker
    <3>3. /\ pool' = [pool EXCEPT ![On("delete")] = FALSE]
          /\ UNCHANGED <<comm, task, made, state, evt>>
      BY <1>1 DEF Close
    <3>4. \A m \in Monitors : AtWork(m)' => AtWork(m)
      BY <2>1, <3>2 DEF TypeOK
    <3>5. TypeOK'
      BY <2>1, <3>1, <3>2, <3>3 DEF TypeOK, WorkerAt
    <3>6. PlaceInv' /\ BusyInv' /\ UntoldIsCurrent' /\ ToldInv'
      BY <1>1, <2>1, <3>1, <3>2, <3>3, <3>4 DEF Close, TypeOK
    <3>7. FreshInv'
      BY <1>1, <2>1, <2>2, <3>1, <3>2, <3>3 DEF Close, TypeOK
    <3>8. ClosedInv' /\ QuietOnceShut'
      BY <1>1, <2>1, <2>2, <3>1, <3>2, <3>3 DEF Close, TypeOK
    <3> QED
      BY <3>5, <3>6, <3>7, <3>8
  <2>3. CASE worker[On("delete")] # "queued"
    <3>1. Moved("delete", "join", client["delete"].m)
      BY <1>1, <2>3, GotoMoves DEF Close, ClientAt
    <3> QED
      BY <1>1, <2>1, <2>3, <3>1 DEF Close, TypeOK
  <2> QED
    BY <2>2, <2>3
<1>2. CASE Join
  <2>1. Moved("delete", "drop", client["delete"].m)
    BY <1>2, GotoMoves DEF Join, ClientAt
  <2>2. On("delete") \in Monitors /\ state' = [state EXCEPT ![On("delete")] = "SHUTDOWN"]
    BY <1>2 DEF Join, SetState, TypeOK, Monitors
  <2> QED
    BY <1>2, <2>1, <2>2 DEF Join, TypeOK, MonitoringStates
<1> QED
  BY <1>1, <1>2 DEF Closing

(* The thread of a monitor, and its collection.                            *)
LEMMA MonitorInv ==
  ASSUME IInv, NEW m \in Monitors, MonitorStep(m) \/ Collected(m)
  PROVE  IInv'
<1> USE MaxMonitorsAssumption DEF IInv, Inv, PlaceInv, FreshInv, BusyInv, ToldInv, ClosedInv,
        UntoldIsCurrent, QuietOnceShut, AtWork, InStart, InMonitor, Clients, At, On, Moved
<1> USE DEF TypeOK, MonitoringStates, WorkerAt, SetState, SetWorker
<1>1. CASE Started(m)
  BY <1>1 DEF Started
<1>2. CASE Loop(m)
  BY <1>2 DEF Loop
<1>3. CASE Waits(m)
  BY <1>3 DEF Waits
<1>4. CASE Acts(m)
  BY <1>4 DEF Acts
<1>5. CASE Exits(m)
  BY <1>5 DEF Exits
<1>6. CASE Collected(m)
  BY <1>6 DEF Collected
<1> QED
  BY <1>1, <1>2, <1>3, <1>4, <1>5, <1>6 DEF MonitorStep

-----------------------------------------------------------------------------

LEMMA NextInv == ASSUME IInv, [Next]_vars PROVE IInv'
<1>1. CASE Next
  BY <1>1, RequestInv, StartingInv, StoppingInv, ClosingInv, MonitorInv DEF Next
<1>2. CASE UNCHANGED vars
  BY <1>2 DEF vars, IInv, TypeOK, Inv, PlaceInv, FreshInv, BusyInv, ToldInv, ClosedInv,
              UntoldIsCurrent, QuietOnceShut, AtWork
<1> QED
  BY <1>1, <1>2

LEMMA Invariance == Spec => []IInv
<1>1. Init => IInv
  BY InitInv
<1>2. IInv /\ [Next]_vars => IInv'
  BY NextInv
<1> QED
  BY <1>1, <1>2, PTL DEF Spec

(* The monitors, their threads and the clients keep their types, however   *)
(* the assignments of the states interleave.                               *)
THEOREM TypeCorrect == Spec => []TypeOK
<1>1. IInv => TypeOK
  BY DEF IInv
<1> QED
  BY <1>1, Invariance, PTL

(* For any number of connections, no thread polls the core application     *)
(* that has not been told to stop and that nobody can tell any more.       *)
THEOREM NoMonitorEscapes == Spec => []UntoldIsCurrent
<1>1. IInv => UntoldIsCurrent
  BY DEF IInv, Inv
<1> QED
  BY <1>1, Invariance, PTL

(* Once a monitor is shut down nothing polls on its behalf again.          *)
THEOREM ShutMonitorsStayQuiet == Spec => []QuietOnceShut
<1>1. IInv => QuietOnceShut
  BY DEF IInv, Inv
<1> QED
  BY <1>1, Invariance, PTL
=============================================================================
