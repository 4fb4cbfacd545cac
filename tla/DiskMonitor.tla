---------------------------- MODULE DiskMonitor ----------------------------
(***************************************************************************)
(* The disk monitors of DSP (dsp/disk_monitor_task.py) and the component   *)
(* manager that makes, starts, stops and drops them as the communication   *)
(* with the core application comes and goes (dsp_component_manager.py).    *)
(* A monitor has a thread of its own that polls the core application until *)
(* its event is set or its state is no longer MONITORING.                  *)
(*                                                                         *)
(* What makes it hard: the state is assigned without the lock, so that a   *)
(* thread that comes up overwrites STOPPING, and a stop overwrites STOPPED *)
(* or a start SHUTDOWN; a stop gives up after its time-out, and the        *)
(* monitor is dropped with its thread at work in a call that takes its     *)
(* time; and the device may be deleted in the middle of any of this.       *)
(*                                                                         *)
(* Two threads call the component manager: "comm" makes the communication  *)
(* changes, "delete" deletes the device, after which no other change       *)
(* begins: a deletion while the call that connects is on its way, before   *)
(* the monitor is made, is left out.  Bound: MaxMonitors connections.      *)
(***************************************************************************)
EXTENDS Naturals

CONSTANT MaxMonitors
ASSUME MaxMonitorsAssumption == MaxMonitors \in Nat \ {0}

VARIABLES
  comm,     \* the state of the communication with the core application
  task,     \* the monitor of the component manager; 0 is None
  made,     \* the monitors made so far are 1 .. made
  state,    \* of each monitor, its MonitoringState
  evt,      \* of each monitor, _stop_monitoring_evt
  worker,   \* of each monitor, where its thread is
  pool,     \* of each monitor, whether its executor takes tasks
  client    \* of each client thread, where it is, and in which monitor

vars == <<comm, task, made, state, evt, worker, pool, client>>

Clients == {"comm", "delete"}
Monitors == 1 .. MaxMonitors
MonitoringStates == {"WAITING", "STARTING", "MONITORING", "STOPPING", "STOPPED", "SHUTDOWN"}
WorkerAt == {"none", "queued", "loop", "wait", "act", "exit", "over"}
ClientAt == {"idle", "gone", "connect", "start", "starting", "submit", "started",
             "disconnect", "stop", "tell", "told", "stopping", "close", "join", "drop"}
Idle == [pc |-> "idle", m |-> 0]
Gone == [pc |-> "gone", m |-> 0]

TypeOK ==
  /\ comm \in {"DISABLED", "NOT_ESTABLISHED", "ESTABLISHED"}
  /\ made \in 0 .. MaxMonitors
  /\ task \in 0 .. made
  /\ state \in [Monitors -> MonitoringStates]
  /\ evt \in [Monitors -> BOOLEAN]
  /\ worker \in [Monitors -> WorkerAt]
  /\ pool \in [Monitors -> BOOLEAN]
  /\ client \in [Clients -> [pc : ClientAt, m : 0 .. made]]

Init ==
  /\ comm = "DISABLED" /\ task = 0 /\ made = 0
  /\ state = [m \in Monitors |-> "WAITING"]
  /\ evt = [m \in Monitors |-> FALSE]
  /\ worker = [m \in Monitors |-> "none"]
  /\ pool = [m \in Monitors |-> TRUE]
  /\ client = [c \in Clients |-> Idle]

At(c, pc) == client[c].pc = pc
On(c) == client[c].m
Goto(c, pc) == client' = [client EXCEPT ![c].pc = pc]
Enter(c, pc, m) == client' = [client EXCEPT ![c] = [pc |-> pc, m |-> m]]
Return(c) == client' = [client EXCEPT ![c] = IF c = "delete" THEN Gone ELSE Idle]
SetState(m, s) == state' = [state EXCEPT ![m] = s]
SetWorker(m, pc) == worker' = [worker EXCEPT ![m] = pc]

(* Between its reading and its setting of the state, a client holds the    *)
(* lock of the monitor.                                                    *)
Locked(m) == \E c \in Clients : On(c) = m /\ client[c].pc \in {"starting", "tell", "told"}

-----------------------------------------------------------------------------
Requested == At("comm", "idle") /\ At("delete", "idle")

(* Connecting: the call to the core application may fail, and the          *)
(* communication then stays NOT_ESTABLISHED until it is disabled.          *)

ConnectFails ==
  /\ Requested /\ comm = "DISABLED"
  /\ comm' = "NOT_ESTABLISHED"
  /\ UNCHANGED <<task, made, state, evt, worker, pool, client>>

Connect ==
  /\ Requested /\ comm = "DISABLED"
  /\ comm' = "ESTABLISHED"
  /\ IF task = 0
     THEN made < MaxMonitors /\ made' = made + 1 /\ task' = made + 1
     ELSE UNCHANGED <<made, task>>
  /\ Goto("comm", "connect")
  /\ UNCHANGED <<state, evt, worker, pool>>

(* The monitor is looked up again, and may be gone: an AttributeError.     *)
StartLooksUp ==
  /\ At("comm", "connect")
  /\ IF task = 0 THEN Return("comm") ELSE Enter("comm", "start", task)
  /\ UNCHANGED <<comm, task, made, state, evt, worker, pool>>

(* One start per connection, on the monitor made for it: it finds WAITING, *)
(* or after a deletion SHUTDOWN, and then raises.  It would wait for the   *)
(* end of a stop and do nothing in any other state, but meets none here.   *)
StartReads ==
  /\ At("comm", "start") /\ ~Locked(On("comm")) /\ state[On("comm")] # "STOPPING"
  /\ IF state[On("comm")] \in {"WAITING", "STOPPED"} THEN Goto("comm", "starting") ELSE Return("comm")
  /\ UNCHANGED <<comm, task, made, state, evt, worker, pool>>

StartSets ==
  /\ At("comm", "starting")
  /\ SetState(On("comm"), "STARTING")
  /\ Goto("comm", "submit")
  /\ UNCHANGED <<comm, task, made, evt, worker, pool>>

(* An executor that has been shut down refuses the task: a RuntimeError.   *)
StartSubmits ==
  /\ At("comm", "submit")
  /\ IF pool[On("comm")]
     THEN SetWorker(On("comm"), "queued") /\ Goto("comm", "started")
     ELSE UNCHANGED worker /\ Return("comm")
  /\ UNCHANGED <<comm, task, made, state, evt, pool>>

StartReturns ==
  /\ At("comm", "started") /\ state[On("comm")] # "STARTING"
  /\ Return("comm")
  /\ UNCHANGED <<comm, task, made, state, evt, worker, pool>>

-----------------------------------------------------------------------------
(* Disconnecting stops the monitor, with a time-out, and drops it; deleting *)
(* the device shuts it down, which begins with a stop.                      *)

(* DisconnectDropsOnly, a mistake, forgets to stop it.                     *)
DisconnectDropsOnly ==
  /\ Requested /\ comm # "DISABLED"
  /\ task' = 0 /\ comm' = "DISABLED"
  /\ UNCHANGED <<made, state, evt, worker, pool, client>>

Disconnect ==
  /\ Requested /\ comm # "DISABLED"
  /\ IF task # 0
     THEN Goto("comm", "disconnect") /\ UNCHANGED comm
     ELSE comm' = "DISABLED" /\ UNCHANGED client
  /\ UNCHANGED <<task, made, state, evt, worker, pool>>

Delete ==
  /\ At("delete", "idle")
  /\ IF task # 0 THEN Goto("delete", "disconnect") ELSE Return("delete")
  /\ UNCHANGED <<comm, task, made, state, evt, worker, pool>>

StopLooksUp(c) ==
  /\ At(c, "disconnect")
  /\ CASE task = 0 -> Return(c)
       [] task # 0 /\ c = "delete" /\ state[task] = "SHUTDOWN" -> Enter(c, "drop", task)
       [] OTHER -> Enter(c, "stop", task)
  /\ UNCHANGED <<comm, task, made, state, evt, worker, pool>>

AfterStop(c) == IF c = "delete" THEN "close" ELSE "drop"

StopReads(c) ==
  /\ At(c, "stop") /\ ~Locked(On(c))
  /\ Goto(c, CASE state[On(c)] \in {"WAITING", "STOPPED", "SHUTDOWN"} -> AfterStop(c)
               [] state[On(c)] \in {"STARTING", "MONITORING"} -> "tell"
               [] OTHER -> "stopping")
  /\ UNCHANGED <<comm, task, made, state, evt, worker, pool>>

StopTells(c) ==
  /\ At(c, "tell")
  /\ evt' = [evt EXCEPT ![On(c)] = TRUE]
  /\ Goto(c, "told")
  /\ UNCHANGED <<comm, task, made, state, worker, pool>>

StopSets(c) ==
  /\ At(c, "told")
  /\ SetState(On(c), "STOPPING")
  /\ Goto(c, "stopping")
  /\ UNCHANGED <<comm, task, made, evt, worker, pool>>

(* Whether STOPPED was seen or the time was up, stop_monitoring goes on.   *)
(* StopEndsUntimed, a mistake, has no time-out.                            *)
StopEndsUntimed(c) ==
  /\ At(c, "stopping") /\ state[On(c)] = "STOPPED"
  /\ Goto(c, AfterStop(c))
  /\ UNCHANGED <<comm, task, made, state, evt, worker, pool>>

StopEnds(c) ==
  /\ At(c, "stopping")
  /\ Goto(c, AfterStop(c))
  /\ UNCHANGED <<comm, task, made, state, evt, worker, pool>>

(* What the executor has not begun is cancelled, and asking for its result *)
(* then raises: the state is not set to SHUTDOWN.                          *)
Close ==
  /\ At("delete", "close")
  /\ pool' = [pool EXCEPT ![On("delete")] = FALSE]
  /\ IF worker[On("delete")] = "queued"
     THEN SetWorker(On("delete"), "over") /\ Goto("delete", "drop")
     ELSE UNCHANGED worker /\ Goto("delete", "join")
  /\ UNCHANGED <<comm, task, made, state, evt>>

(* The executor waits for its thread; JoinsNothing, a mistake, does not.   *)
JoinsNothing ==
  /\ At("delete", "join")
  /\ SetState(On("delete"), "SHUTDOWN")
  /\ Goto("delete", "drop")
  /\ UNCHANGED <<comm, task, made, evt, worker, pool>>

Join ==
  /\ At("delete", "join") /\ worker[On("delete")] \in {"none", "over"}
  /\ SetState(On("delete"), "SHUTDOWN")
  /\ Goto("delete", "drop")
  /\ UNCHANGED <<comm, task, made, evt, worker, pool>>

Drop(c) ==
  /\ At(c, "drop")
  /\ task' = 0
  /\ comm' = IF c = "comm" THEN "DISABLED" ELSE comm
  /\ Return(c)
  /\ UNCHANGED <<made, state, evt, worker, pool>>

-----------------------------------------------------------------------------
(* The thread of a monitor. *)

ShouldStop(m) == evt[m] \/ state[m] # "MONITORING"

Started(m) ==
  /\ worker[m] = "queued"
  /\ SetState(m, "MONITORING")
  /\ SetWorker(m, "loop")
  /\ UNCHANGED <<comm, task, made, evt, pool, client>>

Loop(m) ==
  /\ worker[m] = "loop"
  /\ SetWorker(m, IF ShouldStop(m) THEN "exit" ELSE "wait")
  /\ UNCHANGED <<comm, task, made, state, evt, pool, client>>

Waits(m) ==
  /\ worker[m] = "wait" /\ ~Locked(m)
  /\ SetWorker(m, IF ShouldStop(m) THEN "exit" ELSE "act")
  /\ UNCHANGED <<comm, task, made, state, evt, pool, client>>

(* The statistics are fetched, or that fails and ends the monitor. *)
Acts(m) ==
  /\ worker[m] = "act"
  /\ \E next \in {"loop", "exit"} : SetWorker(m, next)
  /\ UNCHANGED <<comm, task, made, state, evt, pool, client>>

Exits(m) ==
  /\ worker[m] = "exit"
  /\ SetState(m, "STOPPED")
  /\ SetWorker(m, "over")
  /\ UNCHANGED <<comm, task, made, evt, pool, client>>

(* A monitor nobody refers to is deleted: __del__ shuts it down.  On its   *)
(* own thread the executor cannot be joined, and the state stays.          *)
(* CollectedIfStopped, a mistake, does so only to one in STOPPED.          *)
CollectedIfStopped(m) ==
  /\ m <= made /\ m # task /\ pool[m] /\ worker[m] \in {"none", "over"}
  /\ \A c \in Clients : On(c) # m
  /\ state[m] = "STOPPED"
  /\ pool' = [pool EXCEPT ![m] = FALSE]
  /\ \E s \in {state[m], "SHUTDOWN"} : SetState(m, s)
  /\ UNCHANGED <<comm, task, made, evt, worker, client>>

Collected(m) ==
  /\ m <= made /\ m # task /\ pool[m] /\ worker[m] \in {"none", "over"}
  /\ \A c \in Clients : On(c) # m
  /\ pool' = [pool EXCEPT ![m] = FALSE]
  /\ \E s \in {state[m], "SHUTDOWN"} : SetState(m, s)
  /\ UNCHANGED <<comm, task, made, evt, worker, client>>

-----------------------------------------------------------------------------

Request == ConnectFails \/ Connect \/ Disconnect \/ Delete
Starting == StartLooksUp \/ StartReads \/ StartSets \/ StartSubmits \/ StartReturns
Stopping(c) == StopLooksUp(c) \/ StopReads(c) \/ StopTells(c) \/ StopSets(c) \/ StopEnds(c) \/ Drop(c)
Closing == Close \/ Join
MonitorStep(m) == Started(m) \/ Loop(m) \/ Waits(m) \/ Acts(m) \/ Exits(m)

Next ==
  \/ Request \/ Starting \/ Closing
  \/ \E c \in Clients : Stopping(c)
  \/ \E m \in Monitors : MonitorStep(m) \/ Collected(m)

Spec == Init /\ [][Next]_vars

(* Threads are scheduled, a wait with a time-out ends, the call that       *)
(* fetches the statistics returns, and what nobody refers to is collected. *)
FairSpec ==
  /\ Spec
  /\ WF_vars(Starting) /\ WF_vars(Closing) /\ \A c \in Clients : WF_vars(Stopping(c))
  /\ \A m \in Monitors : WF_vars(MonitorStep(m)) /\ WF_vars(Collected(m))

-----------------------------------------------------------------------------
(* Properties *)

AtWork(m) == worker[m] \notin {"none", "over"}

(* A monitor that has not been told to stop is the one the component       *)
(* manager holds: no time-out, failure, deletion or overwritten state      *)
(* leaves a thread polling the core application that nobody can stop.      *)
UntoldIsCurrent == \A m \in Monitors : AtWork(m) /\ ~evt[m] => m = task

(* Once a monitor is shut down nothing polls on its behalf, and its        *)
(* executor takes no other task.                                           *)
QuietOnceShut == \A m \in Monitors : state[m] = "SHUTDOWN" => ~AtWork(m) /\ ~pool[m]

(* A dropped monitor ends and its executor is shut down, even when the     *)
(* stop gave up on it, its STOPPING was overwritten by the thread, or its  *)
(* thread's STOPPED by the stop.                                           *)
DroppedMonitorsGo ==
  \A m \in Monitors : (m <= made /\ m # task) ~> (~AtWork(m) /\ ~pool[m])

(* A disconnect returns to its client, whatever it finds: the time-out is  *)
(* what saves it when STOPPED came before its own STOPPING.                *)
DisconnectReturns == At("comm", "disconnect") ~> At("comm", "idle")
=============================================================================
