--------------------------- MODULE ProcessMonitor ---------------------------
(***************************************************************************)
(* The monitoring of a core application by `PstProcessApiGrpc`             *)
(* (component/process_api.py), with the commands of its device that start  *)
(* and stop it.  The task of a start_scan begins the scan and then spawns  *)
(* a thread, `monitor`, that registers an abort event, reads a stream of   *)
(* the core application until the event is set, and in the end clears the  *)
(* event and notifies whoever waits.  stop_scan, abort and disconnect call *)
(* `_stop_monitoring`, which sets the registered event and waits.          *)
(*                                                                         *)
(* The monitor of the n-th scan, and the event it makes, are called n.     *)
(* Every critical section of the lock is one step, except where a monitor  *)
(* waits inside it.  Command tasks run one at a time; abort and monitor    *)
(* run on threads of their own.                                            *)
(***************************************************************************)
EXTENDS Integers

CONSTANTS MaxScans,   \* how many scans are started (a bound on the model)
          MayFault,   \* whether GoToFault may be called
          Disturbed   \* aborts, faults and disconnects come only while the number
                      \* of scans started is one of these (a bound on the model)

ASSUME ScansAssumption == MaxScans \in Nat /\ MayFault \in BOOLEAN
ASSUME DisturbedAssumption == Disturbed \subseteq 0 .. MaxScans

Scans == 1 .. MaxScans
NoEvent == 0
Stoppers == {"stop_scan", "abort", "disconnect"}

VARIABLES
  obs,        \* the observation state of the device
  started,    \* the number of scans started
  spawning,   \* the task of start_scan has yet to call monitor
  monitor,    \* of each monitor: where it is
  stopper,    \* of each caller of _stop_monitoring: where it is
  current,    \* _monitor_abort_event
  set,        \* the events that are set
  passed,     \* of each monitor: the event it passed to the stream
  holder      \* the monitor that holds _monitor_lock between two steps, or 0

vars == <<obs, started, spawning, monitor, stopper, current, set, passed, holder>>

TypeOK ==
  /\ obs \in {"READY", "SCANNING", "ABORTING", "ABORTED", "FAULT"}
  /\ started \in 0 .. MaxScans
  /\ spawning \in BOOLEAN
  /\ monitor \in [Scans -> {"none", "spawned", "replacing", "blocked", "woken", "registered",
                            "streaming", "deaf", "ending", "notifying", "done"}]
  /\ stopper \in [Stoppers -> {"idle", "called", "signalled", "waiting", "resumed"}]
  /\ current \in Scans \cup {NoEvent}
  /\ set \subseteq Scans
  /\ passed \in [Scans -> Scans \cup {NoEvent}]
  /\ holder \in Scans \cup {0}

Init ==
  /\ obs = "READY" /\ started = 0 /\ spawning = FALSE
  /\ monitor = [s \in Scans |-> "none"]
  /\ stopper = [c \in Stoppers |-> "idle"]
  /\ current = NoEvent /\ set = {}
  /\ passed = [s \in Scans |-> NoEvent]
  /\ holder = 0

MonitorAt(s, from, to) == monitor[s] = from /\ monitor' = [monitor EXCEPT ![s] = to]
StopperAt(c, from, to) == stopper[c] = from /\ stopper' = [stopper EXCEPT ![c] = to]

-----------------------------------------------------------------------------
(* Commands.                                                               *)

Scan == \* the core application scans, and the device is told so
  /\ obs = "READY" /\ ~spawning /\ stopper["stop_scan"] = "idle"
  /\ started < MaxScans
  /\ obs' = "SCANNING"
  /\ started' = started + 1
  /\ spawning' = TRUE
  /\ UNCHANGED <<monitor, stopper, current, set, passed, holder>>

SpawnMonitor ==
  /\ spawning /\ spawning' = FALSE
  /\ MonitorAt(started, "none", "spawned")
  /\ UNCHANGED <<obs, started, stopper, current, set, passed, holder>>

EndScan ==
  /\ obs = "SCANNING" /\ ~spawning
  /\ StopperAt("stop_scan", "idle", "called")
  /\ UNCHANGED <<obs, started, spawning, monitor, current, set, passed, holder>>

Abort ==
  /\ obs \in {"READY", "SCANNING"} /\ started \in Disturbed
  /\ StopperAt("abort", "idle", "called")
  /\ obs' = "ABORTING"
  /\ UNCHANGED <<started, spawning, monitor, current, set, passed, holder>>

Disconnect ==
  /\ started \in Disturbed
  /\ StopperAt("disconnect", "idle", "called")
  /\ UNCHANGED <<obs, started, spawning, monitor, current, set, passed, holder>>

GoToFault == \* nothing is done about the monitoring
  /\ MayFault /\ obs # "FAULT" /\ started \in Disturbed
  /\ obs' = "FAULT"
  /\ UNCHANGED <<started, spawning, monitor, stopper, current, set, passed, holder>>

ObsReset == \* and the beam and the scan are configured again
  /\ obs \in {"ABORTED", "FAULT"} /\ ~spawning /\ stopper["stop_scan"] = "idle"
  /\ obs' = "READY"
  /\ UNCHANGED <<started, spawning, monitor, stopper, current, set, passed, holder>>

-----------------------------------------------------------------------------
(* _stop_monitoring, and what its callers do next.                         *)

StopSignals(c) ==
  /\ holder = 0
  /\ StopperAt(c, "called", IF current = NoEvent THEN "resumed" ELSE "signalled")
  /\ set' = set \cup ({current} \ {NoEvent})
  /\ UNCHANGED <<obs, started, spawning, monitor, current, passed, holder>>

StopWaits(c) ==
  /\ StopperAt(c, "signalled", "waiting")
  /\ UNCHANGED <<obs, started, spawning, monitor, current, set, passed, holder>>

(* The core application has stopped its scan or aborted.  In FAULT the      *)
(* state model refuses the news and the state stays.                       *)
StopFinishes(c) ==
  /\ StopperAt(c, "resumed", "idle")
  /\ obs' = CASE c = "stop_scan" /\ obs = "SCANNING" -> "READY"
              [] c = "abort" /\ obs = "ABORTING" -> "ABORTED"
              [] OTHER -> obs
  /\ UNCHANGED <<started, spawning, monitor, current, set, passed, holder>>

-----------------------------------------------------------------------------
(* monitor.                                                                *)

(* A mistake: the event of an earlier monitor is not looked at. *)
RegisterOver(s) ==
  /\ holder = 0
  /\ MonitorAt(s, "spawned", "registered") /\ current' = s
  /\ UNCHANGED <<obs, started, spawning, stopper, set, passed, holder>>

Register(s) ==
  /\ holder = 0
  /\ current = NoEvent \/ current \in set
  /\ MonitorAt(s, "spawned", "registered") /\ current' = s
  /\ UNCHANGED <<obs, started, spawning, stopper, set, passed, holder>>

(* Another monitor is at work.  It is told to stop and waited for, all     *)
(* within the lock.                                                        *)
Replace(s) ==
  /\ holder = 0 /\ current \notin set \cup {NoEvent}
  /\ MonitorAt(s, "spawned", "replacing") /\ holder' = s
  /\ set' = set \cup {current}
  /\ UNCHANGED <<obs, started, spawning, stopper, current, passed>>

ReplaceWaits(s) ==
  /\ MonitorAt(s, "replacing", "blocked")
  /\ UNCHANGED <<obs, started, spawning, stopper, current, set, passed, holder>>

RegisterWoken(s) ==
  /\ MonitorAt(s, "woken", "registered") /\ current' = s /\ holder' = 0
  /\ UNCHANGED <<obs, started, spawning, stopper, set, passed>>

(* The event is read again, without the lock, to be passed to the stream.  *)
OpenStream(s) ==
  /\ MonitorAt(s, "registered", "streaming")
  /\ passed' = [passed EXCEPT ![s] = current]
  /\ UNCHANGED <<obs, started, spawning, stopper, current, set, holder>>

(* A TimeoutIterator that timed out once, or whose stream ended, yields no *)
(* more; the loop of the client around it goes on until the event is set.  *)
StreamTimesOut(s) ==
  /\ passed[s] # NoEvent
  /\ MonitorAt(s, "streaming", "deaf")
  /\ UNCHANGED <<obs, started, spawning, stopper, current, set, passed, holder>>

StreamBreaks(s) ==
  /\ MonitorAt(s, "streaming", "ending")
  /\ UNCHANGED <<obs, started, spawning, stopper, current, set, passed, holder>>

(* A mistake: the loop around the iterator does not look at the event. *)
LeaveStreamOnly(s) ==
  /\ passed[s] \in set \cup {NoEvent}
  /\ MonitorAt(s, "streaming", "ending")
  /\ UNCHANGED <<obs, started, spawning, stopper, current, set, passed, holder>>

LeaveStream(s) ==
  /\ passed[s] \in set \cup {NoEvent}
  /\ MonitorAt(s, "streaming", "ending") \/ MonitorAt(s, "deaf", "ending")
  /\ UNCHANGED <<obs, started, spawning, stopper, current, set, passed, holder>>

(* A mistake: the event is set without a look whether there is one. *)
UnregisterUnchecked(s) ==
  /\ holder = 0
  /\ MonitorAt(s, "ending", "notifying")
  /\ set' = set \cup {current}
  /\ current' = NoEvent
  /\ UNCHANGED <<obs, started, spawning, stopper, passed, holder>>

(* The event registered now, whoever registered it, is set and cleared.    *)
Unregister(s) ==
  /\ holder = 0
  /\ MonitorAt(s, "ending", "notifying")
  /\ set' = set \cup ({current} \ {NoEvent})
  /\ current' = NoEvent
  /\ UNCHANGED <<obs, started, spawning, stopper, passed, holder>>

NotifyAll(s) ==
  /\ monitor[s] = "notifying"
  /\ monitor' = [m \in Scans |-> IF m = s THEN "done"
                                 ELSE IF monitor[m] = "blocked" THEN "woken" ELSE monitor[m]]
  /\ stopper' = [c \in Stoppers |-> IF stopper[c] = "waiting" THEN "resumed" ELSE stopper[c]]
  /\ UNCHANGED <<obs, started, spawning, current, set, passed, holder>>

-----------------------------------------------------------------------------
MonitorStep(s) ==
  \/ Register(s) \/ Replace(s) \/ ReplaceWaits(s) \/ RegisterWoken(s)
  \/ OpenStream(s) \/ LeaveStream(s) \/ Unregister(s) \/ NotifyAll(s)
StopStep(c) == StopSignals(c) \/ StopWaits(c) \/ StopFinishes(c)

Next ==
  \/ Scan \/ SpawnMonitor \/ EndScan \/ Abort \/ Disconnect \/ GoToFault \/ ObsReset
  \/ \E c \in Stoppers : StopStep(c)
  \/ \E s \in Scans : MonitorStep(s) \/ StreamTimesOut(s) \/ StreamBreaks(s)

Spec == Init /\ [][Next]_vars

(* Threads run when they can.  No command need come, and a stream need     *)
(* neither time out nor break.                                             *)
FairSpec ==
  /\ Spec
  /\ WF_vars(SpawnMonitor)
  /\ \A c \in Stoppers : WF_vars(StopStep(c))
  /\ \A s \in Scans : WF_vars(MonitorStep(s))

-----------------------------------------------------------------------------
Open(s) == monitor[s] \in {"streaming", "deaf"}

(* A stream that nobody told to stop is one that _stop_monitoring reaches: *)
(* registering one monitor after, or over, another never leaves a stream   *)
(* that only the end of the process can stop.                              *)
EveryStreamCanBeStopped ==
  \A s \in Scans : Open(s) => passed[s] \in {current, NoEvent} \cup set

(* A stream told to stop is closed, even one that had gone silent: as      *)
(* scans are bounded, that is to say that time and again there is none.    *)
ToldStreamsClose == []<>\A s \in Scans : ~(Open(s) /\ passed[s] \in set)

(* Monitoring is only valid if the service is in a scan (stop_scan).       *)
MonitoringOnlyInScan ==
  obs = "READY" => \A s \in Scans : Open(s) => passed[s] \in set \cup {NoEvent}

(* All that wait for the monitoring to stop are notified (monitor): a      *)
(* call of _stop_monitoring returns.                                       *)
StopReturns == \A c \in Stoppers : stopper[c] = "waiting" ~> stopper[c] # "waiting"

(* A request to start monitoring while already monitoring stops the        *)
(* previous monitoring and starts a new one (monitor).                     *)
MonitorStarts ==
  \A s \in Scans : monitor[s] = "replacing" ~> monitor[s] = "registered"
=============================================================================
