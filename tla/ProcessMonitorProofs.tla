------------------------ MODULE ProcessMonitorProofs ------------------------
(***************************************************************************)
(* For every number of scans, with faults and broken streams at any time:  *)
(* ProcessMonitor is type correct, and no stream escapes _stop_monitoring. *)
(*                                                                         *)
(* The reason is that an event is forgotten only once it is set.  Each     *)
(* event that was ever registered is set or is the current one; a stream   *)
(* is only passed a registered event; and while a monitor waits inside the *)
(* lock, nobody else can register an event, so the one it saw stays set.   *)
(***************************************************************************)
EXTENDS ProcessMonitor, TLAPS

Registered(s) == monitor[s] \in {"registered", "streaming", "deaf", "ending", "notifying", "done"}

EventsInv == /\ \A s \in Scans : Registered(s) => s \in set \cup {current}
             /\ current # NoEvent => Registered(current)
             /\ \A s \in Scans : passed[s] # NoEvent => Registered(passed[s])

LockInv == /\ \A s \in Scans : monitor[s] \in {"replacing", "blocked", "woken"} => holder = s
           /\ holder # 0 => current \in set \cup {NoEvent}

IInv == TypeOK /\ EventsInv /\ LockInv

(* A monitor moves from one place to another and a registered one stays so. *)
LEMMA MonitorMoves ==
  ASSUME NEW s \in Scans, NEW from, NEW to, TypeOK, MonitorAt(s, from, to),
         to \in {"spawned", "replacing", "blocked", "registered", "streaming", "deaf", "ending",
                 "notifying"}
  PROVE  /\ monitor[s] = from
         /\ monitor' \in [Scans -> {"none", "spawned", "replacing", "blocked", "woken",
              "registered", "streaming", "deaf", "ending", "notifying", "done"}]
         /\ monitor'[s] = to
         /\ \A m \in Scans : m # s => monitor'[m] = monitor[m]
  BY DEF MonitorAt, TypeOK

LEMMA StopperMoves ==
  ASSUME NEW c \in Stoppers, NEW from, NEW to, TypeOK, StopperAt(c, from, to),
         to \in {"idle", "called", "signalled", "waiting", "resumed"}
  PROVE  stopper' \in [Stoppers -> {"idle", "called", "signalled", "waiting", "resumed"}]
  BY DEF StopperAt, TypeOK

LEMMA InitInv == ASSUME Init PROVE IInv
<1>1. \A s \in Scans : monitor[s] = "none" /\ passed[s] = NoEvent
  BY DEF Init
<1>2. TypeOK
  <2>1. 0 \in 0 .. MaxScans
    BY ScansAssumption
  <2>. QED BY <2>1 DEF Init, TypeOK, NoEvent
<1>3. EventsInv
  BY <1>1 DEF Init, EventsInv, Registered
<1>4. LockInv
  BY <1>1 DEF Init, LockInv
<1>. QED BY <1>2, <1>3, <1>4 DEF IInv

(* Steps of the commands and of the callers of _stop_monitoring. *)
LEMMA CommandStep ==
  ASSUME IInv, Scan \/ SpawnMonitor \/ EndScan \/ Abort \/ Disconnect \/ GoToFault \/ ObsReset
  PROVE  IInv'
<1> USE ScansAssumption DEF IInv, Scans, NoEvent
<1>1. CASE Scan
  BY <1>1 DEF Scan, TypeOK, EventsInv, LockInv, Registered
<1>2. CASE SpawnMonitor
  <2>1. CASE started \in Scans
    <3>1. /\ monitor[started] = "none" /\ monitor'[started] = "spawned"
          /\ monitor' \in [Scans -> {"none", "spawned", "replacing", "blocked", "woken",
               "registered", "streaming", "deaf", "ending", "notifying", "done"}]
          /\ \A m \in Scans : m # started => monitor'[m] = monitor[m]
      BY <1>2, <2>1, MonitorMoves DEF SpawnMonitor
    <3>2. TypeOK'
      BY <1>2, <3>1 DEF SpawnMonitor, TypeOK
    <3>3. \A m \in Scans : Registered(m) <=> Registered(m)'
      BY <2>1, <3>1 DEF Registered
    <3>4. EventsInv'
      BY <1>2, <3>3 DEF SpawnMonitor, TypeOK, EventsInv
    <3>5. LockInv'
      BY <1>2, <3>1 DEF SpawnMonitor, TypeOK, LockInv
    <3>. QED BY <3>2, <3>4, <3>5
  <2>2. CASE started \notin Scans
    BY <1>2, <2>2 DEF SpawnMonitor, TypeOK, EventsInv, LockInv, Registered, MonitorAt
  <2>. QED BY <2>1, <2>2
<1>3. CASE EndScan
  BY <1>3, StopperMoves DEF EndScan, Stoppers, TypeOK, EventsInv, LockInv, Registered
<1>4. CASE Abort
  BY <1>4, StopperMoves DEF Abort, Stoppers, TypeOK, EventsInv, LockInv, Registered
<1>5. CASE Disconnect
  BY <1>5, StopperMoves DEF Disconnect, Stoppers, TypeOK, EventsInv, LockInv, Registered
<1>6. CASE GoToFault
  BY <1>6 DEF GoToFault, TypeOK, EventsInv, LockInv, Registered
<1>7. CASE ObsReset
  BY <1>7 DEF ObsReset, TypeOK, EventsInv, LockInv, Registered
<1>. QED BY <1>1, <1>2, <1>3, <1>4, <1>5, <1>6, <1>7

LEMMA StopperStep ==
  ASSUME IInv, NEW c \in Stoppers, StopStep(c)
  PROVE  IInv'
<1> USE ScansAssumption DEF IInv, Scans, NoEvent
<1>1. CASE StopSignals(c)
  BY <1>1, StopperMoves DEF StopSignals, TypeOK, EventsInv, LockInv, Registered
<1>2. CASE StopWaits(c)
  BY <1>2, StopperMoves DEF StopWaits, TypeOK, EventsInv, LockInv, Registered
<1>3. CASE StopFinishes(c)
  BY <1>3, StopperMoves DEF StopFinishes, TypeOK, EventsInv, LockInv, Registered
<1>. QED BY <1>1, <1>2, <1>3 DEF StopStep

(* Steps of a monitor.  Those that change which event is registered, or     *)
(* who holds the lock, are the ones the invariant is about.                *)
LEMMA MonitorsStep ==
  ASSUME IInv, NEW s \in Scans, MonitorStep(s) \/ StreamTimesOut(s) \/ StreamBreaks(s)
  PROVE  IInv'
<1> USE ScansAssumption DEF IInv, Scans, NoEvent
<1>1. CASE Register(s)
  BY <1>1, MonitorMoves DEF Register, TypeOK, EventsInv, LockInv, Registered
<1>2. CASE Replace(s)
  BY <1>2, MonitorMoves DEF Replace, TypeOK, EventsInv, LockInv, Registered
<1>3. CASE ReplaceWaits(s)
  BY <1>3, MonitorMoves, SMTT(30) DEF ReplaceWaits, TypeOK, EventsInv, LockInv, Registered
<1>4. CASE RegisterWoken(s)
  <2>1. /\ monitor[s] = "woken" /\ monitor'[s] = "registered"
        /\ monitor' \in [Scans -> {"none", "spawned", "replacing", "blocked", "woken",
             "registered", "streaming", "deaf", "ending", "notifying", "done"}]
        /\ \A m \in Scans : m # s => monitor'[m] = monitor[m]
    BY <1>4, MonitorMoves DEF RegisterWoken
  <2>2. TypeOK'
    BY <1>4, <2>1 DEF RegisterWoken, TypeOK
  <2>3. holder = s /\ current \in set \cup {NoEvent}
    BY <2>1 DEF LockInv
  <2>4. \A m \in Scans : m # s => (Registered(m) <=> Registered(m)')
    BY <2>1 DEF Registered
  <2>5. Registered(s)' /\ ~Registered(s)
    BY <2>1 DEF Registered
  <2>6. EventsInv'
    BY <1>4, <2>3, <2>4, <2>5 DEF RegisterWoken, TypeOK, EventsInv
  <2>7. LockInv'
    BY <1>4, <2>1 DEF RegisterWoken, TypeOK, LockInv
  <2>. QED BY <2>2, <2>6, <2>7
<1>5. CASE OpenStream(s)
  BY <1>5, MonitorMoves, SMTT(30) DEF OpenStream, TypeOK, EventsInv, LockInv, Registered
<1>6. CASE StreamTimesOut(s)
  BY <1>6, MonitorMoves, SMTT(30) DEF StreamTimesOut, TypeOK, EventsInv, LockInv, Registered
<1>7. CASE StreamBreaks(s)
  BY <1>7, MonitorMoves, SMTT(30) DEF StreamBreaks, TypeOK, EventsInv, LockInv, Registered
<1>8. CASE LeaveStream(s)
  <2>1. CASE MonitorAt(s, "streaming", "ending")
    BY <1>8, <2>1, MonitorMoves DEF LeaveStream, TypeOK, EventsInv, LockInv, Registered
  <2>2. CASE MonitorAt(s, "deaf", "ending")
    BY <1>8, <2>2, MonitorMoves DEF LeaveStream, TypeOK, EventsInv, LockInv, Registered
  <2>. QED BY <1>8, <2>1, <2>2 DEF LeaveStream
<1>9. CASE Unregister(s)
  BY <1>9, MonitorMoves DEF Unregister, TypeOK, EventsInv, LockInv, Registered
<1>10. CASE NotifyAll(s)
  <2>1. TypeOK'
    BY <1>10 DEF NotifyAll, TypeOK
  <2>2. \A m \in Scans : Registered(m) <=> Registered(m)'
    BY <1>10 DEF NotifyAll, TypeOK, Registered
  <2>3. EventsInv'
    BY <1>10, <2>2 DEF NotifyAll, TypeOK, EventsInv
  <2>4. LockInv'
    BY <1>10 DEF NotifyAll, TypeOK, LockInv
  <2>. QED BY <2>1, <2>3, <2>4
<1>. QED
  BY <1>1, <1>2, <1>3, <1>4, <1>5, <1>6, <1>7, <1>8, <1>9, <1>10 DEF MonitorStep

(* The inductive invariant: registered events are current or set, and the  *)
(* one a monitor waits for within the lock stays set.                      *)
THEOREM Invariance == Spec => []IInv
<1>1. Init => IInv
  BY InitInv
<1>2. IInv /\ [Next]_vars => IInv'
  <2> SUFFICES ASSUME IInv, [Next]_vars PROVE IInv'
    OBVIOUS
  <2>1. CASE UNCHANGED vars
    BY <2>1 DEF vars, IInv, TypeOK, EventsInv, LockInv, Registered
  <2>2. CASE Next
    BY <2>2, CommandStep, StopperStep, MonitorsStep DEF Next
  <2>. QED BY <2>1, <2>2
<1>. QED BY <1>1, <1>2, PTL DEF Spec

(* Type correctness of the monitoring. *)
THEOREM TypeCorrect == Spec => []TypeOK
<1>1. IInv => TypeOK
  BY DEF IInv
<1>. QED BY <1>1, Invariance, PTL

(* However many scans are started, stopped, aborted and broken, a stream   *)
(* that nobody told to stop is the one _stop_monitoring reaches.           *)
THEOREM NoStreamEscapes == Spec => []EveryStreamCanBeStopped
<1>1. IInv => EveryStreamCanBeStopped
  BY DEF IInv, TypeOK, EventsInv, EveryStreamCanBeStopped, Open, NoEvent
<1>. QED BY <1>1, Invariance, PTL
=============================================================================
