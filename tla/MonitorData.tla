---------------------------- MODULE MonitorData ----------------------------
(***************************************************************************)
(* The monitoring data of a sub-device in a scan                           *)
(* (component/monitor_data_handler.py, the *_model.py).  A thread puts the *)
(* data of each sub-band into a store and has the total published, under   *)
(* the lock of the handler; the worker of the device empties the store in  *)
(* the same way once it has ended the scan.  The disk monitor of DSP works *)
(* on the store, too, every five seconds and without the lock.             *)
(*                                                                         *)
(* With the gRPC API only sub-band 1 is reported; each monitor registers   *)
(* an event of its own, once its thread runs, and the end of a scan tells  *)
(* the monitor that is registered and waits for a notification, without a  *)
(* time-out.  A simulator reports all sub-bands, one by one; its monitors  *)
(* share one event, and its scan ends at once.  ProcessMonitor looks more  *)
(* closely at the reading of a stream, which here heeds the event of its   *)
(* own monitor only, and at a stop, an abort and a disconnect at the same  *)
(* time, of which there is one here.                                       *)
(*                                                                         *)
(* Bounds: as many monitor threads at a time as there are MonitorsOf a     *)
(* sub-device.  The amount of data (bytes, packets) and the free space of  *)
(* the disk stand for all values of their kind; the numbers come from the  *)
(* core applications, which are external.                                  *)
(***************************************************************************)
EXTENDS Integers, FiniteSets, FiniteSetsExt, Functions

CONSTANTS
  NumBands,  \* the number of sub-bands
  Cap,       \* the capacity of the disk
  MaxAmount, \* bound on what is recorded of a sub-band in a scan
  Devices,   \* the sub-devices looked at, each with its API
  Monitors,  \* the monitor threads
  MonitorsOf \* of each kind of sub-device, those it may have

ASSUME DevicesAssumption == Devices \subseteq {"RECV", "SMRB", "STAT", "DSP"} \X {"grpc", "simulator"}
ASSUME NumBandsAssumption == NumBands \in Nat \ {0}
ASSUME MonitorsAssumption == Monitors \cap {"none", "free", "worker"} = {}
ASSUME CapAssumption == Cap \in Nat /\ MaxAmount \in Nat

VARIABLES
  kind, api,   \* the sub-device and its API
  disk,        \* the free space of the disk
  written,     \* of each sub-band: what the core application has recorded
  store,       \* the data store: of some sub-bands, [amount, free]
  space,       \* the free space that the store of DSP knows
  shown,       \* _monitor_data of the handler, what attributes are read from
  pushed,      \* what the change events of the attributes said last
  holder,      \* who holds the lock of the handler
  mon, todo,   \* where each monitor is, and the sub-bands left in its round
  reg,         \* _monitor_abort_event (gRPC): the monitor whose event it is
  told,        \* the monitors whose event is set; a simulator's share one
  work,        \* where the worker, or the abort, is in a scan
  wait,        \* where it is in _stop_monitoring
  orderly,     \* for the properties: this scan started with no monitor alive,
               \* and its end did not overtake the start of its own
  poll         \* where the disk monitor is, with what it has read

fixed == <<kind, api>>
outside == <<disk, written>>
data == <<store, space, shown, pushed>>
mons == <<mon, todo, reg, told>>
scan == <<work, wait, orderly>>
dataVars == <<fixed, outside, data, holder, mons, scan, poll>>

Bands == 1 .. NumBands
MaxSize == Cap + 1          \* sys.maxsize: more than any disk has
BandData == [amount : 0 .. MaxAmount, free : 0 .. Cap]
Stores == UNION {[S -> BandData] : S \in SUBSET Bands}
Totals == [amount : 0 .. NumBands * MaxAmount, free : 0 .. MaxSize]
At(where) == [at |-> where]
MonitorAt == {"none", "spawned", "replacing", "blocked", "looping", "waiting", "handling",
              "total", "publish", "ending", "notifying"}

DataTypeOK ==
  /\ <<kind, api>> \in Devices
  /\ disk \in 0 .. Cap /\ written \in [Bands -> 0 .. MaxAmount]
  /\ store \in Stores /\ space \in 0 .. MaxSize
  /\ shown \in Totals /\ pushed \in Totals
  /\ holder \in {"free", "worker"} \cup Monitors
  /\ mon \in [Monitors -> MonitorAt] /\ todo \in [Monitors -> SUBSET Bands]
  /\ reg \in {"none"} \cup Monitors /\ told \subseteq Monitors
  /\ wait \in {"no", "signalled", "waiting"} /\ orderly \in BOOLEAN
  /\ work \in {"idle", "scanning", "stopping", "aborting", "reset", "total", "publish", "stopped"}
  /\ poll.at \in {"off", "sleeping", "total", "items", "iterating", "assign", "publish", "ended"}

-----------------------------------------------------------------------------
(* The totals.  SMRB and DSP need the sub-bands of the store to be 1, 2,   *)
(* and so on, or there is an IndexError; STAT has sub-band 1 only.         *)

Empty == [b \in {} |-> [amount |-> 0, free |-> 0]]
Amounts(st) == SumFunctionOnSet([b \in DOMAIN st |-> st[b].amount], DOMAIN st)
LeastFree(st) == Min({MaxSize} \cup {st[b].free : b \in DOMAIN st})

(* The sub-bands that are reported.                                        *)
Reported == IF api = "grpc" \/ kind = "STAT" THEN {1} ELSE Bands
IndexError(st) == kind \in {"SMRB", "DSP"} /\ DOMAIN st # 1 .. Cardinality(DOMAIN st)

ReceiveTotal(st) == [amount |-> Amounts(st), free |-> MaxSize]
SmrbTotal(st) == [amount |-> Amounts(st), free |-> MaxSize]
StatTotal(st) == [amount |-> IF st = Empty THEN 0 ELSE st[1].amount, free |-> MaxSize]
(* Without sub-bands DSP still shows the disk space it knows.              *)
(* DspTotalForgets, a mistake, shows the default.                          *)
DspWalked(st) == [amount |-> Amounts(st), free |-> LeastFree(st)]
DspTotalForgets(st) == DspWalked(st)
DspTotal(st) == IF st = Empty THEN [amount |-> 0, free |-> space] ELSE DspWalked(st)

DataTotal(st) ==
  CASE kind = "RECV" -> ReceiveTotal(st)
    [] kind = "SMRB" -> SmrbTotal(st)
    [] kind = "STAT" -> StatTotal(st)
    [] kind = "DSP" -> DspTotal(st)

(* The total of the sub-bands is what DSP knows from then on of the disk;  *)
(* a full disk, as 0 is no value, is taken for one without limit.          *)
Known(st) == IF kind = "DSP" /\ st # Empty THEN LeastFree(st) ELSE space
UpdateDiskStats(free) == IF free = 0 THEN MaxSize ELSE free

DataInit ==
  /\ \E d \in Devices : kind = d[1] /\ api = d[2]
  /\ disk = Cap /\ written = [b \in Bands |-> 0]
  /\ store = Empty /\ space = MaxSize
  /\ shown = [amount |-> 0, free |-> MaxSize] /\ pushed = shown
  /\ holder = "free"
  /\ mon = [m \in Monitors |-> "none"] /\ todo = [m \in Monitors |-> {}]
  /\ reg = "none" /\ told = {}
  /\ work = "idle" /\ wait = "no" /\ orderly = TRUE
  /\ poll = At(IF kind = "DSP" THEN "sleeping" ELSE "off")

-----------------------------------------------------------------------------
(* The core application and the disk *)

Records(b) ==
  /\ work = "scanning" /\ b \in Reported /\ written[b] < MaxAmount
  /\ written' = [written EXCEPT ![b] = @ + 1]
  /\ UNCHANGED <<fixed, disk, data, holder, mons, scan, poll>>

DiskChanges ==
  /\ kind = "DSP"
  /\ disk' \in 0 .. Cap
  /\ UNCHANGED <<fixed, written, data, holder, mons, scan, poll>>

-----------------------------------------------------------------------------
(* The worker: start_scan, and stop_scan or abort with what follows        *)

Goes(m, from, to) == mon[m] = from /\ mon' = [mon EXCEPT ![m] = to]

(* The lock of _monitor_abort_event, which a monitor keeps while it waits  *)
(* for the one it replaces.                                                *)
Unlocked == \A m \in Monitors : mon[m] \notin {"replacing", "blocked"}

(* The scan starts, and a thread for its monitor.                          *)
StartScan ==
  /\ work \in {"idle", "stopped"}
  /\ \E m \in Monitors \cap MonitorsOf[kind] : Goes(m, "none", "spawned")
  /\ work' = "scanning" /\ written' = [b \in Bands |-> 0]
  /\ orderly' = (\A m \in Monitors : mon[m] = "none")
  /\ UNCHANGED <<fixed, disk, data, holder, todo, reg, told, wait, poll>>

StopScan ==
  /\ work = "scanning" /\ work' = "stopping"
  /\ UNCHANGED <<fixed, outside, data, holder, mons, wait, orderly, poll>>

Abort ==
  /\ work = "scanning" /\ work' = "aborting"
  /\ UNCHANGED <<fixed, outside, data, holder, mons, wait, orderly, poll>>

(* The application keeps on, and so does the monitoring of a gRPC API.     *)
GoToFault ==
  /\ work = "scanning" /\ work' = "idle"
  /\ told' = IF api = "simulator" THEN Monitors ELSE told
  /\ UNCHANGED <<fixed, outside, data, holder, mon, todo, reg, wait, orderly, poll>>

(* _stop_monitoring, and what is next: what was recorded is kept after an  *)
(* abort.  A simulator, and a monitor that has not registered, is not      *)
(* waited for.                                                             *)
Stops == work \in {"stopping", "aborting"} /\ wait = "no"
Returned == IF work = "stopping" THEN "reset" ELSE "idle"
Disorders == orderly' = (orderly /\ \A m \in Monitors : mon[m] # "spawned")

SimulatorStops ==
  /\ Stops /\ api = "simulator"
  /\ told' = Monitors /\ work' = Returned /\ Disorders
  /\ UNCHANGED <<fixed, outside, data, holder, mon, todo, reg, wait, poll>>

NothingToStop ==
  /\ Stops /\ api = "grpc" /\ Unlocked /\ reg = "none"
  /\ work' = Returned /\ Disorders
  /\ UNCHANGED <<fixed, outside, data, holder, mons, wait, poll>>

(* SignalHasty, a mistake, does not wait for the monitor.                  *)
SignalHasty ==
  /\ Stops /\ api = "grpc" /\ Unlocked /\ reg # "none"
  /\ told' = told \cup {reg} /\ work' = Returned /\ Disorders
  /\ UNCHANGED <<fixed, outside, data, holder, mon, todo, reg, wait, poll>>

Signal ==
  /\ Stops /\ api = "grpc" /\ Unlocked /\ reg # "none"
  /\ told' = told \cup {reg} /\ wait' = "signalled" /\ Disorders
  /\ UNCHANGED <<fixed, outside, data, holder, mon, todo, reg, work, poll>>

(* Only a notification from here on ends the wait.                         *)
Wait ==
  /\ wait = "signalled" /\ wait' = "waiting"
  /\ UNCHANGED <<fixed, outside, data, holder, mons, work, orderly, poll>>

(* reset_monitor_data *)
Reset ==
  /\ work = "reset" /\ holder = "free"
  /\ holder' = "worker" /\ store' = Empty /\ work' = "total"
  /\ UNCHANGED <<fixed, outside, space, shown, pushed, mons, wait, orderly, poll>>

ResetTotal ==
  /\ work = "total"
  /\ shown' = DataTotal(store) /\ work' = "publish"
  /\ UNCHANGED <<fixed, outside, store, space, pushed, holder, mons, wait, orderly, poll>>

(* handle_monitor_data_update, with whatever _monitor_data is by now *)
ResetPublish ==
  /\ work = "publish"
  /\ pushed' = shown /\ holder' = "free" /\ work' = "stopped"
  /\ UNCHANGED <<fixed, outside, store, space, shown, mons, wait, orderly, poll>>

-----------------------------------------------------------------------------
(* A monitor: it registers its event, or clears that of the simulator      *)

BeginSimulated(m) ==
  /\ api = "simulator" /\ Goes(m, "spawned", "looping")
  /\ told' = {}
  /\ UNCHANGED <<fixed, outside, data, holder, todo, reg, scan, poll>>

Register(m) ==
  /\ api = "grpc" /\ Unlocked /\ reg \in told \cup {"none"}
  /\ Goes(m, "spawned", "looping") /\ reg' = m
  /\ UNCHANGED <<fixed, outside, data, holder, todo, told, scan, poll>>

(* Another monitor is at work.  It is told to stop and waited for, all     *)
(* within the lock.                                                        *)
Replace(m) ==
  /\ api = "grpc" /\ Unlocked /\ reg \notin told \cup {"none"}
  /\ Goes(m, "spawned", "replacing") /\ told' = told \cup {reg}
  /\ UNCHANGED <<fixed, outside, data, holder, todo, reg, scan, poll>>

ReplaceWaits(m) ==
  /\ Goes(m, "replacing", "blocked")
  /\ UNCHANGED <<fixed, outside, data, holder, todo, reg, told, scan, poll>>

-----------------------------------------------------------------------------
(* It reads its stream.  One that waits for data when it is told may still *)
(* be given some, once.  The generator of a simulator ends with the scan.  *)

Told(m) == m \in told \/ (api = "simulator" /\ work # "scanning")

Look(m) ==
  /\ ~Told(m) /\ Goes(m, "looping", "waiting")
  /\ UNCHANGED <<fixed, outside, data, holder, todo, reg, told, scan, poll>>

Round(m) ==
  /\ Goes(m, "waiting", "handling")
  /\ todo' = [todo EXCEPT ![m] = Reported]
  /\ UNCHANGED <<fixed, outside, data, holder, reg, told, scan, poll>>

(* The iterator that a simulator drops sets the event as it is deleted.    *)
Leaves(m) ==
  /\ Goes(m, "looping", "ending") \/ Goes(m, "waiting", "ending")
  /\ told' = IF api = "simulator" THEN Monitors ELSE told
  /\ UNCHANGED <<fixed, outside, data, holder, todo, reg, scan, poll>>

LeaveStream(m) == Told(m) /\ Leaves(m)
StreamBreaks(m) == mon[m] = "waiting" /\ Leaves(m)

(* handle_subband_data.  HandleUnlocked, a mistake, does not take the lock *)
(* into account.                                                           *)
Handle(m, free) ==
  /\ mon[m] = "handling" /\ free
  /\ LET b == Min(todo[m])
     IN /\ store' = [s \in DOMAIN store \cup {b} |->
                       IF s = b THEN [amount |-> written[b], free |-> disk] ELSE store[s]]
        /\ todo' = [todo EXCEPT ![m] = @ \ {b}]
  /\ holder' = m /\ Goes(m, "handling", "total")
  /\ UNCHANGED <<fixed, outside, space, shown, pushed, reg, told, scan, poll>>

HandleUnlocked(m) == Handle(m, TRUE)
HandleSubbandData(m) == Handle(m, holder = "free")

(* An IndexError ends the monitor, and the lock is given back.             *)
(* RaisedLocked, a mistake, keeps it.                                      *)
RaisedLocked(m) ==
  /\ todo' = [todo EXCEPT ![m] = {}] /\ UNCHANGED holder
  /\ Goes(m, "total", IF api = "simulator" THEN "none" ELSE "ending")
  /\ told' = IF api = "simulator" THEN Monitors ELSE told
Raised(m) ==
  /\ todo' = [todo EXCEPT ![m] = {}] /\ holder' = "free"
  /\ Goes(m, "total", IF api = "simulator" THEN "none" ELSE "ending")
  /\ told' = IF api = "simulator" THEN Monitors ELSE told

MonitorTotal(m) ==
  /\ mon[m] = "total"
  /\ IF IndexError(store) THEN Raised(m) /\ UNCHANGED <<space, shown>>
     ELSE /\ shown' = DataTotal(store) /\ space' = Known(store)
          /\ Goes(m, "total", "publish") /\ UNCHANGED <<holder, todo, told>>
  /\ UNCHANGED <<fixed, outside, store, pushed, reg, scan, poll>>

MonitorPublish(m) ==
  /\ Goes(m, "publish", IF todo[m] = {} THEN "looping" ELSE "handling")
  /\ pushed' = shown /\ holder' = "free"
  /\ UNCHANGED <<fixed, outside, store, space, shown, todo, reg, told, scan, poll>>

-----------------------------------------------------------------------------
(* It ends: a simulator's when the shared event is still set, the other    *)
(* one sets and clears whatever event is registered, and notifies.         *)

EndSimulated(m) ==
  /\ api = "simulator" /\ Goes(m, "ending", IF m \in told THEN "none" ELSE "looping")
  /\ UNCHANGED <<fixed, outside, data, holder, todo, reg, told, scan, poll>>

Unregister(m) ==
  /\ api = "grpc" /\ Unlocked /\ Goes(m, "ending", "notifying")
  /\ told' = told \cup ({reg} \ {"none"}) /\ reg' = "none"
  /\ UNCHANGED <<fixed, outside, data, holder, todo, scan, poll>>

(* A monitor that waits for the one it replaces registers.                 *)
NotifyAll(m) ==
  /\ mon[m] = "notifying"
  /\ mon' = [n \in Monitors |-> IF n = m THEN "none"
                                ELSE IF mon[n] = "blocked" THEN "looping" ELSE mon[n]]
  /\ \/ \E n \in Monitors : mon[n] = "blocked" /\ reg' = n
     \/ (\A n \in Monitors : mon[n] # "blocked") /\ UNCHANGED reg
  /\ told' = told \ {m}
  /\ IF wait = "waiting" THEN wait' = "no" /\ work' = Returned ELSE UNCHANGED <<wait, work>>
  /\ UNCHANGED <<fixed, outside, data, holder, todo, orderly, poll>>

-----------------------------------------------------------------------------
(* The disk monitor: _get_disk_stats_from_api.  It does not take the lock: *)
(* when the store grows or shrinks while it is walked, that is a           *)
(* RuntimeError, which ends the disk monitor like any other.               *)

PollStats ==
  /\ poll.at = "sleeping"
  /\ space' = UpdateDiskStats(disk)
  /\ poll' = [at |-> "total", env |-> disk]
  /\ UNCHANGED <<fixed, outside, store, shown, pushed, holder, mons, scan>>

(* The number of sub-bands is taken, then a walk over them is begun.       *)
PollTotal ==
  /\ poll.at = "total"
  /\ poll' = IF store = Empty THEN [at |-> "assign", env |-> poll.env, total |-> DataTotal(store)]
             ELSE [at |-> "items", env |-> poll.env, len |-> Cardinality(DOMAIN store)]
  /\ UNCHANGED <<fixed, outside, data, holder, mons, scan>>

PollItems ==
  /\ poll.at = "items"
  /\ poll' = [at |-> "iterating", env |-> poll.env, len |-> poll.len, seen |-> store]
  /\ UNCHANGED <<fixed, outside, data, holder, mons, scan>>

(* A store emptied before the walk is begun shows no limit, nor does it    *)
(* know of one; a sub-band beyond the number taken is an IndexError.       *)
PollIterates ==
  /\ poll.at = "iterating"
  /\ IF DOMAIN store # DOMAIN poll.seen \/ \E b \in DOMAIN store : b > poll.len
     THEN poll' = At("ended") /\ UNCHANGED space
     ELSE \E early \in SUBSET DOMAIN store :
            LET walked == [b \in DOMAIN store |-> IF b \in early THEN poll.seen[b] ELSE store[b]]
            IN /\ poll' = [at |-> "assign", env |-> poll.env, total |-> DspWalked(walked)]
               /\ space' = LeastFree(walked)
  /\ UNCHANGED <<fixed, outside, store, shown, pushed, holder, mons, scan>>

PollAssigns ==
  /\ poll.at = "assign"
  /\ shown' = poll.total /\ poll' = [at |-> "publish", env |-> poll.env]
  /\ UNCHANGED <<fixed, outside, store, space, pushed, holder, mons, scan>>

PollPublishes ==
  /\ poll.at = "publish"
  /\ pushed' = [pushed EXCEPT !.free = poll.env] /\ poll' = At("sleeping")
  /\ UNCHANGED <<fixed, outside, store, space, shown, holder, mons, scan>>

-----------------------------------------------------------------------------

Stop == SimulatorStops \/ NothingToStop \/ Signal \/ Wait
Clear == Reset \/ ResetTotal \/ ResetPublish
Worker == StartScan \/ StopScan \/ Abort \/ GoToFault \/ Stop \/ Clear
MonitorGoesOn(m) ==
  \/ BeginSimulated(m) \/ Register(m) \/ Replace(m) \/ ReplaceWaits(m)
  \/ Look(m) \/ LeaveStream(m) \/ HandleSubbandData(m) \/ MonitorTotal(m) \/ MonitorPublish(m)
  \/ EndSimulated(m) \/ Unregister(m) \/ NotifyAll(m)
Monitor(m) == MonitorGoesOn(m) \/ Round(m) \/ StreamBreaks(m)
DiskMonitor == PollStats \/ PollTotal \/ PollItems \/ PollIterates \/ PollAssigns \/ PollPublishes
DataNext ==
  \/ DiskChanges \/ (\E b \in Bands : Records(b))
  \/ Worker \/ (\E m \in Monitors : Monitor(m)) \/ DiskMonitor

DataSpec == DataInit /\ [][DataNext]_dataVars

(* The threads go on; nobody has to start, stop or abort a scan, and no    *)
(* data has to come.  Who waits for the lock of the handler, which is held *)
(* for moments, gets it in the end.                                        *)
DataFairSpec ==
  /\ DataSpec /\ WF_dataVars(DiskMonitor)
  /\ WF_dataVars(Stop) /\ SF_dataVars(Clear)
  /\ \A m \in Monitors : SF_dataVars(MonitorGoesOn(m))

-----------------------------------------------------------------------------
(* Properties *)

(* Once the lock is free, attributes, events and store agree (without a    *)
(* disk monitor): no update of a monitor is mixed up with a reset.         *)
StoreIsPublished ==
  kind # "DSP" /\ holder = "free" /\ ~IndexError(store) => pushed = DataTotal(store) /\ shown = pushed

(* When stop_scan has returned the numbers of the scan are gone for good,  *)
(* if no monitor of an earlier scan was left when it started, and its own  *)
(* had registered when it was told to stop.                                *)
StoppedShowsNothing ==
  kind # "DSP" /\ api = "grpc" /\ orderly /\ work = "stopped" => store = Empty /\ pushed.amount = 0

(* Not so without these conditions: a monitor that registers after         *)
(* _stop_monitoring has found none goes on (MCMonitorData_late.cfg).       *)
StoppedStaysEmpty ==
  kind # "DSP" /\ api = "grpc" /\ work = "stopped" => store = Empty /\ pushed.amount = 0

(* The notification a stop waits for has been, or its monitor never will   *)
(* give any: nobody who was told to stop is left.                          *)
WaitsInVain == wait = "waiting" /\ told = {}

(* A scan that is told to stop does, even when a monitor has died of an    *)
(* IndexError with the lock in its hands, unless it waits for a            *)
(* notification that has been, or a monitor waits, in the lock, for        *)
(* another that needs it.                                                  *)
InStop == work \in {"stopping", "reset", "total", "publish"}
StopEnds == []<>~InStop \/ <>[](WaitsInVain \/ ~Unlocked)

(* Once the disk stays as it is, no data of a scan being there, DSP shows  *)
(* the space it has, unless the disk monitor has ended or the disk is full.*)
DiskCatchesUp ==
  \A free \in 1 .. Cap :
    <>[](disk = free /\ store = Empty) => []<>(shown.free = free \/ poll.at \in {"ended", "off"})

(* What the end of a scan publishes of DSP is that nothing is recorded.    *)
DspStoppedShowsNothing == api = "grpc" /\ orderly /\ work = "stopped" => pushed.amount = 0

(* A full disk is never shown to have space.                               *)
FullIsShown == <>[](disk = 0 /\ store = Empty) => []<>(shown.free = 0)
=============================================================================
