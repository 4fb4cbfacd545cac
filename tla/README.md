# Verification of PST.LMC

TLA+ models of the local monitoring and control software of the SKA pulsar
timing instrument (`ska_pst_lmc`), the TLC runs that check them on small
instances and the TLAPS proofs of what holds for every instance.

## 1. The system

A beam is controlled by one logical TANGO device, BEAM.MGMT, over four
sub-devices, SMRB (the shared-memory ring buffers), RECV, DSP and STAT.  A
sub-device has a component manager, which drives a core application through a
`ProcessApi`, over gRPC or simulated.  Paths below are under
`src/src/ska_pst_lmc/`.

| Component | State it keeps | Operations | Interacts with |
|---|---|---|---|
| **Job executor** `job/` | four queues, the contexts of tasks in flight, the map of commands whose result is awaited | `submit_job`, `stop`, the handlers of the five classes of task | BEAM submits jobs and blocks; devices answer, and later push `longRunningCommandResult` on other threads |
| **Process API monitoring** `component/process_api.py` | the abort event of the current monitoring, a lock, a condition variable | `monitor`, `_stop_monitoring`, `start_scan`, `stop_scan`, `abort`, `disconnect`, and the commands with their error mapping | component managers call it from a command thread; `monitor` and `abort` run on background threads; the core app answers |
| **Background tasks** `util/background_task.py` | run state, thread | `run`, `stop`, `_run`, `submit_task`, `_reap` | used by the Process API and the component managers |
| **Disk monitor** `dsp/disk_monitor_task.py` | monitoring state, stop event, future | `start_monitoring`, `stop_monitoring`, `shutdown` | the DSP component manager; its background thread polls the core app |
| **Observation state model** `component/obs_state_model.py` | the observation state of a sub-device | the `*_invoked`, `*_completed` and `component_*` triggers | fed by commands (Tango threads), by their completion and by the core app |
| **Sub-device commands** `component/pst_device.py`, `component/component_manager.py` | observation state, health, communication state | ConfigureBeam ... GoToFault | the observation state model and the Process API |
| **BEAM orchestration** `beam/beam_component_manager.py`, `beam/beam_device.py` | the observation states it believes its sub-devices are in, the monitored values, remote jobs | on, off, configure_scan, start_scan, stop_scan, abort, obsreset, go_to_fault | the job executor and, through device proxies, change events of its sub-devices |
| **Device proxy** `device_proxy.py` | the subscriptions of a device, with their callbacks | `subscribe_change_event`, `unsubscribe`, event dispatch | TANGO events, each handled on its own thread |
| **Remote task** `util/remote_task.py` | the state of a set of remote commands | aggregate, per-device completion, time-out | device proxies (no longer used by BEAM) |
| **Timeout iterator** `util/timeout_iterator.py` | a queue between a producer thread and its reader | `__next__` with time-out and abort | the gRPC monitoring stream |
| **gRPC client** `component/grpc_lmc_client.py` | a channel | one call per command, with the error codes turned into exceptions | the core application |
| **Monitor data** `component/monitor_data_handler.py`, `*_model.py` | the values of each sub-band | update, reset, aggregate | the monitoring threads and the attributes of the device |
| **Resource calculations** `*_util.py`, `band/` | none | pure functions from a request to the settings of the components: keys, buffer sizes, rates | component managers; SMRB makes what RECV, DSP and STAT look for |

## 2. What is hard

Everything in BEAM and its sub-devices runs on several threads: Tango command
threads, one task thread per component manager, background threads, and a
thread per change event.  What makes each component correct, and is hard to
test:

- **Job executor**: a handler waits in the thread that took its task, so
  threads wait for each other; a result may arrive before its command is
  registered; a command fails on one device while others still run it.
  Correct means: steps stay in order, a success reported is a success, and
  every client of `submit_job` is released.
- **Monitoring**: the thread that monitors starts after the scan has begun,
  and the commands that end the scan may overtake it.  Correct means: a stream
  can always be told to stop, one that is told does, and whoever waits for it
  is woken.
- **BEAM**: commands are called while others are at work, and a job acts on
  sub-devices whose states have changed since it was called; any command of a
  sub-device may fail half-way through a job, and the news of its fault come
  on a thread of their own.  Correct means: BEAM and its sub-devices agree in
  the end, ring buffers outlive their clients, no fault is papered over.
- **Sub-device**: a request to the core application may be refused, fail, or
  fail after it was done; an abort runs next to the worker; a restart forgets
  what the core application remembers.  Correct means: at rest the device never
  claims a state its core application is not in, shows the configuration that
  is at work, and leaves ABORTING and RESETTING, unless the end of its
  monitoring, which has no time-out, is waited for in vain.
- **Power of BEAM and device proxies**: Off unsubscribes in the thread of its
  client while On subscribes in the thread of its job; the first event of a
  subscription comes from inside the call that makes it; a subscription that
  nobody refers to any more unsubscribes itself, wherever that happens.  Correct
  means: a BEAM that is ON is subscribed, hears of every fault, and no thread is
  stuck.  The finalisers break it; what holds is what holds without them.
- **Disk monitor**: the state is assigned without a lock by whoever comes last;
  a stop gives up after a time.  Correct means: no thread polls out of reach.
- **Background tasks**: the thread, its submitter, who stops it and the reaper
  read and write the same few fields.  Correct means: completed is quiet, and
  leaves the list.
- **Remote tasks**: reports of devices are handled by threads of their own, also
  before the answer to the command is recorded.  Correct means: the last report
  adds up, and COMPLETED means all.
- **Monitoring data**: a scan ends while data arrives, or before its monitor has
  registered; the disk monitor writes without the handler's lock.  Correct
  means: store, attributes and events agree, and the end of a scan clears them
  for good.  A monitor that is late undoes that; the claim is about the others.
- **Resources**: four devices compute the same keys, buffer sizes and data rate
  on their own, and nothing compares them at run time.

The hazards, each at its line, are in `PROJECT.json`; they are what the
properties are about.  More that are not listed there are in section 6.

## 3. The modules

| Module | Models | With |
|---|---|---|
| `TaskShape` | the trees of tasks, as constants | |
| `TaskTree` | what the executor promises of a tree (abstract) | `TaskShape` |
| `TaskExecutor` | `TaskExecutor`, `DeviceCommandTaskExecutor`, the devices they command, `stop()` | implements `TaskTree` |
| `TaskExecutorProofs` | its theorems | |
| `ProcessMonitor` | the monitoring of a core application and the commands around it | |
| `ProcessMonitorProofs` | its theorems | |
| `ObsStates` | `PstObsStateMachine` | |
| `DeviceCommands` | the commands of a sub-device as its clients see them, as pure operators | `ObsStates` |
| `SubDevice` | what a sub-device promises to its clients (abstract) | `DeviceCommands` |
| `Beam` | the orchestration of the sub-devices by BEAM | `DeviceCommands`; takes from the executor what `TaskTree` promises, from a sub-device what `SubDevice` does |
| `BeamProofs` | its theorems | |
| `ProcessDevice` | one sub-device with its core application: commands, worker, aborts, errors, restarts | `ObsStates`; implements `SubDevice` |
| `ProcessDeviceProofs` | its theorems, and those of `Resources` | |
| `BeamPower` | On, Off, Standby, Reset of BEAM, its subscriptions, the proxies and their events | takes from the executor what `TaskTree` promises |
| `BeamPowerProofs` | its theorems | |
| `DiskMonitor` | the disk monitors of DSP and the connections that make, start, stop and drop them | |
| `DiskMonitorProofs` | its theorems | |
| `BackgroundTasks` | background tasks, their processor and its reaper | |
| `BackgroundTasksProofs` | its theorems | |
| `RemoteTasks` | `AggregateRemoteTask` over commands of several devices | |
| `RemoteTasksProofs` | its theorems, and those of `MonitorData`, which need the same lemmas on sums | |
| `MonitorData` | the data stores, their handler, and the threads that use it: monitors, worker, disk monitor | |
| `Resources` | keys, bands, buffer sizes and data rates, as pure operators | |
| `MC...` | the instances TLC checks, and properties that only they need | |

A definition that its comment calls a mutant or a mistake is no part of
a specification: it is a plausible bug in the code that the named property
catches when it replaces the definition.

### The job executor

A task stands for its `TaskContext`: `outcome` is what it signalled, `inner`
what the inner context of a handler (a `ParallelTaskContext`, a
`DeviceCommandTaskContext`) signalled, `stage` how far it has come.  The four
queues are sequences, `running` says which thread handles which task, and a
handler is one action per stretch of code between two waits, in the thread that
took the task: `SequentialSubmit` and `SequentialEnd` are the loop of
`_handle_sequential_task`, `WorkerTake`, `WorkerSkip`, `WorkerRoute` and
`WorkerDone` the parts of `_handle_parallel_subtask`, and so on.  The device
executor's lock is held from `SendCommand` to `HandleReply`, so that a result
(`HandleEvent`) waits for its command to be registered.  The commands a job is
made of (`Commands`) are those in the least set of tasks that holds the job and
is closed under subtasks (`Within`): so written, what is said of whole jobs
needs no recursion and can be proved.  Devices are external:
they answer at once, queue, reject or raise, and may be executing the command
even if the call raised.

Left out: `start()` after `stop()`, and what results and exceptions contain,
except whether the text of a failure could be read as JSON (`FailureParses`):
it is the one thing the code tells success and failure by
(`device_task_executor.py:205`).

### Monitoring

`monitor[s]` is the thread that monitors scan `s`; `current` is
`_monitor_abort_event`, `set` the events that are set, `holder` and the waiters
the lock and condition variable.  `_stop_monitoring` is two actions, one per
critical section (`StopSignals`, `StopWaits`), and so is every place where the
lock is let go.  Tasks of one device run one at a time, as in its component
manager; `abort` and `monitor` have threads of their own.

### Observation states and BEAM

`ObsStates` is the transition table of `PstObsStateMachine` as partial
functions; a trigger that is not in the table of a state is refused, and what
comes after it in a callback is not done (`Then`).

In `Beam` a command of BEAM is a job, a sequence of steps, one command for some
sub-devices each.  `tasks` holds those that wait for BEAM's one task thread,
which hands a job to the executor (`TakeTask`), waits until it has ended
(`JobEnds`), calls its callback (`Callback`) and takes the next.  The validation
that `ConfigureScan` starts with goes into the executor's `queue` from the
client's own thread, and so overtakes the commands that wait; the devices take
commands side by side (`SerialModel.NO_SYNC`, `beam_device.py:88`), which is why
anything may be called while a command runs.  `BeginStep`, `Send`, `Succeed`,
`Fail` and `JobEnds` are the promise of `TaskTree` for jobs of this shape,
together with the device's command as seen from outside: taken or refused by
its `is_..._allowed`, its hooks at the start, its triggers at the end, FAULT if
it fails.  `late` is what `TaskExecutor` shows and `TaskTree` abstracts: a
worker that has passed the test of line 338 sends its command although the job
has failed meanwhile.  Lists of sub-devices (`ToAbort`, `ToReset`) are
evaluated where the code does, in the call, not when the job is at work; a
sub-device that is left out makes a step for nobody.
`clean` is history, for properties that only claim something as long as no job
failed.

Abstractions of `Beam`: the list of a call is evaluated at one instant;
`ConfigureInvoked` is what the command does once the configuration is valid;
`abort_commands` drops the tasks that wait, or is too late to; the base device's
completed hook runs only for a command that COMPLETED; a sub-device may
execute two commands at once, which its one worker would do in turn (this only
happens once a job has failed, or under an abort, which has its own thread);
two commands of the same name at one sub-device count as one, and no sub-device
is restarted;
on, off, standby and reset are left to `BeamPower`, BEAM is on and subscribed; the
monitored attributes are left out.  BEAM's own machine and the hooks of its commands are those of
`ska-tango-base` and are taken from how `beam_component_manager.py` pushes its
updates: like the one above without EMPTY.

### A sub-device

`ProcessDevice` has one action per step of a command: the client's thread
triggers the state machine and queues a task (`Call`), the worker takes it
(`Take`), calls the core application (`CoreCall`, or `SimulatedCall`), tells
the state machine what came of it (`Push`), and reports its completion
(`Complete`, `End`) or goes to fault (`GoesToFault`, `CoreGoesToFault`,
`HandleFault`).  The table `Api` says of each command what it tells and what
becomes of an answer that the core application is already there: that is where
the commands of `process_api.py` differ.  An abort has the same steps on a
thread of its own.  With the gRPC API the end of a scan, before its request, and
an abort, after its own, wait for the monitoring (`StopMonitoring`, `AbortCall`);
`MonitorStops` and `AbortMonitorStops` are the end of that wait, which
`ProcessMonitor` shows may never come and which is under no fairness.  The core application is external: `CoreTo` says where a
request leads, `Error` that it fails before or after it has taken effect.
A trigger that the state machine refuses raises, and what stood behind it in
the callback is not done (`Then`).  RECV works out its resources inside the
task, the others before it, which is why only RECV has a configuration `"bad"`
in its queue.

`SubDevice` is this device as BEAM sees it: a state, the commands at work, and
for each command one moment at which it takes effect (`Succeed`), has the device
fault (`Fail`), or is given up (`Reject`, for a core application that is
configured already, or a configuration that makes no sense).  `ProcessDevice` is
shown to implement it (`ImplementsSubDevice`).  The mapping: a command is at work
from its call until the last trigger that makes a difference (`Queued`,
`Working`, `Aborting`); and a command that has told the state machine what the
API says, and has yet to complete, has taken no effect so far (`ObsState`).  That
is what clients can observe, because obsState is RESOURCING or CONFIGURING in
both states of the machine that the mapping takes for one.  Of commands of the
same name only one is told, so one that ends may leave another at work;
GoToFault, which has the device fault before and after its request, is at work
until the second.  `Beam` executes the commands of its sub-devices with the same
operators (`Taken`, `Invoked`, `Completed`); what `SubDevice` allows beyond
`Beam` are the two things its abstractions name: commands of the same name, and
restarts.

`calm` is history.  An abort has a thread of its own, and what it does after
its request has been answered (`process_api.py:647`) may come late.  If its
request fails, the device is in FAULT before the core application is told to go
there; a reset and a new configuration may come in between, and the device is
then configured over a core application in FAULT, which takes TLC four commands
to find without `calm`.  Likewise a late abort tells a device that scans again
that it does not.  Neither a comment nor a test speaks of this, so what is
claimed of a device at rest is claimed as long as no reset was called while an
earlier abort or reset was under way.

### The power of BEAM

`BeamPower` is the part of BEAM that `Beam` takes for granted.  Jobs are as in
`Beam`.  On subscribes in its completion callback: `Check`, `Subscribe`,
`AddCallback`, `Read`, `Get`, `Assign` are the stretches of
`subscribe_change_event` and of the loop around it; Off unsubscribes in its
client's thread (`UnsubscribeNext`, `Unsubscribe`, `Unsubscribed`).  A proxy has
one subscription per attribute (`stored`) and one write lock (`locked`);
`events` are the threads that `device_proxy.py` starts for each event.

A subscription lives as long as somebody refers to it (`Kept`): BEAM's handles,
the proxy, the loop of On with the frame that made the last one, the loops of
Off.  A step after which nobody does puts it into `dropped` of its thread, which
runs `__del__` (`Finalise`) before anything else; in CPython that is at once.
Under the lock of its proxy an entry is removed whichever subscription it is
(`Delete`); if that was the last reference to a newer one, its `__del__` waits
for the lock its own thread holds, and that proxy is `lost` from then on: no
event is handled, no subscription made or removed.  What the traceback of an
exception may keep alive, and how long, is left out.

`ska-tango-base` is external: it refuses a command that leads to the state the
device is in, and calls the completion hook of a command that raised before it
was queued.

### Disk monitors

Two threads call the component manager, one that connects and disconnects and
one that deletes the device (`delete_device`).  A monitor is made at `Connect`
and dropped at `Drop`; each assignment of its state is an action (`StartSets`,
`StopSets`, `Started`, `Exits`, `Join`), as none of them looks at the state
under the lock.  `StopEnds` is the return of a wait that has a time-out, so it
may always happen.  `Collected` is `__del__` of a monitor nobody refers to.

### Background tasks

One action per assignment of `run`, `_run`, `stop` and `_join`.  `_join` reads
the reference twice, once to see whether there is one (`JoinLooks`) and once to
join (`JoinReads`): in between the thread may have dropped it (`JoinFails`).
The reaper goes through the list by position, as a Python iterator does, and
takes out of it what it looks at (`ReapNext`, `Reap`).

### Remote tasks and monitoring data

In `RemoteTasks` a device reports by events, `handlers` are the threads that
handle them, and a task only heeds what is about the command whose id it has
recorded (`About`).  The aggregate's status is worked out in one step.  Note
that an answer that is neither OK, QUEUED nor REJECTED leaves a task in STAGING,
although a comment speaks of FAILED.  In `MonitorData` an `amount` stands for
the fields that are summed over the sub-bands, `free` for the disk space;
monitors, worker and disk monitor are processes over the store, with the
handler's lock where the code takes it.  A scan starts a thread for its monitor
(`"spawned"`), which registers its event later (`Register`, or `Replace` if
another is still registered); `_stop_monitoring` finds nothing registered
(`NothingToStop`) and returns, or sets the event (`Signal`) and waits for a
notification (`Wait`), which may have been.  So the monitors of two scans may be
at work at a time, and a stop may wait in vain (`WaitsInVain`).  The reading of
the stream is coarser than in `ProcessMonitor`: a monitor heeds its own event
only, and there is one stop, abort or disconnect at a time.  `orderly` is
history: no monitor of an earlier scan was left when this scan started, and its
stop did not overtake the registration of its own.

### Resources

`Resources` has the numbers the components work out of a request, and next to
them the claims that tie them together: `KeysApart`, `KeysAgree`,
`HoldsPackets`, `RateFillsBuffer`.  Python's `//` is `\div`; the data rate,
which is a float, is compared as the integer it is a quotient of.  What a ring
buffer does with its key and what is in a packet of the correlator are external:
the comments of `smrb_util.py` (a ring buffer needs two keys) and the sizes in
`band_config.py` say so.

## 4. What the runs check

| Run | Shows | Expected |
|---|---|---|
| `MCTaskExecutor_safety` | jobs shaped like BEAM's, with `stop()` at any point: type, `SuccessSound`, `StepsInOrder`, `JobVerdict`, refinement of `TaskTree`, nothing is sent once stopped | pass |
| `MCTaskExecutor_live` | every other kind of task: every job releases its client | pass |
| `MCProcessMonitor_all` | every stream is within reach of `_stop_monitoring`, one that is told to stop closes | pass |
| `MCProcessMonitor_fault` | a monitor waits for another with the lock that one needs | violation |
| `MCBeam_all` | `Settled`, `RingBuffersOutliveClients`, `FaultNotHidden` | pass |
| `MCBeam_abort` | ABORTED with four sub-devices READY | violation |
| `MCBeamPower_all` | BEAM shows the power its sub-devices have (`PowerAgrees`); but for the finalisers, a BEAM that is ON is subscribed (`OnIsSubscribed`), hears of faults (`FaultsAreSeen`), and no thread is stuck (`ThreadsGoOn`) | pass |
| `MCProcessDevice_all` | `AgreesAtRest`, `ShownIsConfigured`, `HealthGoesWithFault`, `AbortsAndResetsEnd`, the refinement of `SubDevice` (`ImplementsSubDevice`); and the claims of `Resources` on bounded inputs, as assumptions that TLC evaluates | pass |
| `MCDiskMonitor_all` | `UntoldIsCurrent`, `QuietOnceShut`, `DroppedMonitorsGo`, `DisconnectReturns` | pass |
| `MCBackgroundTasks_all` | `CompletedIsQuiet`, `CompletedAreReaped`, `StopReturns` | pass |
| `MCRemoteTasks_all` | `CompletedMeansAll`, `ReportsAddUp`, `NobodyWaitsForEver` | pass |
| `MCMonitorData_all` | `StopEnds`; `StoreIsPublished` and `StoppedShowsNothing` for the devices without a disk monitor, `DiskCatchesUp` for DSP | pass |

A violation is a disagreement between a comment or a log message and the code;
`PROJECT.json` quotes the line.  Deadlock is not checked: in every run the
clients stop after a bounded number of calls.

These configurations are kept beside the runs; TLC finds a counterexample to
each, and each shows a weakness that no comment or test of the repository
contradicts, or one that is close to what a run shows or makes a condition of:

| Configuration | Counterexample |
|---|---|
| `MCTaskExecutor_nested` | a sequential task inside a sequential task never returns: it waits in the only thread that could run its subtasks (`task_executor.py:254`) |
| `MCTaskExecutor_loop` | a subscription that raises ends the device thread; later commands are never signalled (`device_task_executor.py:141`) |
| `MCTaskExecutor_early` | a failed command is complete while a device still executes it (`task_executor.py:358`) |
| `MCProcessMonitor_late` | a scan that ends before its monitor has registered leaves a stream that nobody told to stop (`process_api.py:711`) |
| `MCProcessMonitor_lost` | the end of a monitor is notified before its wait, and the wait has no time-out (`process_api.py:717`) |
| `MCProcessDevice_stuck` | a task that raises before it has reported anything leaves the device in RESOURCING without a way out but GoToFault: not even an abort (`receive_component_manager.py:378`) |
| `MCBeamPower_cleanup` | the finaliser of a subscription, which runs under the write lock of its proxy, waits for that lock in the thread that holds it (`device_proxy.py:268`): four calls, On, Off, Off and an On that is refused half-way |
| `MCBeamPower_deaf` | the finaliser of an old subscription removes the newer one that its proxy has stored: BEAM is ON and deaf (`device_proxy.py:268`) |
| `MCBeamPower_off` | Off leaves out the sub-devices that are off when it is called, also those that a job ahead of it turns on (`beam_component_manager.py:771`) |
| `MCMonitorData_late` | data of a scan is stored and published after its end has cleared them, by a monitor that registered late (`process_api.py:711`) |
| `MCMonitorData_race` | the disk monitor brings back the amount that the end of a scan has cleared (`dsp_component_manager.py:180`) |
| `MCMonitorData_full` | a full disk, with 0 bytes free, is shown as one without limit (`dsp_model.py:123`) |

**Bounds.**  The executor's jobs are two trees with a nested parallel step, two
devices and two workers: two jobs are enough for every queue to hold work of
several jobs, two workers for a subtask to wait on another, and the shapes of
tasks are all there between the two forests.  Monitoring has three scans, the
least for a monitor that ends to wake one that waits for another; aborts,
faults and disconnects come in or after the second of them (`Disturbed`), so
that there is a monitor before and one after.
BEAM has its four sub-devices and four events, each a call of a client
or a failure: a full cycle of configuring, scanning, ending and deconfiguring,
or three calls and a failure at any moment of them.  Its `Settled` and the order
of SMRB are claimed only while no job has failed and nobody has called
GoToFault; beyond that they do not hold: a command sent late overtakes the next
jobs, and two resets called while the sub-devices are still faulting leave out
the ones that were EMPTY when they were called.  What holds then is
`FaultNotHidden`.  `BeamPower` has two sub-devices, as many as a loop over them
needs to be cut in the middle, and four events: four calls, the least for an Off
that is late to delete a subscription newer than the one it holds (On, Off, Off,
and an On that is refused half-way), or two calls and a fault that comes and
goes.  A BEAM that is ON and deaf takes five calls.  `ProcessDevice` is a
RECV or an SMRB, the two ways of working out resources, with four commands: a
configuration, an abort, a reset and one more; two configurations, to tell one
from another, and one restart.  Three connections let a third monitor be made
while two dropped ones are still at work; two background tasks let the reaper
skip one for the other; two devices and two events in flight let reports
overtake each other; two sub-bands let a store be half filled, and two monitor
threads let the monitor of one scan meet that of the next.  DSP has one, so that
its disk monitor can interleave with it step by step.  The bounds limit
what TLC explores and thus the liveness properties; the invariants are proved
for any number of jobs, scans, calls, failures, changes, connections, tasks,
devices and sub-bands (section 5).

**Fairness.**  `TaskExecutor` assumes weak fairness of its steps together
(`Progress`): threads run, devices answer, events arrive; nobody need submit or
stop.  `ProcessMonitor` assumes it of the monitor threads and of the stopping
command, not of clients, scans or faults.  `ProcessDevice` assumes that the
worker and the threads that abort go on, so that a call to the core application
ends, if only with an error: gRPC calls raise when the peer is gone.  It does not
assume that a wait for the end of the monitoring ends.
`BeamPower`, `RemoteTasks` and `MonitorData` assume that their threads go on,
`DiskMonitor` and `BackgroundTasks` also that the action of a thread returns and
a wait with a time-out ends; nobody is assumed to call, connect, fail, or let a
device finish its command.  In `MonitorData` who waits for the handler's lock
gets it in the end (`SF`): it is held for a few assignments at a time, by threads
that pause between two of them.

That threads are scheduled justifies this, as long as what a thread waits for
comes.  In two places of the code it may not, and no fairness is assumed there:
`_stop_monitoring` waits without a time-out for a notification that may have
been, and may have to wait for a lock whose holder waits for another that needs
it (`process_api.py:718`, `749`); and a finaliser may wait for the lock of a
proxy that its own thread holds (`device_proxy.py:268`).  The properties that
depend on it say so: `AbortsAndResetsEnd` has the hypothesis `WaitsEnd`,
`StopEnds` and `ThreadsGoOn` name the state in which a thread is stuck, and
`MCProcessMonitor_lost`, `MCProcessMonitor_fault` and `MCBeamPower_cleanup` show
that it is reached.  `Beam` has no
liveness properties.

## 5. What is proved

`TaskExecutorProofs`, for every forest of jobs, every pool and every behaviour
of the devices, under the assumptions of `TaskShape` and `TaskExecutor`:

- `TypeCorrect`: `Spec => []TypeOK`.
- `Invariance`: `Spec => []IInv`.  `TypeOK` and the properties are not
  inductive.  What is added: queues hold distinct tasks that have yet to begin,
  of the kind that goes there (`QueueInv`); who handles a task fits its stage
  (`StageInv`); a sequential task has submitted a prefix of its subtasks, all
  successful but the last, and a parallel one knows of its subtasks what they
  signalled (`TreeInv`); only one-device commands reach the device thread, and
  its lock is held exactly across a call (`DeviceKind`, `CallInv`).
- `SuccessIsReal`: `SuccessSound` is an invariant if `FailureParses = {FALSE}`.
  Without that hypothesis it does not hold: a failure whose text is JSON counts
  as a success.
- `OrderIsKept` (`StepsInOrder`) and `VerdictIsTrue` (`JobVerdict`), under the
  same hypothesis: a step of a job is sent only when every device has done the
  steps before it; a client is told of a success only if all commands of its
  job succeeded, and of a failure only if one, or a lambda, failed.  They speak of whole jobs.
  A task that has succeeded has subtasks that have, and the set of those is
  closed under subtasks, so it holds all the task is made of (`WithinClosed`):
  no induction over the depth of a job is needed.  `CommandInv` says what a
  command that was sent, or answered, means for the tasks around it, `BlameInv`
  that a failed task has a failed command or lambda below it, `ToldInv` that a client is
  told what its job signalled.
- `StopIsFinal` (`NothingSentOnceStopped`, an action property): once stopped, no
  thread is left that could send.
- `Refinement`: `Spec => Tree!Spec`, initial states to initial states, each
  step to a step of the tree or a stutter.

`ProcessMonitorProofs`, for every number of scans: `TypeCorrect`;
`Invariance`, whose strengthening says that an event is forgotten only once it
is set, and that a monitor that replaces another holds the lock and waits for an
event that is set; from it `NoStreamEscapes`, that a stream nobody has told to
stop is the one `_stop_monitoring` reaches.

`DiskMonitorProofs`, for every number of connections: `TypeCorrect`;
`NoMonitorEscapes`, that a monitor whose thread is at work and that has not been
told to stop is the one the component manager holds; `ShutMonitorsStayQuiet`.
The state of a monitor is overwritten by whoever comes last, so the inductive
invariant rests on what is not: the event is there before STOPPING and is never
cleared (`ToldInv`), the executor is closed before a deletion drops the monitor
(`ClosedInv`), a monitor has no thread before its one start (`FreshInv`), a
thread at work keeps the state from looking as if there were none (`BusyInv`),
and a client is in the monitor that the component manager holds, or has had
taken from it (`PlaceInv`).

`BackgroundTasksProofs`, for any tasks: `TypeCorrect`, which needs that taking a
task out of the list leaves a list of tasks (`WithoutIsList`), and
`CompletedStaysQuiet`: from the start of a thread on, its reference is only
dropped by a thread at its end or on behalf of one (`StartInv`, `RefInv`,
`JoinInv`).

`BeamProofs`, for any number of commands and failures in any order:

- `TypeCorrect`, in which the queues have all the content: each job in them is
  what is left of the plan of a command (`BaseInv`).
- `NoFaultHidden` (`FaultNotHidden`, an action property): BEAM never turns
  IDLE, READY or SCANNING over a fault it knows of, unless a reset waits its turn.  By `FaultsInv` BEAM is then in a state
  that no job about to end leads out of, or the job has yet to come to the faulty
  sub-device, and will fail there or reset it.
- `RingBuffers` (`RingBuffersOutliveClients`) and `SettlesWell` (`Settled`), of
  runs in which no job has failed and nobody has called GoToFault.  The invariant (`WorkInv`) has a part for
  each thing the argument needs of the rest of a job: the jobs on their way tell
  the state of BEAM (`OrderInv`); a sub-device executes the command of the step
  at work or nothing (`SendInv`); it is in the state its job leaves it in, or
  the job has yet to come to it (`DoneInv`); SMRB is first up and last down
  (`BufferInv`, `RingInv`); BEAM and the sub-devices agree when no job is at work
  (`AgreeInv`).

`BeamPowerProofs`, for any sub-devices, in any order, and any number of calls
and changes:

- `TypeCorrect`, in which one thing is no matter of course: a subscription never
  has more callbacks than there were calls (`CountInv`), because the loop of On
  passes no device twice.
- `OnIsHeard` (`OnIsSubscribed`): as long as no subscription has unsubscribed
  itself, one that a proxy has stored is live and has a callback (`StoredInv`), and the loop of On has left one behind for
  each device it has passed unless an Off is on its way (`HeardInv`), which
  stays on its way until its job begins (`OffKept`) and alone takes
  subscriptions away (`StoredKept`).
- `PowerIsTrue` (`PowerAgrees`): while nothing has failed, a job has led the
  devices it has done with to its own power state (`PowerInv`).

The order of the sub-devices is assumed to be a sequence without repetitions
(`OrderAssumption`), as the list the component manager makes is.

`ProcessDeviceProofs`, for either kind of sub-device, any configurations and any
number of commands and restarts:

- `TypeCorrect`.
- `FaultHealth` (`HealthGoesWithFault`): of all steps from a state off the normal
  course only the completion of a reset leads back, and it makes the device
  healthy.
- `CoreAgrees` (`AgreesAtRest`) and `ShownAgrees` (`ShownIsConfigured`).  The
  invariant speaks of what the device is going to claim once the command at work
  has been told and completed (`Claimed`), which the core application is at every
  moment except between an error and the fault it makes (`AgreeInv`).  It is kept
  because a command on its way confines the states the machine can be in
  (`QueueInv`, `WorkInv`), what may wait behind a command is known (`OrderInv`),
  and an abort keeps the device off its normal course (`AbortInv`).  The last
  needs `calm`.
- `SeenAsSubDevice` (`ImplementsSubDevice`): `Spec => Seen!Spec`, calm or not.
  What a step is to clients is one of three things: a call (`SeenCalls`), the end
  of a command (`SeenEnds`), or nothing (`SeenStays`).  `EffectIs` works out where
  a command that takes effect in a state leads, and `Telling`, the invariant, in
  which states a command can be found between its two triggers: where it has
  been told, or off the normal course.  Without it a completion could have an
  effect that the command does not.

`RemoteTasksProofs`, for any number of devices:

- `CompletedIsTrue` (`CompletedMeansAll`).  A report may be about a state its
  device has left; the invariant adds that the sender turns to each device once,
  so that a device whose turn has yet to come has done nothing (`OrderInv`) and
  none leaves COMPLETED, and that what a task, an answer or an event takes for
  COMPLETED is so (`TrueInv`).
- `ReportsAreRight` (`ReportsAddUp`): a report is never made while the sender
  is still sending, and the last one amounts to what the tasks know unless
  another change waits to be worked out (`SendingInv`, `AddUpInv`).
- `TypeCorrect`: the average of the progress is never above 100.  The sum is a
  fold over the tasks; that it is at most 100 times their number is proved by the
  well-foundedness of the numbers on a set of them (`Counting`), a form of
  induction that is within the prover's reach (`SumUnfolds`, `SumBounded`).

`RemoteTasksProofs` also has the theorems about `MonitorData`, for any number of
sub-bands and any disk (which is why the specification of that module has names
of its own, `DataSpec` and so on):

- `DataIsTyped`: the type invariant, `DataTypeOK`, which is proved and not run.
  What the sub-bands add up to is bounded by the lemmas on sums, and a store never has a sub-band that is not reported
  (`DataTypes`), without which the total of STAT could be that of no sub-band.
- `StoreAgrees` (`StoreIsPublished`): the invariant says who holds the lock, by
  where the worker and the monitors are (`HolderInv`), and that whoever is about
  to publish holds the total of the store (`AgreeInv`).
- `StoppedIsEmpty` (`StoppedShowsNothing`): when an orderly scan has ended, the
  store is empty and so is what was published, and stays so until the next.
  That a stop has returned does not say by itself that no monitor is left.  What
  does is that in an orderly scan there is one monitor at most and that it is
  the one registered for as long as it reads its stream (`OrderlyInv`): a stop
  that finds nothing registered comes after its end, one that finds it goes on
  only when it notifies.  So a reset finds no monitor that could store data, and
  the store is empty from then on (`EmptiedInv`).  Without the condition the
  statement is false (`MCMonitorData_late`).

DSP is left out of both, as in the properties: its disk monitor does not take
the lock, and `MCMonitorData_race` shows what then happens.

`ProcessDeviceProofs` also has the theorems about `Resources`, for all numbers:
`KeysNeverClash`, that no two ring buffers of any beams and sub-bands use the
same key number, the second one of each included; `BuffersHoldPackets`, that data
and weights buffers hold the same number of packets to the byte when the channels
fill whole packets and samples whole bytes; `RatesAgree`, that the data RECV has
DSP expect is what SMRB has made room for.  Without those conditions it does not
hold: the scale of a packet that is not full is left out of the weights buffer
(`smrb_util.py:109`).

Only model-checked: every liveness property, which is out of the prover's reach.

## 6. What is left

Worth doing next: restarts of a sub-device in `Beam`, and commands of the same
name that are at work at one sub-device at once, so that `Beam` is about every
sub-device that `SubDevice` allows.

Hazards that were met and that no property covers:

- a start of a disk monitor waits for the end of a stop, and of a task that a
  concurrent deletion has cancelled, without a time-out
  (`disk_monitor_task.py:134`); a poll that fails ends the polling until the next
  connection (`disk_monitor_task.py:157`);
- a start after a stop finds the event set and its thread ends at once
  (`disk_monitor_task.py:90`): the component manager never starts one twice;
- the reaper may look at a task that is in the list but not yet running, and
  removes it (`background_task.py:133`): the task runs, but the processor no longer
  knows it; a periodic task whose STOPPING was undone keeps its stop waiting,
  and `StopReturns` is about one-shot tasks only (`background_task.py:269`);
- `JobReturns` is about jobs without a sequential task inside a sequential one,
  which never returns (`task_executor.py:254`), and none of BEAM's jobs has that;
- a change of a remote command that comes before the id of the command is
  recorded is dropped (`remote_task.py:142`): its task ends with the time-out of
  120 s, although the device was quick;
- a deletion of the device while the call that connects is on its way finds no
  disk monitor to shut down, and the one made next polls on
  (`dsp_component_manager.py:117`): in `DiskMonitor` the connection and the
  making of the monitor are one step, which does not come after a deletion;
- a device that is refused a connection stays NOT_ESTABLISHED until it is told
  to stop communicating (`component_manager.py:510`);
- Off whose job fails leaves BEAM ON and without subscriptions
  (`beam_component_manager.py:716`): `OnIsSubscribed` makes an exception of it;
- events of a sub-device are handled by threads of their own and may be
  reordered, so that an old state is the last one BEAM notes
  (`device_proxy.py:200`);
- a command that was queued has no time-out: if its device restarts, its job
  never ends (`device_task_executor.py:174`); a failure whose text parses as JSON
  counts as a success (`device_task_executor.py:205`); a `ParallelTask` without
  subtasks is never complete (`task_executor.py:308`); `stop()` waits for threads
  that wait for results (`task_executor.py:128`).

Not modelled, and why: conversions to and from protobuf and attribute getters
(no control), simulators and test servers (stand-ins for core applications),
JSON schemas and their validation (an external library, and it changes
nothing), what results, exceptions and configurations contain.
