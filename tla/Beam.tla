-------------------------------- MODULE Beam --------------------------------
(***************************************************************************)
(* The orchestration of the sub-devices SMRB, RECV, DSP and STAT by BEAM   *)
(* (beam/beam_component_manager.py).  A command of BEAM is a job: a        *)
(* sequence of steps, each a command for some sub-devices.  The one task    *)
(* thread of BEAM hands a job to the job executor, waits for it, calls its *)
(* callback and takes the next.  TaskExecutor models how the executor      *)
(* works; here is what it promises (TaskTree): jobs one after another, the *)
(* commands of a step in any order, the next step after all of them, and   *)
(* the first failure fails the job at once, whatever is still on its way.  *)
(*                                                                         *)
(* A sub-device follows the machine of ObsStates, its commands running     *)
(* side by side; one that fails puts it in FAULT, and the news of that     *)
(* reach BEAM on a thread of their own.                                    *)
(***************************************************************************)
EXTENDS DeviceCommands, Integers, Sequences

CONSTANTS MaxEvents,  \* how many commands are called or fail (a bound on the model)
          Callable    \* the commands that clients call

ASSUME BoundsAssumption == MaxEvents \in Nat

Clients == {"recv", "dsp", "stat"}        \* of the ring buffers of SMRB
Devices == Clients \cup {"smrb"}

BeamCommands == {"ConfigureScan", "DeconfigureScan", "Scan", "EndScan", "Abort", "ObsReset",
                 "GoToFault"}
ASSUME CallableAssumption == Callable \subseteq BeamCommands

VARIABLES
  beam,       \* the observation state of BEAM
  configured, \* whether _curr_scan_config is set
  validated,  \* clients whose ConfigureScan is valid and not yet invoked
  tasks,      \* the jobs that wait for the task thread
  queue,      \* the jobs in the executor, the one at work first, with the steps it has yet to begin
  ended,      \* the job of the task thread that has ended well, its callback still to be called
  command,    \* the command of the current step
  todo,       \* the sub-devices it has not been sent to
  awaited,    \* those that execute it
  late,       \* commands of failed jobs that may still be sent
  dev,        \* of each sub-device: its observation state
  running,    \* of each sub-device: the commands it executes
  news,       \* sub-devices whose FAULT is on its way to BEAM
  events,     \* the number of commands called, and of failures of sub-devices
  clean       \* no job has failed, no GoToFault was called (for the properties)

jobVars == <<tasks, queue, ended, command, todo, awaited, late, clean>>
devVars == <<dev, running, news>>
vars == <<beam, configured, validated, jobVars, devVars, events>>

Step(devices, c) == [devices |-> devices, command |-> c]

JobType == [name : BeamCommands \cup {"ValidateConfigureScan"},
            steps : Seq([devices : SUBSET Devices, command : Commands \cup {"Lambda"}])]

TypeOK ==
  /\ beam \in States
  /\ configured \in BOOLEAN /\ validated \in Nat
  /\ tasks \in Seq(JobType) /\ queue \in Seq(JobType) /\ ended \in BeamCommands \cup {"none"}
  /\ command \in Commands \cup {"Lambda"}
  /\ todo \subseteq Devices /\ awaited \subseteq Devices
  /\ late \subseteq Devices \X Commands
  /\ dev \in [Devices -> States]
  /\ running \in [Devices -> SUBSET Commands]
  /\ news \subseteq Devices
  /\ events \in 0 .. MaxEvents /\ clean \in BOOLEAN

Init ==
  /\ beam = "IDLE" /\ configured = FALSE /\ validated = 0
  /\ tasks = <<>> /\ queue = <<>> /\ ended = "none" /\ command = "Lambda" /\ todo = {} /\ awaited = {} /\ late = {}
  /\ dev = [d \in Devices |-> "EMPTY"]
  /\ running = [d \in Devices |-> {}]
  /\ news = {} /\ events = 0 /\ clean = TRUE

-----------------------------------------------------------------------------
(* The jobs.                                                               *)

(* The lists of devices are made when the command is called, not when its  *)
(* job is at work.                                                         *)
ToAbort(devices) == {d \in devices : dev[d] \notin {"ABORTED", "FAULT", "EMPTY"}}

AbortSteps == <<Step(ToAbort({"recv"}), "Abort"), Step(ToAbort({"dsp", "stat"}), "Abort"),
                Step(ToAbort({"smrb"}), "Abort")>>

(* Those to reset, one after another; one that is left out is a step for   *)
(* no device.                                                              *)
\* a mutant of ToReset: with the states that ToAbort leaves alone
ToResetNotFaulty(devices) == {d \in devices : dev[d] \notin {"EMPTY", "FAULT"}}
ToReset(devices) == {d \in devices : dev[d] # "EMPTY"}

ResetSteps == <<Step(ToReset({"stat"}), "ObsReset"), Step(ToReset({"dsp"}), "ObsReset"),
                Step(ToReset({"recv"}), "ObsReset"), Step(ToReset({"smrb"}), "ObsReset")>>

\* a mutant of ConfigureSteps: the clients do not wait for the ring buffers
ConfigureStepsAtOnce ==
  <<Step(Devices, "ConfigureBeam"),
    Step({"smrb", "recv", "stat"}, "ConfigureScan"), Step({"dsp"}, "ConfigureScan")>>

ConfigureSteps ==
  <<Step({"smrb"}, "ConfigureBeam"), Step(Clients, "ConfigureBeam"),
    Step({"smrb", "recv", "stat"}, "ConfigureScan"), Step({"dsp"}, "ConfigureScan")>>

DeconfigureSteps ==
  <<Step(Devices, "DeconfigureScan"), Step(Clients, "DeconfigureBeam"),
    Step({"smrb"}, "DeconfigureBeam")>>

\* a mutant of InOrder: STAT is forgotten
InOrderNoStat(c) == <<Step({"recv"}, c), Step({"dsp"}, c), Step({"smrb"}, c)>>

InOrder(c) == <<Step({"recv"}, c), Step({"dsp", "stat"}, c), Step({"smrb"}, c)>>

Steps(c) ==
  CASE c = "ValidateConfigureScan" -> <<Step(Devices, "ValidateConfigureScan")>>
    [] c = "ConfigureScan" -> ConfigureSteps
    [] c = "DeconfigureScan" -> DeconfigureSteps
    [] c = "Scan" -> <<Step({}, "Lambda"), Step(Devices, "Scan")>>
    [] c \in {"EndScan", "GoToFault"} -> InOrder(c)
    [] c = "Abort" -> AbortSteps
    [] c = "ObsReset" -> AbortSteps \o ResetSteps

JobOf(c) == [name |-> c, steps |-> Steps(c)]

-----------------------------------------------------------------------------
(* Clients.                                                                *)

Event == events < MaxEvents /\ events' = events + 1

Call(c) ==
  /\ c \in Callable /\ Event
  /\ tasks' = Append(tasks, JobOf(c))
  /\ UNCHANGED <<configured, validated, queue, ended, command, todo, awaited, late, clean, devVars>>

(* The thread of the client has the sub-devices validate the configuration *)
(* and goes on when they have.                                             *)
ConfigureScan ==
  /\ beam \in {"IDLE", "READY"}
  /\ "ConfigureScan" \in Callable /\ Event
  /\ queue' = Append(queue, JobOf("ValidateConfigureScan"))
  /\ UNCHANGED <<beam, configured, validated, tasks, ended, command, todo, awaited, late, clean,
                 devVars>>

\* a mutant of ConfigureInvoked: it does not wait for the validation
ConfigureInvokedAtOnce ==
  /\ validated' = validated - 1
  /\ IF Allowed(beam, "configure_invoked")
     THEN beam' = After(beam, "configure_invoked") /\ tasks' = Append(tasks, JobOf("ConfigureScan"))
     ELSE UNCHANGED <<beam, tasks>>
  /\ UNCHANGED <<configured, queue, ended, command, todo, awaited, late, clean, devVars, events>>

ConfigureInvoked ==
  /\ validated > 0 /\ validated' = validated - 1
  /\ IF Allowed(beam, "configure_invoked")
     THEN beam' = After(beam, "configure_invoked") /\ tasks' = Append(tasks, JobOf("ConfigureScan"))
     ELSE UNCHANGED <<beam, tasks>>
  /\ UNCHANGED <<configured, queue, ended, command, todo, awaited, late, clean, devVars, events>>

DeconfigureScan == beam = "READY" /\ Call("DeconfigureScan") /\ UNCHANGED beam
Scan == beam = "READY" /\ Call("Scan") /\ UNCHANGED beam
EndScan == beam = "SCANNING" /\ Call("EndScan") /\ UNCHANGED beam

GoToFault ==
  /\ "GoToFault" \in Callable /\ Event /\ clean' = FALSE
  /\ tasks' = Append(tasks, JobOf("GoToFault"))
  /\ UNCHANGED <<beam, configured, validated, queue, ended, command, todo, awaited, late, devVars>>

Abort ==
  /\ beam \in Abortable /\ Call("Abort")
  /\ beam' = After(beam, "abort_invoked")

ObsReset ==
  /\ beam \in {"ABORTED", "FAULT"} /\ Call("ObsReset")
  /\ beam' = After(beam, "obsreset_invoked")

-----------------------------------------------------------------------------
(* The executor.                                                           *)

Job == Head(queue)

(* The task thread waits for its job, which no other but it can have. *)
AtWork == ended # "none" \/ \E i \in 1 .. Len(queue) : queue[i].name # "ValidateConfigureScan"

TakeTask ==
  /\ ~AtWork /\ tasks # <<>>
  /\ queue' = Append(queue, Head(tasks)) /\ tasks' = Tail(tasks)
  /\ UNCHANGED <<beam, configured, validated, ended, command, todo, awaited, late, clean, devVars,
                 events>>

StepOver == queue # <<>> /\ todo = {} /\ awaited = {}

BeginStep ==
  /\ StepOver /\ Job.steps # <<>>
  /\ command' = Head(Job.steps).command
  /\ todo' = Head(Job.steps).devices
  /\ queue' = [queue EXCEPT ![1].steps = Tail(@)]
  /\ command' = "Lambda" => configured
  /\ UNCHANGED <<beam, configured, validated, tasks, ended, awaited, late, clean, devVars, events>>

(* The job fails, and its callback is not called; what it had begun to     *)
(* send may go out later.                                                  *)
Fails(unsent) ==
  /\ queue' = Tail(queue)
  /\ command' = "Lambda" /\ todo' = {} /\ awaited' = {} /\ clean' = FALSE
  /\ late' = late \cup {<<d, command>> : d \in unsent}

(* The configuration of the scan is not there, or cannot be written. *)
WriteFails ==
  /\ StepOver /\ Job.steps # <<>> /\ Head(Job.steps).command = "Lambda"
  /\ IF configured THEN Event ELSE UNCHANGED events
  /\ Fails({})
  /\ UNCHANGED <<beam, configured, validated, tasks, ended, dev, running, news>>

Send(d) ==
  /\ d \in todo
  /\ IF Taken(dev[d], command)
     THEN /\ dev' = [dev EXCEPT ![d] = Invoked(@, command)]
          /\ running' = [running EXCEPT ![d] = @ \cup {command}]
          /\ todo' = todo \ {d} /\ awaited' = awaited \cup {d}
          /\ UNCHANGED <<queue, command, late, clean>>
     ELSE Fails(todo \ {d}) /\ UNCHANGED <<dev, running>>
  /\ UNCHANGED <<beam, configured, validated, tasks, ended, news, events>>

(* One that the sub-device refuses, or that no worker had taken up, is     *)
(* never sent.                                                             *)
SendLate(d, c) ==
  /\ <<d, c>> \in late /\ late' = late \ {<<d, c>>}
  /\ Taken(dev[d], c)
  /\ dev' = [dev EXCEPT ![d] = Invoked(@, c)]
  /\ running' = [running EXCEPT ![d] = @ \cup {c}]
  /\ UNCHANGED <<beam, configured, validated, tasks, queue, ended, command, todo, awaited, clean, news,
                 events>>

(* A sub-device reports how its command ended. *)
Report(d, c, ok) ==
  IF d \in awaited /\ c = command
  THEN IF ok THEN awaited' = awaited \ {d} /\ UNCHANGED <<queue, command, todo, late, clean>>
             ELSE Fails(todo)
  ELSE UNCHANGED <<queue, command, todo, awaited, late, clean>>

Succeed(d, c) ==
  LET r == Completed(dev[d], c) IN
  /\ c \in running[d]
  /\ running' = [running EXCEPT ![d] = @ \ {c}]
  /\ dev' = [dev EXCEPT ![d] = r.state]
  /\ news' = IF c = "GoToFault" THEN news \cup {d} ELSE news
  /\ Report(d, c, r.ok)
  /\ UNCHANGED <<beam, configured, validated, tasks, ended, events>>

(* One whose configuration is not valid, or that is configured already,    *)
(* stays as it is; any other failure is a fault.                           *)
Fail(d, c) ==
  /\ c \in running[d] /\ Event
  /\ running' = [running EXCEPT ![d] = @ \ {c}]
  /\ \/ UNCHANGED <<dev, news>>
     \/ c # "ValidateConfigureScan" /\ dev' = [dev EXCEPT ![d] = "FAULT"] /\ news' = news \cup {d}
  /\ Report(d, c, FALSE)
  /\ UNCHANGED <<beam, configured, validated, tasks, ended>>

FaultEvent(d) ==
  /\ d \in news /\ news' = news \ {d}
  /\ beam' = "FAULT"
  /\ UNCHANGED <<configured, validated, jobVars, dev, running, events>>

-----------------------------------------------------------------------------
(* The completion callback of a job that succeeded.                        *)

Complete(name) ==
  CASE name = "ConfigureScan" ->
         Then(Then(From(beam), "component_configured"), "configure_completed")
    [] name = "DeconfigureScan" -> Then(From(beam), "component_unconfigured")
    [] name = "Scan" -> Then(From(beam), "component_scanning")
    [] name = "EndScan" -> Then(From(beam), "component_not_scanning")
    [] name = "Abort" -> Then(Then(From(beam), "component_not_scanning"), "abort_completed")
    [] name = "ObsReset" ->
         Then(Then(From(beam), "component_unconfigured"), "obsreset_completed")
    [] name = "GoToFault" -> Then(From(beam), "component_obsfault")

JobEnds ==
  /\ StepOver /\ Job.steps = <<>>
  /\ queue' = Tail(queue) /\ command' = "Lambda"
  /\ IF Job.name = "ValidateConfigureScan"
     THEN validated' = validated + 1 /\ UNCHANGED ended
     ELSE ended' = Job.name /\ UNCHANGED validated
  /\ UNCHANGED <<beam, configured, tasks, todo, awaited, late, clean, devVars, events>>

(* BEAM is never EMPTY: a reset leaves it IDLE. *)
Callback ==
  LET r == Complete(ended) IN
  /\ ended # "none" /\ ended' = "none"
  /\ beam' = IF r.state = "EMPTY" THEN "IDLE" ELSE r.state
  /\ configured' = CASE ended = "ConfigureScan" -> configured \/ Allowed(beam, "component_configured")
                     [] ended = "DeconfigureScan" -> FALSE
                     [] OTHER -> configured
  /\ \/ UNCHANGED tasks
     \/ ended = "Abort" /\ tasks' = <<>>  \* abort_commands drops the tasks that wait
  /\ UNCHANGED <<validated, queue, command, todo, awaited, late, clean, devVars, events>>

-----------------------------------------------------------------------------
Next ==
  \/ ConfigureScan \/ ConfigureInvoked \/ DeconfigureScan \/ Scan \/ EndScan
  \/ Abort \/ ObsReset \/ GoToFault
  \/ TakeTask \/ BeginStep \/ WriteFails \/ JobEnds \/ Callback
  \/ \E d \in Devices : Send(d) \/ FaultEvent(d)
  \/ \E d \in Devices, c \in Commands :
       SendLate(d, c) \/ Succeed(d, c) \/ Fail(d, c)

Spec == Init /\ [][Next]_vars

-----------------------------------------------------------------------------
Quiet == /\ tasks = <<>> /\ queue = <<>> /\ ended = "none" /\ validated = 0 /\ news = {}
         /\ \A d \in Devices : running[d] = {}

(* As long as no job has failed, once every command has run its course     *)
(* BEAM and its sub-devices agree on whether there is a configuration and  *)
(* a scan, whatever was called while other commands were at work.          *)
Settled ==
  clean /\ Quiet =>
    /\ (beam = "IDLE") => \A d \in Devices : dev[d] = "EMPTY"
    /\ (beam = "READY") => \A d \in Devices : dev[d] = "READY"
    /\ (beam = "SCANNING") => \A d \in Devices : dev[d] = "SCANNING"

Using(d) == dev[d] \in {"IDLE", "CONFIGURING_IDLE", "CONFIGURING_READY", "READY", "SCANNING"}

(* The ring buffers of SMRB are there while RECV, DSP or STAT is set up to *)
(* use them: "first do configre_beam on SMRB" and "need to release the     *)
(* ring buffer clients before deconfiguring SMRB"                          *)
(* (beam_component_manager.py:897 and 946).                                *)
RingBuffersOutliveClients ==
  clean /\ (\E d \in Clients : Using(d)) => dev["smrb"] \notin {"EMPTY", "RESOURCING_EMPTY"}

(* BEAM does not turn IDLE, READY or SCANNING over a sub-device whose      *)
(* FAULT it has been told of, unless another ObsReset waits its turn.      *)
FaultNotHidden ==
  [][(beam' # beam /\ beam' \in {"IDLE", "READY", "SCANNING"})
       => \A d \in Devices : dev[d] = "FAULT" =>
            d \in news \/ \E i \in 1 .. Len(tasks) : tasks[i].name = "ObsReset"]_vars

(* What the comment on _abort_task says: an abort finds the sub-devices    *)
(* that are not ABORTED, FAULT or EMPTY and aborts them, so none is in     *)
(* another state when BEAM is ABORTED.                                     *)
AbortedEverywhere ==
  beam = "ABORTED" => \A d \in Devices : dev[d] \in {"ABORTED", "FAULT", "EMPTY"}
=============================================================================
