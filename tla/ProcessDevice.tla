--------------------------- MODULE ProcessDevice ---------------------------
(***************************************************************************)
(* One sub-device (RECV, SMRB, DSP or STAT) with its core application:     *)
(* the TANGO commands (component/pst_device.py), the tasks the component   *)
(* manager queues for its single worker thread, the calls of the API to    *)
(* the core application and what it tells the observation state machine    *)
(* (component/process_api.py, grpc_lmc_client.py), the abort, which runs   *)
(* on a thread of its own next to that worker, and the communication and   *)
(* the simulation mode (component/component_manager.py).                   *)
(*                                                                         *)
(* A call to the core application may be refused, may fail, and may fail   *)
(* after it has taken effect.  The device may be restarted; the core       *)
(* application then stays as it is.                                        *)
(*                                                                         *)
(* Bounds: MaxCommands observing commands, MaxRestarts restarts, two       *)
(* threads that abort.  How the monitoring of a scan is started and        *)
(* stopped is the subject of ProcessMonitor; here EndScan and an abort     *)
(* wait for it to have stopped, which may take for ever.                   *)
(***************************************************************************)
EXTENDS ObsStates, Naturals, Sequences

CONSTANTS Kinds, Configurations, MaxCommands, MaxRestarts

ASSUME BoundsAssumption == MaxCommands \in Nat /\ MaxRestarts \in Nat

VARIABLES
  kind,      \* which sub-device this is
  obs,       \* the state of its observation state machine
  health,    \* its health state
  comm,      \* the communication state of its component manager
  sim,       \* whether it is in simulation mode, with a simulated API
  core,      \* the state of the core application
  coreConf,  \* the beam configuration the core application was given
  shown,     \* the attribute subbandBeamConfiguration (of RECV)
  queue,     \* the tasks that wait for the worker
  work,      \* the task at work, and where it is
  aborts,    \* the threads that abort, and where they are
  commands,  \* how many commands have been called
  restarts,  \* how many times the device was restarted
  calm       \* for the properties: no reset has overtaken an abort or a reset

device == <<comm, sim>>
vars == <<kind, obs, health, comm, sim, core, coreConf, shown, queue, work, aborts, commands, restarts, calm>>

None == "none"
Aborters == 1 .. 2
CoreStates == {"EMPTY", "IDLE", "READY", "SCANNING", "ABORTED", "FAULT"}
WorkAt == {"idle", "call", "monitor", "stopped", "push", "complete", "fault", "core fault", "handle", "end", "raised"}
AbortAt == {"none", "monitor", "call", "push", "complete", "fault", "core fault"}
NoWork == [pc |-> "idle", cmd |-> None, conf |-> None]

Task(cmd, conf) == [cmd |-> cmd, conf |-> conf]

-----------------------------------------------------------------------------
(* The API: for each command what it tells the state machine once the core *)
(* application has done it, and what becomes of it when the core           *)
(* application answers that this is already, or not, the case.             *)

(* ConfigureBeamAgain, a mistake, takes a beam that is already configured  *)
(* for one that was configured as asked.                                   *)
ConfigureBeamAgain == [tells |-> <<"component_resourced">>, redundant |-> "completes"]

ConfigureBeam   == [tells |-> <<"component_resourced">>, redundant |-> "fails"]
DeconfigureBeam == [tells |-> <<"component_unresourced">>, redundant |-> "completes"]
ConfigureScan   == [tells |-> <<"component_configured">>, redundant |-> "fails"]
DeconfigureScan == [tells |-> <<"component_unconfigured">>, redundant |-> "completes"]
Scan            == [tells |-> <<"component_scanning">>, redundant |-> "completes"]
EndScan         == [tells |-> <<"component_not_scanning">>, redundant |-> "completes"]
ObsReset        == [tells |-> <<"component_unconfigured", "component_unresourced">>, redundant |-> "faults"]

Api == [ConfigureBeam |-> ConfigureBeam, DeconfigureBeam |-> DeconfigureBeam,
        ConfigureScan |-> ConfigureScan, DeconfigureScan |-> DeconfigureScan,
        Scan |-> Scan, EndScan |-> EndScan, ObsReset |-> ObsReset]

(* The states in which the device takes a command. *)
AllowedIn ==
  [ConfigureBeam |-> {"EMPTY"}, DeconfigureBeam |-> {"IDLE"},
   ConfigureScan |-> {"IDLE", "READY"}, DeconfigureScan |-> {"READY"},
   Scan |-> {"READY"}, EndScan |-> {"SCANNING"}, ObsReset |-> {"ABORTED", "FAULT"}]

(* The triggers of the state machine when a command is called and done.    *)
Hook ==
  [ConfigureBeam |-> "assign", DeconfigureBeam |-> "release", ConfigureScan |-> "configure",
   DeconfigureScan |-> None, Scan |-> None, EndScan |-> None, ObsReset |-> "obsreset"]

Commands == DOMAIN Api

Invoked(cmd) ==
  CASE Hook[cmd] = "assign" -> After(obs, "assign_invoked")
    [] Hook[cmd] = "release" -> After(obs, "release_invoked")
    [] Hook[cmd] = "configure" -> After(obs, "configure_invoked")
    [] Hook[cmd] = "obsreset" -> After(obs, "obsreset_invoked")
    [] OTHER -> obs

Completed(cmd) ==
  CASE Hook[cmd] = "assign" -> Then(From(obs), "assign_completed")
    [] Hook[cmd] = "release" -> Then(From(obs), "release_completed")
    [] Hook[cmd] = "configure" -> Then(From(obs), "configure_completed")
    [] Hook[cmd] = "obsreset" -> Then(From(obs), "obsreset_completed")
    [] OTHER -> From(obs)

Told(tells) ==
  IF Len(tells) = 1 THEN Then(From(obs), tells[1]) ELSE Then(Then(From(obs), tells[1]), tells[2])

-----------------------------------------------------------------------------
(* The core application: where a request leads, and where it is redundant. *)

(* CoreToAborting, a mistake, has an abort take time.                      *)
CoreToAborting ==
  [ConfigureBeam |-> To({"EMPTY"}, "IDLE"), DeconfigureBeam |-> To({"IDLE"}, "EMPTY"),
   ConfigureScan |-> To({"IDLE"}, "READY"), DeconfigureScan |-> To({"READY"}, "IDLE"),
   Scan |-> To({"READY"}, "SCANNING"), EndScan |-> To({"SCANNING"}, "READY"),
   ObsReset |-> To({"ABORTED", "FAULT"}, "EMPTY"),
   Abort |-> To({"IDLE", "READY", "SCANNING"}, "ABORTING")]

CoreTo ==
  [ConfigureBeam |-> To({"EMPTY"}, "IDLE"), DeconfigureBeam |-> To({"IDLE"}, "EMPTY"),
   ConfigureScan |-> To({"IDLE"}, "READY"), DeconfigureScan |-> To({"READY"}, "IDLE"),
   Scan |-> To({"READY"}, "SCANNING"), EndScan |-> To({"SCANNING"}, "READY"),
   ObsReset |-> To({"ABORTED", "FAULT"}, "EMPTY"),
   Abort |-> To({"IDLE", "READY", "SCANNING"}, "ABORTED")]

CoreRedundant ==
  [ConfigureBeam |-> {"IDLE", "READY", "SCANNING"}, DeconfigureBeam |-> {"EMPTY"},
   ConfigureScan |-> {"READY", "SCANNING"}, DeconfigureScan |-> {"EMPTY", "IDLE"},
   Scan |-> {"SCANNING"}, EndScan |-> {"EMPTY", "IDLE", "READY"}, ObsReset |-> {}, Abort |-> {}]

(* The outcomes of a request, as the gRPC client raises them. *)
Ok(cmd) == core \in DOMAIN CoreTo[cmd] /\ core' = CoreTo[cmd][core]
Redundant(cmd) == core \in CoreRedundant[cmd] /\ UNCHANGED core
Error(cmd) == UNCHANGED core \/ Ok(cmd)

-----------------------------------------------------------------------------

Given == Configurations \cup {None, "bad"}
Tasks == [cmd : Commands \cup {"GoToFault"}, conf : Given]
Works == [pc : WorkAt, cmd : Commands \cup {"GoToFault", None}, conf : Given]

TypeOK ==
  /\ kind \in Kinds
  /\ obs \in States
  /\ health \in {"UNKNOWN", "OK", "FAILED"}
  /\ comm \in {"DISABLED", "NOT_ESTABLISHED", "ESTABLISHED"}
  /\ sim \in BOOLEAN
  /\ core \in CoreStates
  /\ coreConf \in Configurations \cup {None}
  /\ shown \in Configurations \cup {None}
  /\ queue \in Seq(Tasks)
  /\ work \in Works
  /\ aborts \in [Aborters -> AbortAt]
  /\ commands \in 0 .. MaxCommands
  /\ restarts \in 0 .. MaxRestarts
  /\ calm \in BOOLEAN

Init ==
  /\ kind \in Kinds
  /\ obs = "EMPTY" /\ health = "UNKNOWN"
  /\ comm = "DISABLED" /\ sim = TRUE
  /\ shown = None /\ queue = <<>> /\ work = NoWork
  /\ aborts = [a \in Aborters |-> "none"]
  /\ core = "EMPTY" /\ coreConf = None
  /\ commands = 0 /\ restarts = 0 /\ calm = TRUE

(* The simulation mode is memorised: writing it back after a restart is a  *)
(* SetSimulationMode.                                                      *)
Restart ==
  /\ restarts < MaxRestarts
  /\ restarts' = restarts + 1
  /\ obs' = "EMPTY" /\ health' = "UNKNOWN"
  /\ comm' = "DISABLED" /\ sim' = TRUE
  /\ shown' = None /\ queue' = <<>> /\ work' = NoWork
  /\ aborts' = [a \in Aborters |-> "none"]
  /\ calm' = TRUE
  /\ UNCHANGED <<kind, core, coreConf, commands>>

-----------------------------------------------------------------------------
(* Communication and simulation mode.  Connecting may raise; only from     *)
(* DISABLED is it tried.                                                   *)

StartCommunicating ==
  /\ comm = "DISABLED"
  /\ \/ comm' = "ESTABLISHED" /\ health' = "OK"
     \/ ~sim /\ comm' = "NOT_ESTABLISHED" /\ UNCHANGED health
  /\ UNCHANGED <<kind, obs, sim, core, coreConf, shown, queue, work, aborts, commands, restarts, calm>>

StopCommunicating ==
  /\ comm # "DISABLED"
  /\ comm' = "DISABLED" /\ health' = "UNKNOWN"
  /\ UNCHANGED <<kind, obs, sim, core, coreConf, shown, queue, work, aborts, commands, restarts, calm>>

(* A new API is made, and connected if the device was communicating, which *)
(* fails when the core application does not answer.                        *)
SetSimulationMode ==
  /\ obs = "EMPTY"
  /\ sim' = ~sim
  /\ \/ /\ health' = IF comm = "ESTABLISHED" THEN "OK" ELSE health
        /\ UNCHANGED comm
     \/ /\ comm = "ESTABLISHED" /\ sim
        /\ comm' = "NOT_ESTABLISHED" /\ health' = "UNKNOWN"
  /\ UNCHANGED <<kind, obs, core, coreConf, shown, queue, work, aborts, commands, restarts, calm>>

-----------------------------------------------------------------------------
(* Calling a command: what it triggers happens in the client's thread, the *)
(* rest is queued.  RECV works out the resources in the task, the others   *)
(* before they queue it: a configuration they cannot be worked out from is *)
(* then refused, and leaves nothing behind.                                *)

NoResetUnderWay == work.cmd # "ObsReset" /\ \A i \in DOMAIN queue : queue[i].cmd # "ObsReset"
NoAbortUnderWay == \A a \in Aborters : aborts[a] = "none"

Call(cmd, conf) ==
  /\ commands < MaxCommands
  /\ obs \in AllowedIn[cmd]
  /\ obs' = Invoked(cmd)
  /\ queue' = Append(queue, Task(cmd, conf))
  /\ commands' = commands + 1
  /\ calm' = (calm /\ (cmd = "ObsReset" => NoResetUnderWay /\ NoAbortUnderWay))
  /\ UNCHANGED <<kind, health, device, core, coreConf, shown, work, aborts, restarts>>

CallConfigureBeam ==
  \E conf \in Configurations \cup (IF kind = "RECV" THEN {"bad"} ELSE {}) : Call("ConfigureBeam", conf)

CallOther == \E cmd \in Commands \ {"ConfigureBeam"} : Call(cmd, None)

CallGoToFault ==
  /\ commands < MaxCommands
  /\ queue' = Append(queue, Task("GoToFault", None))
  /\ commands' = commands + 1
  /\ UNCHANGED <<kind, obs, health, device, core, coreConf, shown, work, aborts, restarts, calm>>

AbortAtPc(a, pc) == aborts[a] = pc
AbortGoto(a, pc) == aborts' = [aborts EXCEPT ![a] = pc]

CallAbort ==
  /\ commands < MaxCommands
  /\ Allowed(obs, "abort_invoked")
  /\ obs' = After(obs, "abort_invoked")
  /\ \E a \in Aborters : aborts[a] = "none" /\ AbortGoto(a, IF sim THEN "push" ELSE "monitor")
  /\ commands' = commands + 1
  /\ UNCHANGED <<kind, health, device, core, coreConf, shown, queue, work, restarts, calm>>

-----------------------------------------------------------------------------
(* The worker *)

At(pc) == work.pc = pc
Goto(pc) == work' = [work EXCEPT !.pc = pc]

Take ==
  /\ At("idle") /\ queue # <<>>
  /\ LET task == Head(queue)
     IN work' = [pc |-> CASE task.cmd = "GoToFault" -> "fault"
                          [] task.conf = "bad" -> "raised"
                          [] OTHER -> "call",
                 cmd |-> task.cmd, conf |-> task.conf]
  /\ queue' = Tail(queue)
  /\ UNCHANGED <<kind, obs, health, device, core, coreConf, shown, aborts, commands, restarts, calm>>

SimulatedCall ==
  /\ At("call") /\ sim
  /\ Goto("push")
  /\ UNCHANGED <<kind, obs, health, device, core, coreConf, shown, queue, aborts, commands, restarts, calm>>

(* EndScan first stops the monitoring, if there is any, and waits for it   *)
(* without a time-out: see StopReturns in ProcessMonitor.                  *)
StopMonitoring ==
  /\ At("call") /\ ~sim /\ work.cmd = "EndScan"
  /\ Goto("monitor")
  /\ UNCHANGED <<kind, obs, health, device, core, coreConf, shown, queue, aborts, commands, restarts, calm>>

MonitorStops ==
  /\ At("monitor")
  /\ Goto("stopped")
  /\ UNCHANGED <<kind, obs, health, device, core, coreConf, shown, queue, aborts, commands, restarts, calm>>

CoreTakes == coreConf' = IF work.cmd = "ConfigureBeam" /\ core' # core THEN work.conf ELSE coreConf

CoreCall ==
  /\ At("stopped") \/ (At("call") /\ ~sim /\ work.cmd # "EndScan")
  /\ \/ Ok(work.cmd) /\ Goto("push")
     \/ Redundant(work.cmd) /\ Goto(IF Api[work.cmd].redundant = "completes" THEN "push" ELSE "end")
     \/ Error(work.cmd) /\ Goto("fault")
  /\ CoreTakes
  /\ UNCHANGED <<kind, obs, health, device, shown, queue, aborts, commands, restarts, calm>>

(* What the state machine refuses raises an error, which ends the task.    *)
(* PushAnyway, a mistake, goes on to complete what was refused.            *)
PushAnyway ==
  /\ At("push")
  /\ obs' = Told(Api[work.cmd].tells).state /\ Goto("complete")
  /\ UNCHANGED <<kind, health, device, core, coreConf, shown, queue, aborts, commands, restarts, calm>>

Push ==
  /\ At("push")
  /\ LET told == Told(Api[work.cmd].tells)
     IN obs' = told.state /\ Goto(IF told.ok THEN "complete" ELSE "raised")
  /\ UNCHANGED <<kind, health, device, core, coreConf, shown, queue, aborts, commands, restarts, calm>>

(* A reset that has completed makes the device healthy again.              *)
(* CompleteOnly, a mistake, leaves the health as it is.                    *)
CompleteOnly ==
  /\ At("complete")
  /\ LET done == Completed(work.cmd)
     IN obs' = done.state /\ Goto(IF done.ok THEN "end" ELSE "raised")
  /\ UNCHANGED <<kind, health, device, core, coreConf, shown, queue, aborts, commands, restarts, calm>>

Complete ==
  /\ At("complete")
  /\ LET done == Completed(work.cmd)
     IN obs' = done.state /\ Goto(IF done.ok THEN "end" ELSE "raised")
  /\ health' = IF work.cmd = "ObsReset" THEN "OK" ELSE health
  /\ UNCHANGED <<kind, device, core, coreConf, shown, queue, aborts, commands, restarts, calm>>

GoesToFault ==
  /\ At("fault")
  /\ obs' = After(obs, "component_obsfault")
  /\ Goto("core fault")
  /\ UNCHANGED <<kind, health, device, core, coreConf, shown, queue, aborts, commands, restarts, calm>>

CoreGoesToFault ==
  /\ At("core fault")
  /\ IF sim THEN UNCHANGED core ELSE core' \in {core, "FAULT"}
  /\ Goto(IF work.cmd = "GoToFault" THEN "handle" ELSE "end")
  /\ UNCHANGED <<kind, obs, health, device, coreConf, shown, queue, aborts, commands, restarts, calm>>

HandleFault ==
  /\ At("handle")
  /\ obs' = After(obs, "component_obsfault") /\ health' = "FAILED"
  /\ Goto("end")
  /\ UNCHANGED <<kind, device, core, coreConf, shown, queue, aborts, commands, restarts, calm>>

(* RECV shows the configuration whatever the API made of it, short of an   *)
(* exception.  EndKeepsFirst, a mistake, keeps the first one.              *)
EndKeepsFirst ==
  /\ At("end") \/ At("raised")
  /\ work' = NoWork
  /\ shown' = CASE kind = "RECV" /\ At("end") /\ work.cmd = "ConfigureBeam" /\ shown = None -> work.conf
                [] kind = "RECV" /\ At("end") /\ work.cmd = "DeconfigureBeam" -> None
                [] OTHER -> shown
  /\ UNCHANGED <<kind, obs, health, device, core, coreConf, queue, aborts, commands, restarts, calm>>

End ==
  /\ At("end") \/ At("raised")
  /\ work' = NoWork
  /\ shown' = CASE kind = "RECV" /\ At("end") /\ work.cmd = "ConfigureBeam" -> work.conf
                [] kind = "RECV" /\ At("end") /\ work.cmd = "DeconfigureBeam" -> None
                [] OTHER -> shown
  /\ UNCHANGED <<kind, obs, health, device, core, coreConf, queue, aborts, commands, restarts, calm>>

-----------------------------------------------------------------------------
(* A thread that aborts.  One that the state machine refuses ends there,   *)
(* without having reported anything.  It stops the monitoring first, and   *)
(* waits as EndScan does.                                                  *)

AbortMonitorStops(a) ==
  /\ AbortAtPc(a, "monitor")
  /\ AbortGoto(a, "call")
  /\ UNCHANGED <<kind, obs, health, device, core, coreConf, shown, queue, work, commands, restarts, calm>>

AbortCall(a) ==
  /\ AbortAtPc(a, "call")
  /\ \/ Ok("Abort") /\ AbortGoto(a, "push")
     \/ Error("Abort") /\ AbortGoto(a, "fault")
  /\ UNCHANGED <<kind, obs, health, device, coreConf, shown, queue, work, commands, restarts, calm>>

AbortPush(a) ==
  /\ AbortAtPc(a, "push")
  /\ LET told == Then(From(obs), "component_not_scanning")
     IN obs' = told.state /\ AbortGoto(a, IF told.ok THEN "complete" ELSE "none")
  /\ UNCHANGED <<kind, health, device, core, coreConf, shown, queue, work, commands, restarts, calm>>

AbortComplete(a) ==
  /\ AbortAtPc(a, "complete")
  /\ obs' = Then(From(obs), "abort_completed").state
  /\ AbortGoto(a, "none")
  /\ UNCHANGED <<kind, health, device, core, coreConf, shown, queue, work, commands, restarts, calm>>

(* An abort that failed reports a fault; AbortFailsQuietly, a mistake, none. *)
AbortFailsQuietly(a) ==
  /\ AbortAtPc(a, "fault")
  /\ AbortGoto(a, "core fault")
  /\ UNCHANGED <<kind, obs, health, device, core, coreConf, shown, queue, work, commands, restarts, calm>>

AbortFails(a) ==
  /\ AbortAtPc(a, "fault")
  /\ obs' = After(obs, "component_obsfault")
  /\ AbortGoto(a, "core fault")
  /\ UNCHANGED <<kind, health, device, core, coreConf, shown, queue, work, commands, restarts, calm>>

AbortCoreFails(a) ==
  /\ AbortAtPc(a, "core fault")
  /\ core' \in {core, "FAULT"}
  /\ AbortGoto(a, "none")
  /\ UNCHANGED <<kind, obs, health, device, coreConf, shown, queue, work, commands, restarts, calm>>

-----------------------------------------------------------------------------

Command == CallConfigureBeam \/ CallOther \/ CallGoToFault \/ CallAbort
Worker ==
  \/ Take \/ SimulatedCall \/ StopMonitoring \/ CoreCall \/ Push \/ Complete
  \/ GoesToFault \/ CoreGoesToFault \/ HandleFault \/ End
Aborter(a) == AbortCall(a) \/ AbortPush(a) \/ AbortComplete(a) \/ AbortFails(a) \/ AbortCoreFails(a)

Next ==
  \/ Command \/ Worker \/ \E a \in Aborters : Aborter(a)
  \/ MonitorStops \/ \E a \in Aborters : AbortMonitorStops(a)
  \/ StartCommunicating \/ StopCommunicating \/ SetSimulationMode \/ Restart

Spec == Init /\ [][Next]_vars

(* The worker and the threads that abort go on: every call to the core     *)
(* application ends, if only with an error.  Nothing is assumed of a wait  *)
(* for the monitoring to stop.                                             *)
FairSpec == Spec /\ WF_vars(Worker) /\ \A a \in Aborters : WF_vars(Aborter(a))

-----------------------------------------------------------------------------
(* Properties *)

AtRest == queue = <<>> /\ At("idle") /\ NoAbortUnderWay
Claims == obs \in {"IDLE", "READY", "SCANNING"}

(* At rest a device that claims to be configured or scanning has a core    *)
(* application that is: it never works on something else, whatever errors, *)
(* lost answers, aborts, faults and restarts came before.  This is of a    *)
(* device whose resets were called once the aborts and the resets before   *)
(* them had ended: an abort that a reset has overtaken tells a device that *)
(* scans again that it does not.                                           *)
AgreesAtRest == calm /\ AtRest /\ ~sim /\ Claims => core = obs

(* At rest the beam configuration that RECV shows is the one its core      *)
(* application works with.                                                 *)
ShownIsConfigured == calm /\ AtRest /\ ~sim /\ kind = "RECV" /\ Claims => shown = coreConf

(* A failed health state goes with a fault, or with the way out of one:    *)
(* a device that was reset is not left with the health of its fault.       *)
HealthGoesWithFault ==
  health = "FAILED" => obs \in {"FAULT", "RESETTING", "ABORTING", "ABORTED"}

(* No wait for the monitoring lasts for ever.  The code does not see to    *)
(* it: a notification that comes before the wait is lost (StopReturns of   *)
(* ProcessMonitor), and a monitor that replaces another deadlocks.         *)
WaitsEnd == []<>~At("monitor") /\ \A a \in Aborters : []<>~AbortAtPc(a, "monitor")

(* As long as no wait for the monitoring lasts for ever, an abort and a    *)
(* reset come to an end: the device does not stay ABORTING or RESETTING,   *)
(* from which no command leads out but another abort.                      *)
AbortsAndResetsEnd == WaitsEnd => (obs \in {"ABORTING", "RESETTING"} ~> obs \notin {"ABORTING", "RESETTING"})

(* Not so: a device leaves RESOURCING_EMPTY.  A task that raises before it *)
(* has reported anything leaves it there, where it takes neither an abort  *)
(* nor any other command but GoToFault (MCProcessDevice_stuck.cfg).        *)
ConfigurationsEnd == WaitsEnd => (obs = "RESOURCING_EMPTY" ~> obs # "RESOURCING_EMPTY")

-----------------------------------------------------------------------------
(* What clients see.  A command takes effect for them once the last of its *)
(* triggers has been told: until then obsState is RESOURCING or            *)
(* CONFIGURING, whichever of its two states the machine is in.             *)

ObsState ==
  CASE At("complete") /\ work.cmd = "ConfigureBeam" /\ obs = "RESOURCING_IDLE" -> "RESOURCING_EMPTY"
    [] At("complete") /\ work.cmd = "DeconfigureBeam" /\ obs = "RESOURCING_EMPTY" -> "RESOURCING_IDLE"
    [] At("complete") /\ work.cmd = "ConfigureScan" /\ obs = "CONFIGURING_READY" -> "CONFIGURING_IDLE"
    [] OTHER -> obs

(* The commands that have yet to take effect, or their last effect.        *)
Queued == {queue[i].cmd : i \in DOMAIN queue}
Working ==
  {c \in {work.cmd} : \/ work.pc \in {"call", "monitor", "stopped", "push", "fault"}
                      \/ work.pc = "complete" /\ c \notin {"DeconfigureScan", "Scan", "EndScan"}
                      \/ work.pc \in {"core fault", "handle"} /\ c = "GoToFault"}
Aborting == {c \in {"Abort"} : \E a \in Aborters : aborts[a] \in {"monitor", "call", "push", "complete", "fault"}}

Seen == INSTANCE SubDevice WITH state <- ObsState, running <- Queued \cup Working \cup Aborting

(* To its clients a sub-device is one whose commands take effect one at a  *)
(* time.                                                                   *)
ImplementsSubDevice == Seen!Spec
=============================================================================
