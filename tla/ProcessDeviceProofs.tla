------------------------ MODULE ProcessDeviceProofs ------------------------
(***************************************************************************)
(* For any number of commands and restarts, any configurations and either  *)
(* kind of sub-device: the types, that an unhealthy device has a fault or  *)
(* is on its way out of one, that at rest its core application is what it  *)
(* claims, that RECV shows the configuration its core application has, and *)
(* that clients see a device whose commands take effect at one moment.     *)
(*                                                                         *)
(* Health: of all steps from a state off the normal course (Off) only the  *)
(* completion of a reset leads back, and it makes the device healthy.      *)
(*                                                                         *)
(* The agreement is about what the device is going to claim once the       *)
(* command at work, which the core application has done, has been told and *)
(* completed (Claimed): AgreeInv says that the core application has that   *)
(* state at every moment but between an error and the fault it makes.  It  *)
(* is kept because a command on its way confines the states in which the   *)
(* state machine can be (QueueInv, WorkInv), what may wait behind it is    *)
(* known (OrderInv), and an abort under way keeps the device off           *)
(* (AbortInv), which is what a reset that overtakes it would break.        *)
(*                                                                         *)
(* The refinement of SubDevice needs to know where a command that has told *)
(* and has yet to complete finds the device (Telling), calm or not; the    *)
(* lemmas SeenCalls, SeenEnds and SeenStays are the three things a step    *)
(* can be to clients.                                                      *)
(***************************************************************************)
EXTENDS ProcessDevice, Resources, SequenceTheorems, TLAPS

-----------------------------------------------------------------------------
(* The state machine, and what the commands make of it.                    *)

Refused(s) == [state |-> s, ok |-> FALSE]

(* What a trigger that is refused, or comes after one that is, leaves.     *)
LEMMA Outcomes ==
  ASSUME NEW s
  PROVE  /\ From(s).state = s /\ From(s).ok = TRUE
         /\ Refused(s).state = s /\ Refused(s).ok = FALSE
  BY DEF From, Refused

LEMMA StaysRefused == ASSUME NEW s, NEW t PROVE Then(Refused(s), t) = Refused(s)
  BY DEF Then, Refused

(* What each trigger makes of a state. *)
LEMMA Triggers ==
  ASSUME NEW s
  PROVE  /\ Then(From(s), "component_resourced")
            = IF s = "RESOURCING_EMPTY" THEN From("RESOURCING_IDLE") ELSE Refused(s)
         /\ Then(From(s), "component_unresourced")
            = IF s = "RESOURCING_IDLE" THEN From("RESOURCING_EMPTY")
              ELSE IF s = "RESETTING" THEN From(s) ELSE Refused(s)
         /\ Then(From(s), "assign_completed")
            = IF s = "RESOURCING_EMPTY" THEN From("EMPTY")
              ELSE IF s = "RESOURCING_IDLE" THEN From("IDLE") ELSE Refused(s)
         /\ Then(From(s), "release_completed")
            = IF s = "RESOURCING_EMPTY" THEN From("EMPTY")
              ELSE IF s = "RESOURCING_IDLE" THEN From("IDLE") ELSE Refused(s)
         /\ Then(From(s), "component_configured")
            = IF s = "CONFIGURING_IDLE" THEN From("CONFIGURING_READY")
              ELSE IF s = "ABORTING" THEN From(s) ELSE Refused(s)
         /\ Then(From(s), "component_unconfigured")
            = IF s = "READY" THEN From("IDLE")
              ELSE IF s \in {"ABORTING", "RESETTING"} THEN From(s) ELSE Refused(s)
         /\ Then(From(s), "configure_completed")
            = IF s = "CONFIGURING_IDLE" THEN From("IDLE")
              ELSE IF s = "CONFIGURING_READY" THEN From("READY") ELSE Refused(s)
         /\ Then(From(s), "component_scanning")
            = IF s = "READY" THEN From("SCANNING")
              ELSE IF s = "ABORTING" THEN From(s) ELSE Refused(s)
         /\ Then(From(s), "component_not_scanning")
            = IF s = "SCANNING" THEN From("READY")
              ELSE IF s = "ABORTING" THEN From(s) ELSE Refused(s)
         /\ Then(From(s), "abort_completed")
            = IF s = "ABORTING" THEN From("ABORTED") ELSE Refused(s)
         /\ Then(From(s), "obsreset_completed")
            = IF s = "RESETTING" THEN From("EMPTY") ELSE Refused(s)
  BY DEF Then, From, Refused, Allowed, After, Transition, To, Stay, Join, Resourced, States

(* What the triggers of a call make of a state in which they are allowed. *)
LEMMA CallTriggers ==
  /\ \A s \in Abortable : After(s, "abort_invoked") = "ABORTING"
  /\ \A s \in {"ABORTED", "FAULT"} : After(s, "obsreset_invoked") = "RESETTING"
  /\ After("IDLE", "configure_invoked") = "CONFIGURING_IDLE"
  /\ After("READY", "configure_invoked") = "CONFIGURING_READY"
  /\ After("EMPTY", "assign_invoked") = "RESOURCING_EMPTY"
  /\ After("IDLE", "release_invoked") = "RESOURCING_IDLE"
  /\ \A s \in States : After(s, "component_obsfault") = "FAULT"
  /\ \A s : Allowed(s, "abort_invoked") <=> s \in Abortable
  /\ Abortable \subseteq States
  BY DEF Allowed, After, Transition, To, Stay, Join, Resourcing, Abortable, States

LEMMA CommandsAre ==
  Commands = {"ConfigureBeam", "DeconfigureBeam", "ConfigureScan", "DeconfigureScan", "Scan", "EndScan",
              "ObsReset"}
  BY DEF Commands, Api

(* A command that is taken in s makes it t at once. *)
Begins(s, c, t) ==
  CASE c = "ConfigureBeam" -> s = "EMPTY" /\ t = "RESOURCING_EMPTY"
    [] c = "DeconfigureBeam" -> s = "IDLE" /\ t = "RESOURCING_IDLE"
    [] c = "ConfigureScan" -> \/ s = "IDLE" /\ t = "CONFIGURING_IDLE"
                              \/ s = "READY" /\ t = "CONFIGURING_READY"
    [] c = "ObsReset" -> s \in {"ABORTED", "FAULT"} /\ t = "RESETTING"
    [] c \in {"DeconfigureScan", "Scan"} -> s = "READY" /\ t = s
    [] c = "EndScan" -> s = "SCANNING" /\ t = s

LEMMA InvokedIs ==
  ASSUME NEW c \in Commands, obs \in AllowedIn[c]
  PROVE  Invoked(c) \in States /\ Begins(obs, c, Invoked(c))
<1>1. /\ c = "ConfigureBeam" => Hook[c] = "assign"
      /\ c = "DeconfigureBeam" => Hook[c] = "release"
      /\ c = "ConfigureScan" => Hook[c] = "configure"
      /\ c = "ObsReset" => Hook[c] = "obsreset"
      /\ c \in {"DeconfigureScan", "Scan", "EndScan"} => Hook[c] = "none"
  BY DEF Hook, None
<1>2. /\ c = "ConfigureBeam" => obs = "EMPTY"
      /\ c = "DeconfigureBeam" => obs = "IDLE"
      /\ c = "ConfigureScan" => obs \in {"IDLE", "READY"}
      /\ c = "ObsReset" => obs \in {"ABORTED", "FAULT"}
      /\ c \in {"DeconfigureScan", "Scan"} => obs = "READY"
      /\ c = "EndScan" => obs = "SCANNING"
  BY DEF AllowedIn
<1> USE DEF Invoked, Begins, States
<1>3. CASE c \in {"ConfigureBeam", "DeconfigureBeam"}
  BY <1>1, <1>2, <1>3, CallTriggers
<1>4. CASE c = "ConfigureScan"
  BY <1>1, <1>2, <1>4, CallTriggers
<1>5. CASE c = "ObsReset"
  BY <1>1, <1>2, <1>5, CallTriggers
<1>6. CASE c \in {"DeconfigureScan", "Scan", "EndScan"}
  BY <1>1, <1>2, <1>6
<1> QED BY <1>3, <1>4, <1>5, <1>6, CommandsAre

(* What the state machine makes of what the API tells it. *)
ToldOf(s, c) ==
  CASE c = "ConfigureBeam" -> IF s = "RESOURCING_EMPTY" THEN From("RESOURCING_IDLE") ELSE Refused(s)
    [] c = "DeconfigureBeam" -> IF s = "RESOURCING_IDLE" THEN From("RESOURCING_EMPTY")
                                ELSE IF s = "RESETTING" THEN From(s) ELSE Refused(s)
    [] c = "ConfigureScan" -> IF s = "CONFIGURING_IDLE" THEN From("CONFIGURING_READY")
                              ELSE IF s = "ABORTING" THEN From(s) ELSE Refused(s)
    [] c = "DeconfigureScan" -> IF s = "READY" THEN From("IDLE")
                                ELSE IF s \in {"ABORTING", "RESETTING"} THEN From(s) ELSE Refused(s)
    [] c = "Scan" -> IF s = "READY" THEN From("SCANNING")
                     ELSE IF s = "ABORTING" THEN From(s) ELSE Refused(s)
    [] c = "EndScan" -> IF s = "SCANNING" THEN From("READY")
                        ELSE IF s = "ABORTING" THEN From(s) ELSE Refused(s)
    [] c = "ObsReset" -> IF s = "READY" THEN Refused("IDLE")
                         ELSE IF s = "RESETTING" THEN From(s) ELSE Refused(s)

LEMMA ToldIs ==
  ASSUME NEW c \in Commands
  PROVE  Told(Api[c].tells) = ToldOf(obs, c)
<1>1. CASE c # "ObsReset"
  <2>1. Len(Api[c].tells) = 1
    BY <1>1, CommandsAre DEF Api, ConfigureBeam, DeconfigureBeam, ConfigureScan, DeconfigureScan, Scan, EndScan
  <2>2. Told(Api[c].tells) = Then(From(obs), Api[c].tells[1])
    BY <2>1 DEF Told
  <2> QED
    BY <1>1, <2>2, Triggers, CommandsAre
    DEF ToldOf, Api, ConfigureBeam, DeconfigureBeam, ConfigureScan, DeconfigureScan, Scan, EndScan
<1>2. CASE c = "ObsReset"
  <2>1. Len(Api[c].tells) = 2
    BY <1>2 DEF Api, ObsReset
  <2> DEFINE first == Then(From(obs), "component_unconfigured")
  <2>2. Told(Api[c].tells) = Then(first, "component_unresourced")
    BY <1>2, <2>1 DEF Told, Api, ObsReset
  <2>3. CASE obs = "READY"
    <3>1. first = From("IDLE")
      BY <2>3, Triggers
    <3> QED BY <1>2, <2>2, <2>3, <3>1, Triggers DEF ToldOf
  <2>4. CASE obs \in {"ABORTING", "RESETTING"}
    <3>1. first = From(obs)
      BY <2>4, Triggers
    <3> QED BY <1>2, <2>2, <2>4, <3>1, Triggers DEF ToldOf
  <2>5. CASE obs \notin {"READY", "ABORTING", "RESETTING"}
    <3>1. first = Refused(obs)
      BY <2>5, Triggers
    <3> QED BY <1>2, <2>2, <2>5, <3>1, StaysRefused DEF ToldOf
  <2> QED BY <2>3, <2>4, <2>5
<1> QED BY <1>1, <1>2

(* What the completion of a command makes of the state. *)
CompletedOf(s, c) ==
  CASE c \in {"ConfigureBeam", "DeconfigureBeam"} ->
         IF s = "RESOURCING_EMPTY" THEN From("EMPTY")
         ELSE IF s = "RESOURCING_IDLE" THEN From("IDLE") ELSE Refused(s)
    [] c = "ConfigureScan" -> IF s = "CONFIGURING_IDLE" THEN From("IDLE")
                              ELSE IF s = "CONFIGURING_READY" THEN From("READY") ELSE Refused(s)
    [] c = "ObsReset" -> IF s = "RESETTING" THEN From("EMPTY") ELSE Refused(s)
    [] c \in {"DeconfigureScan", "Scan", "EndScan"} -> From(s)

LEMMA CompletedIs ==
  ASSUME NEW c \in Commands
  PROVE  Completed(c) = CompletedOf(obs, c)
<1>1. /\ c = "ConfigureBeam" => Hook[c] = "assign"
      /\ c = "DeconfigureBeam" => Hook[c] = "release"
      /\ c = "ConfigureScan" => Hook[c] = "configure"
      /\ c = "ObsReset" => Hook[c] = "obsreset"
      /\ c \in {"DeconfigureScan", "Scan", "EndScan"} => Hook[c] = "none"
  BY DEF Hook, None
<1> QED BY <1>1, Triggers, CommandsAre DEF Completed, CompletedOf

(* A request that the core application does. *)
LEMMA DoneIs ==
  ASSUME NEW c \in Commands \cup {"Abort"}, Ok(c)
  PROVE  /\ c = "ConfigureBeam" => core = "EMPTY" /\ core' = "IDLE"
         /\ c = "DeconfigureBeam" => core = "IDLE" /\ core' = "EMPTY"
         /\ c = "ConfigureScan" => core = "IDLE" /\ core' = "READY"
         /\ c = "DeconfigureScan" => core = "READY" /\ core' = "IDLE"
         /\ c = "Scan" => core = "READY" /\ core' = "SCANNING"
         /\ c = "EndScan" => core = "SCANNING" /\ core' = "READY"
         /\ c = "ObsReset" => core' = "EMPTY"
         /\ c = "Abort" => core' = "ABORTED"
  BY DEF Ok, CoreTo, To

(* One that it finds redundant, and that completes for that. *)
LEMMA RedundantIs ==
  ASSUME NEW c \in Commands, Redundant(c), Api[c].redundant = "completes"
  PROVE  /\ core' = core
         /\ c \in {"DeconfigureBeam", "DeconfigureScan", "Scan", "EndScan"}
         /\ c = "DeconfigureBeam" => core = "EMPTY"
         /\ c = "DeconfigureScan" => core \in {"EMPTY", "IDLE"}
         /\ c = "Scan" => core = "SCANNING"
         /\ c = "EndScan" => core \in {"EMPTY", "IDLE", "READY"}
<1>1. Api[c].redundant = "completes" => c \in {"DeconfigureBeam", "DeconfigureScan", "Scan", "EndScan"}
  BY CommandsAre
  DEF Api, ConfigureBeam, DeconfigureBeam, ConfigureScan, DeconfigureScan, Scan, EndScan, ObsReset
<1> QED BY <1>1 DEF Redundant, CoreRedundant

-----------------------------------------------------------------------------
(* Types                                                                   *)

JobInv ==
  /\ work.pc \in {"call", "monitor", "stopped", "push", "complete"} => work.cmd \in Commands
  /\ work.pc = "raised" \/ work.cmd = "GoToFault" \/ work.conf \in Configurations \cup {None}

TypeInv == TypeOK /\ JobInv

LEMMA TasksAre ==
  /\ \A c \in Commands \cup {"GoToFault"}, conf \in Given : Task(c, conf) \in Tasks
  /\ \A t \in Tasks : t.cmd \in Commands \cup {"GoToFault"} /\ t.conf \in Given
  BY DEF Task, Tasks, Given

LEMMA StatesAre == /\ From("EMPTY").state \in States
                   /\ \A s \in States, c \in Commands : ToldOf(s, c).state \in States
                   /\ \A s \in States, c \in Commands : CompletedOf(s, c).state \in States
<1>1. \A s : From(s).state = s /\ Refused(s).state = s
  BY Outcomes
<1>2. ASSUME NEW s \in States, NEW c \in Commands PROVE ToldOf(s, c).state \in States
  BY <1>1, CommandsAre DEF ToldOf, States
<1>3. ASSUME NEW s \in States, NEW c \in Commands PROVE CompletedOf(s, c).state \in States
  BY <1>1, CommandsAre DEF CompletedOf, States
<1> QED BY <1>1, <1>2, <1>3 DEF States

LEMMA TypeInit == Init => TypeInv
  BY BoundsAssumption DEF Init, TypeInv, TypeOK, JobInv, NoWork, None, States, CoreStates, WorkAt, AbortAt, Tasks, Works, Given

LEMMA TypeCall ==
  ASSUME TypeInv, NEW c \in Commands, NEW conf \in Given, Call(c, conf)
  PROVE  TypeInv'
<1>1. obs' \in States
  BY InvokedIs DEF Call
<1>2. queue' \in Seq(Tasks)
  BY TasksAre DEF Call, TypeInv, TypeOK
<1>3. commands' \in 0 .. MaxCommands
  BY BoundsAssumption DEF Call, TypeInv, TypeOK
<1>4. calm' \in BOOLEAN
  BY DEF Call, TypeInv, TypeOK
<1> QED BY <1>1, <1>2, <1>3, <1>4 DEF TypeInv, TypeOK, JobInv, Call, device

LEMMA TypeCommands ==
  ASSUME TypeInv, Command
  PROVE  TypeInv'
<1>1. CASE CallConfigureBeam
  BY <1>1, TypeCall, CommandsAre DEF CallConfigureBeam, Given
<1>2. CASE CallOther
  <2>1. PICK c \in Commands : Call(c, None)
    BY <1>2 DEF CallOther
  <2>2. None \in Given
    BY DEF Given
  <2> QED BY <2>1, <2>2, TypeCall
<1>3. CASE CallGoToFault
  <2>1. queue' \in Seq(Tasks)
    <3>1. Task("GoToFault", None) \in Tasks
      BY DEF Task, Tasks, Given
    <3> QED BY <1>3, <3>1 DEF CallGoToFault, TypeInv, TypeOK
  <2>2. commands' \in 0 .. MaxCommands
    BY <1>3, BoundsAssumption DEF CallGoToFault, TypeInv, TypeOK
  <2> QED BY <1>3, <2>1, <2>2 DEF TypeInv, TypeOK, JobInv, CallGoToFault, device
<1>4. CASE CallAbort
  <2>1. obs' \in States
    BY <1>4, CallTriggers DEF CallAbort, States
  <2>2. aborts' \in [Aborters -> AbortAt]
    BY <1>4 DEF CallAbort, AbortGoto, AbortAt, TypeInv, TypeOK
  <2>3. commands' \in 0 .. MaxCommands
    BY <1>4, BoundsAssumption DEF CallAbort, TypeInv, TypeOK
  <2> QED BY <1>4, <2>1, <2>2, <2>3 DEF TypeInv, TypeOK, JobInv, CallAbort, device
<1> QED BY <1>1, <1>2, <1>3, <1>4 DEF Command

LEMMA TypeTake ==
  ASSUME TypeInv, Take
  PROVE  TypeInv'
<1>1. Head(queue) \in Tasks /\ queue' \in Seq(Tasks)
  BY DEF Take, TypeInv, TypeOK
<1> DEFINE task == Head(queue)
<1>2. task.cmd \in Commands \cup {"GoToFault"} /\ task.conf \in Given
  BY <1>1, TasksAre
<1>3. PICK pc \in {"fault", "raised", "call"} :
        /\ work' = [pc |-> pc, cmd |-> task.cmd, conf |-> task.conf]
        /\ pc = "call" => task.cmd # "GoToFault" /\ task.conf # "bad"
        /\ pc = "fault" => task.cmd = "GoToFault"
  <2>1. CASE task.cmd = "GoToFault"
    BY <2>1 DEF Take
  <2>2. CASE task.cmd # "GoToFault" /\ task.conf = "bad"
    BY <2>2 DEF Take
  <2>3. CASE task.cmd # "GoToFault" /\ task.conf # "bad"
    BY <2>3 DEF Take
  <2> QED BY <2>1, <2>2, <2>3
<1> HIDE DEF task
<1>4. work' \in Works
  BY <1>2, <1>3 DEF WorkAt, Works, Given
<1>5. JobInv'
  BY <1>2, <1>3 DEF JobInv, Given
<1> QED BY <1>1, <1>4, <1>5 DEF TypeInv, TypeOK, Take, device

(* The worker goes on in its task.                                         *)
LEMMA GotoKeeps ==
  ASSUME TypeOK, NEW pc \in WorkAt, Goto(pc)
  PROVE  /\ work' \in Works
         /\ work'.pc = pc /\ work'.cmd = work.cmd /\ work'.conf = work.conf
  BY DEF TypeOK, Goto, Works

LEMMA TypeWorker ==
  ASSUME TypeInv, Worker \/ MonitorStops
  PROVE  TypeInv'
<1> USE DEF device
<1>1. CASE Take
  BY <1>1, TypeTake
<1>2. CASE SimulatedCall
  <2>1. Goto("push") /\ "push" \in WorkAt
    BY <1>2 DEF SimulatedCall, WorkAt
  <2> QED BY <1>2, <2>1, GotoKeeps DEF SimulatedCall, TypeInv, TypeOK, JobInv, At
<1>3. CASE CoreCall
  <2>1. work.cmd \in Commands /\ work.conf \in Configurations \cup {None}
    BY <1>3, CommandsAre DEF CoreCall, At, TypeInv, JobInv
  <2>2. PICK pc \in {"push", "end", "fault"} : Goto(pc) /\ (Ok(work.cmd) \/ core' = core)
    BY <1>3 DEF CoreCall, Redundant, Error
  <2>3. core' \in CoreStates
    BY <2>1, <2>2, DoneIs, CommandsAre DEF CoreStates, TypeInv, TypeOK
  <2>4. coreConf' \in Configurations \cup {None}
    BY <1>3, <2>1 DEF CoreCall, CoreTakes, TypeInv, TypeOK
  <2>5. pc \in WorkAt
    BY DEF WorkAt
  <2> QED BY <1>3, <2>1, <2>2, <2>3, <2>4, <2>5, GotoKeeps DEF CoreCall, TypeInv, TypeOK, JobInv
<1>10. CASE StopMonitoring \/ MonitorStops
  <2>1. PICK pc \in {"monitor", "stopped"} : Goto(pc)
    BY <1>10 DEF StopMonitoring, MonitorStops
  <2>2. pc \in WorkAt
    BY DEF WorkAt
  <2> QED BY <1>10, <2>1, <2>2, GotoKeeps DEF StopMonitoring, MonitorStops, TypeInv, TypeOK, JobInv, At
<1>4. CASE Push
  <2>1. work.cmd \in Commands
    BY <1>4 DEF Push, At, TypeInv, JobInv
  <2>2. PICK pc \in {"complete", "raised"} : Goto(pc)
    BY <1>4 DEF Push
  <2>3. obs' = ToldOf(obs, work.cmd).state
    BY <1>4, <2>1, ToldIs DEF Push
  <2>4. obs' \in States
    BY <2>1, <2>3, StatesAre DEF TypeInv, TypeOK
  <2>5. pc \in WorkAt
    BY DEF WorkAt
  <2> QED BY <1>4, <2>1, <2>2, <2>4, <2>5, GotoKeeps DEF Push, TypeInv, TypeOK, JobInv, At
<1>5. CASE Complete
  <2>1. work.cmd \in Commands
    BY <1>5 DEF Complete, At, TypeInv, JobInv
  <2>2. PICK pc \in {"end", "raised"} : Goto(pc)
    BY <1>5 DEF Complete
  <2>3. obs' = CompletedOf(obs, work.cmd).state
    BY <1>5, <2>1, CompletedIs DEF Complete
  <2>4. obs' \in States
    BY <2>1, <2>3, StatesAre DEF TypeInv, TypeOK
  <2>5. pc \in WorkAt
    BY DEF WorkAt
  <2> QED BY <1>5, <2>1, <2>2, <2>4, <2>5, GotoKeeps DEF Complete, TypeInv, TypeOK, JobInv, At
<1>6. CASE GoesToFault
  <2>1. Goto("core fault") /\ "core fault" \in WorkAt /\ obs' = "FAULT"
    BY <1>6, CallTriggers DEF GoesToFault, WorkAt, TypeInv, TypeOK, Works, Given
  <2> QED BY <1>6, <2>1, GotoKeeps, ZenonT(60) DEF GoesToFault, TypeInv, TypeOK, JobInv, At, States
<1>7. CASE CoreGoesToFault
  <2>1. PICK pc \in {"handle", "end"} : Goto(pc)
    BY <1>7 DEF CoreGoesToFault
  <2>2. pc \in WorkAt
    BY DEF WorkAt
  <2>3. core' \in CoreStates
    BY <1>7 DEF CoreGoesToFault, CoreStates, TypeInv, TypeOK
  <2> QED BY <1>7, <2>1, <2>2, <2>3, GotoKeeps, ZenonT(60) DEF CoreGoesToFault, TypeInv, TypeOK, JobInv, At
<1>8. CASE HandleFault
  <2>1. Goto("end") /\ "end" \in WorkAt /\ obs' = "FAULT"
    BY <1>8, CallTriggers DEF HandleFault, WorkAt, TypeInv, TypeOK, Works, Given
  <2> QED BY <1>8, <2>1, GotoKeeps DEF HandleFault, TypeInv, TypeOK, JobInv, At, States
<1>9. CASE End
  <2>1. shown' \in Configurations \cup {None}
    BY <1>9 DEF End, At, TypeInv, TypeOK, JobInv
  <2> QED BY <1>9, <2>1 DEF End, TypeInv, TypeOK, JobInv, NoWork, WorkAt, None, Works, Given
<1> QED BY <1>1, <1>2, <1>3, <1>4, <1>5, <1>6, <1>7, <1>8, <1>9, <1>10 DEF Worker

(* What an abort that is done tells the state machine. *)
LEMMA AbortTells ==
  LET told == Then(From(obs), "component_not_scanning")
      done == Then(From(obs), "abort_completed")
  IN  /\ told.state = IF obs = "SCANNING" THEN "READY" ELSE obs
      /\ done.state = IF obs = "ABORTING" THEN "ABORTED" ELSE obs
<1>1. /\ From(obs).state = obs /\ Refused(obs).state = obs
      /\ From("READY").state = "READY" /\ From("ABORTED").state = "ABORTED"
  BY Outcomes
<1>2. Then(From(obs), "component_not_scanning")
        = IF obs = "SCANNING" THEN From("READY") ELSE IF obs = "ABORTING" THEN From(obs) ELSE Refused(obs)
  BY Triggers
<1>3. Then(From(obs), "abort_completed") = IF obs = "ABORTING" THEN From("ABORTED") ELSE Refused(obs)
  BY Triggers
<1> QED BY <1>1, <1>2, <1>3

LEMMA TypeAborter ==
  ASSUME TypeInv, NEW a \in Aborters, Aborter(a) \/ AbortMonitorStops(a)
  PROVE  TypeInv'
<1> USE DEF device, AbortGoto, AbortAtPc
<1>1. CASE AbortCall(a)
  <2>1. core' \in CoreStates
    BY <1>1, DoneIs DEF AbortCall, Error, CoreStates, TypeInv, TypeOK
  <2>2. aborts' \in [Aborters -> AbortAt]
    BY <1>1 DEF AbortCall, AbortAt, TypeInv, TypeOK
  <2> QED BY <1>1, <2>1, <2>2 DEF AbortCall, TypeInv, TypeOK, JobInv
<1>2. CASE AbortPush(a)
  <2>1. obs' \in States
    <3>1. obs' \in {obs, "READY"}
      BY <1>2, AbortTells DEF AbortPush
    <3> QED BY <3>1 DEF States, TypeInv, TypeOK
  <2>2. aborts' \in [Aborters -> AbortAt]
    BY <1>2 DEF AbortPush, AbortAt, TypeInv, TypeOK
  <2> QED BY <1>2, <2>1, <2>2 DEF AbortPush, TypeInv, TypeOK, JobInv
<1>3. CASE AbortComplete(a)
  <2>1. obs' \in States
    <3>1. obs' \in {obs, "ABORTED"}
      BY <1>3, AbortTells DEF AbortComplete
    <3> QED BY <3>1 DEF States, TypeInv, TypeOK
  <2>2. aborts' \in [Aborters -> AbortAt]
    BY <1>3 DEF AbortComplete, AbortAt, TypeInv, TypeOK
  <2> QED BY <1>3, <2>1, <2>2 DEF AbortComplete, TypeInv, TypeOK, JobInv
<1>4. CASE AbortFails(a)
  <2>1. obs' \in States
    BY <1>4, CallTriggers DEF AbortFails, States, TypeInv, TypeOK
  <2>2. aborts' \in [Aborters -> AbortAt]
    BY <1>4 DEF AbortFails, AbortAt, TypeInv, TypeOK
  <2> QED BY <1>4, <2>1, <2>2, ZenonT(60) DEF AbortFails, TypeInv, TypeOK, JobInv
<1>5. CASE AbortCoreFails(a)
  <2>1. core' \in CoreStates
    BY <1>5 DEF AbortCoreFails, CoreStates, TypeInv, TypeOK
  <2>2. aborts' \in [Aborters -> AbortAt]
    BY <1>5 DEF AbortCoreFails, AbortAt, TypeInv, TypeOK
  <2>3. UNCHANGED <<kind, obs, health, comm, sim, coreConf, shown, queue, work, commands, restarts, calm>>
    BY <1>5 DEF AbortCoreFails
  <2> QED BY <2>1, <2>2, <2>3 DEF TypeInv, TypeOK, JobInv
<1>6. CASE AbortMonitorStops(a)
  <2>1. aborts' \in [Aborters -> AbortAt]
    BY <1>6 DEF AbortMonitorStops, AbortAt, TypeInv, TypeOK
  <2> QED BY <1>6, <2>1 DEF AbortMonitorStops, TypeInv, TypeOK, JobInv
<1> QED BY <1>1, <1>2, <1>3, <1>4, <1>5, <1>6 DEF Aborter

LEMMA TypeOthers ==
  ASSUME TypeInv, StartCommunicating \/ StopCommunicating \/ SetSimulationMode \/ Restart
  PROVE  TypeInv'
<1> USE DEF device
<1>1. CASE StartCommunicating
  BY <1>1 DEF StartCommunicating, TypeInv, TypeOK, JobInv
<1>2. CASE StopCommunicating
  BY <1>2 DEF StopCommunicating, TypeInv, TypeOK, JobInv
<1>3. CASE SetSimulationMode
  BY <1>3 DEF SetSimulationMode, TypeInv, TypeOK, JobInv
<1>4. CASE Restart
  <2>1. restarts' \in 0 .. MaxRestarts
    BY <1>4, BoundsAssumption DEF Restart, TypeInv, TypeOK
  <2>2. queue' \in Seq(Tasks) /\ aborts' \in [Aborters -> AbortAt] /\ obs' \in States
    BY <1>4 DEF Restart, AbortAt, States
  <2>3. /\ work' \in Works
        /\ JobInv'
    BY <1>4 DEF Restart, NoWork, None, WorkAt, JobInv, Works, Given
  <2> QED BY <1>4, <2>1, <2>2, <2>3 DEF Restart, TypeInv, TypeOK
<1> QED BY <1>1, <1>2, <1>3, <1>4

LEMMA TypeStep == TypeInv /\ [Next]_vars => TypeInv'
<1> SUFFICES ASSUME TypeInv, [Next]_vars PROVE TypeInv'
  OBVIOUS
<1>1. CASE UNCHANGED vars
  BY <1>1 DEF vars, TypeInv, TypeOK, JobInv
<1> QED BY <1>1, TypeCommands, TypeWorker, TypeAborter, TypeOthers DEF Next

(* The types of the variables, whatever is called and fails. *)
THEOREM TypeCorrect == Spec => []TypeOK
<1>1. TypeInv => TypeOK
  BY DEF TypeInv
<1> QED BY <1>1, TypeInit, TypeStep, PTL DEF Spec

-----------------------------------------------------------------------------
(* The way out of a fault                                                  *)

Off == {"FAULT", "RESETTING", "ABORTING", "ABORTED"}

LEMMA OffIs == obs \in Off <=> obs \in {"FAULT", "RESETTING", "ABORTING", "ABORTED"}
  BY DEF Off

(* What the worker does for a device that is off leaves it off, but for    *)
(* the completion of a reset.                                              *)
LEMMA StaysOff ==
  ASSUME NEW s \in Off, NEW c \in Commands
  PROVE  /\ ToldOf(s, c).state = s
         /\ CompletedOf(s, c).state = s \/ (c = "ObsReset" /\ s = "RESETTING" /\ CompletedOf(s, c) = From("EMPTY"))
<1>1. From(s).state = s /\ Refused(s).state = s
  BY Outcomes
<1>2. ToldOf(s, c).state = s
  BY <1>1, CommandsAre DEF ToldOf, Off
<1>3. CompletedOf(s, c).state = s \/ (c = "ObsReset" /\ s = "RESETTING" /\ CompletedOf(s, c) = From("EMPTY"))
  BY <1>1, CommandsAre DEF CompletedOf, Off
<1> QED BY <1>2, <1>3

(* The steps that leave the device off, and those that make it healthy.    *)
LEMMA OffStep ==
  ASSUME TypeInv, [Next]_vars, obs \in Off
  PROVE  obs' \in Off \/ health' # "FAILED"
<1> USE DEF device
<1>1. ASSUME NEW c \in Commands, NEW conf, Call(c, conf) PROVE obs' \in Off
  <2>1. Begins(obs, c, obs')
    BY <1>1, InvokedIs DEF Call
  <2> QED BY <2>1, CommandsAre DEF Begins, Off
<1>2. CASE CallConfigureBeam
  BY <1>1, <1>2, CommandsAre DEF CallConfigureBeam, Given
<1>3. CASE CallOther
  BY <1>1, <1>3 DEF CallOther
<1>4. CASE CallGoToFault
  BY <1>4 DEF CallGoToFault
<1>5. CASE CallAbort
  BY <1>5, CallTriggers DEF CallAbort, Off
<1>6. CASE Push
  <2>1. work.cmd \in Commands
    BY <1>6 DEF Push, At, TypeInv, JobInv
  <2>2. obs' = obs
    BY <1>6, <2>1, ToldIs, StaysOff DEF Push
  <2> QED BY <2>2
<1>7. CASE Complete
  <2>1. work.cmd \in Commands
    BY <1>7 DEF Complete, At, TypeInv, JobInv
  <2>2. obs' = CompletedOf(obs, work.cmd).state /\ (work.cmd = "ObsReset" => health' = "OK")
    BY <1>7, <2>1, CompletedIs DEF Complete
  <2> QED BY <2>1, <2>2, StaysOff
<1>8. CASE GoesToFault \/ HandleFault \/ (\E a \in Aborters : AbortFails(a))
  BY <1>8, CallTriggers DEF GoesToFault, HandleFault, AbortFails, Off, TypeInv, TypeOK
<1>9. CASE \E a \in Aborters : AbortPush(a) \/ AbortComplete(a)
  <2>1. obs' \in {obs, "ABORTED"}
    BY <1>9, AbortTells DEF AbortPush, AbortComplete, Off
  <2> QED BY <2>1 DEF Off
<1>10. CASE Take \/ SimulatedCall \/ StopMonitoring \/ MonitorStops \/ CoreCall \/ CoreGoesToFault \/ End
  BY <1>10 DEF Take, SimulatedCall, StopMonitoring, MonitorStops, CoreCall, CoreGoesToFault, End
<1>11. CASE \E a \in Aborters : AbortMonitorStops(a) \/ AbortCall(a) \/ AbortCoreFails(a)
  BY <1>11 DEF AbortMonitorStops, AbortCall, AbortCoreFails
<1>12. CASE StartCommunicating \/ StopCommunicating \/ SetSimulationMode \/ Restart
  BY <1>12 DEF StartCommunicating, StopCommunicating, SetSimulationMode, Restart
<1>13. CASE UNCHANGED vars
  BY <1>13 DEF vars
<1> QED
  BY <1>2, <1>3, <1>4, <1>5, <1>6, <1>7, <1>8, <1>9, <1>10, <1>11, <1>12, <1>13
  DEF Next, Command, Worker, Aborter

(* Only a fault makes the device unhealthy.                                *)
LEMMA HealthStep ==
  ASSUME TypeInv, [Next]_vars, health # "FAILED", health' = "FAILED"
  PROVE  obs' = "FAULT"
<1> USE DEF device
<1>1. CASE HandleFault
  BY <1>1, CallTriggers DEF HandleFault, TypeInv, TypeOK
<1>2. ~HandleFault => health' = health \/ health' # "FAILED"
  <2>1. CASE Command
    BY <2>1 DEF Command, CallConfigureBeam, CallOther, Call, CallGoToFault, CallAbort
  <2>2. CASE (Worker \/ MonitorStops) /\ ~HandleFault
    BY <2>2
    DEF Worker, Take, SimulatedCall, StopMonitoring, MonitorStops, CoreCall, Push, Complete, GoesToFault,
        CoreGoesToFault, End
  <2>3. CASE \E a \in Aborters : Aborter(a) \/ AbortMonitorStops(a)
    BY <2>3 DEF Aborter, AbortMonitorStops, AbortCall, AbortPush, AbortComplete, AbortFails, AbortCoreFails
  <2>4. CASE StartCommunicating \/ StopCommunicating \/ SetSimulationMode \/ Restart
    BY <2>4 DEF StartCommunicating, StopCommunicating, SetSimulationMode, Restart
  <2>5. CASE UNCHANGED vars
    BY <2>5 DEF vars
  <2> QED BY <2>1, <2>2, <2>3, <2>4, <2>5 DEF Next
<1> QED BY <1>1, <1>2

(* A device is unhealthy only in a fault or on its way out of one.         *)
THEOREM FaultHealth == Spec => []HealthGoesWithFault
<1>1. Init => HealthGoesWithFault
  BY DEF Init, HealthGoesWithFault
<1>2. TypeInv /\ HealthGoesWithFault /\ [Next]_vars => HealthGoesWithFault'
  <2> SUFFICES ASSUME TypeInv, HealthGoesWithFault, [Next]_vars, health' = "FAILED"
               PROVE  obs' \in Off
    BY DEF HealthGoesWithFault, Off
  <2>1. CASE health = "FAILED"
    BY <2>1, OffStep, OffIs DEF HealthGoesWithFault
  <2>2. CASE health # "FAILED"
    BY <2>2, HealthStep DEF Off
  <2> QED BY <2>1, <2>2
<1> QED BY <1>1, <1>2, TypeInit, TypeStep, PTL DEF Spec

-----------------------------------------------------------------------------
(* The device and its core application                                     *)

ClaimStates == {"IDLE", "READY", "SCANNING"}

(* Where a command that has been called, and has not told anything yet,    *)
(* can find the device, and where one that is to be completed.             *)
Where(c) ==
  CASE c = "ConfigureBeam" -> Off \cup {"RESOURCING_EMPTY"}
    [] c = "DeconfigureBeam" -> Off \cup {"RESOURCING_IDLE"}
    [] c = "ConfigureScan" -> Off \cup {"CONFIGURING_IDLE", "CONFIGURING_READY"}
    [] c = "ObsReset" -> Off
    [] c = "GoToFault" -> States
    [] OTHER -> States \ {"EMPTY"}

WhereTold(c) ==
  CASE c = "ConfigureBeam" -> Off \cup {"RESOURCING_IDLE"}
    [] c = "DeconfigureBeam" -> Off \cup {"RESOURCING_EMPTY"}
    [] c = "ConfigureScan" -> Off \cup {"CONFIGURING_READY"}
    [] c = "ObsReset" -> Off
    [] OTHER -> States \ {"EMPTY"}

(* What may have been called behind a command that is not done.            *)
Behind(c) ==
  CASE c = "ObsReset" -> {"GoToFault"}
    [] c \in {"ConfigureBeam", "DeconfigureBeam", "ConfigureScan"} -> {"GoToFault", "ObsReset"}
    [] OTHER -> Commands \cup {"GoToFault"}

AbortInv == ~NoAbortUnderWay => obs \in {"ABORTING", "ABORTED", "FAULT"}
QueueInv == \A i \in 1 .. Len(queue) : obs \in Where(queue[i].cmd)
OrderInv ==
  /\ \A i, j \in 1 .. Len(queue) : i < j => queue[j].cmd \in Behind(queue[i].cmd)
  /\ work.pc \in {"call", "monitor", "stopped", "push", "complete"} => \A j \in 1 .. Len(queue) : queue[j].cmd \in Behind(work.cmd)
WorkInv ==
  /\ work.pc \in {"call", "monitor", "stopped", "push", "fault"} => obs \in Where(work.cmd)
  /\ work.pc = "complete" => obs \in WhereTold(work.cmd)
  /\ work.pc \in {"core fault", "handle"} => obs \in Off

(* The state the device in s is going to claim once the command c at work, *)
(* which the core application has done, is done here.                      *)
Ahead(pc, c, s) ==
  IF pc = "push" /\ c = "ConfigureBeam" /\ s = "RESOURCING_EMPTY" THEN "IDLE"
  ELSE IF pc = "push" /\ c = "ConfigureScan" /\ s = "CONFIGURING_IDLE" THEN "READY"
  ELSE IF pc = "push" /\ c = "DeconfigureScan" /\ s = "READY" THEN "IDLE"
  ELSE IF pc = "push" /\ c = "Scan" /\ s = "READY" THEN "SCANNING"
  ELSE IF pc = "push" /\ c = "EndScan" /\ s = "SCANNING" THEN "READY"
  ELSE IF pc = "complete" /\ c = "ConfigureBeam" /\ s = "RESOURCING_IDLE" THEN "IDLE"
  ELSE IF pc = "complete" /\ c = "ConfigureScan" /\ s = "CONFIGURING_READY" THEN "READY" ELSE s

Claimed == Ahead(work.pc, work.cmd, obs)

AgreeInv == ~sim /\ work.pc # "fault" /\ Claimed \in ClaimStates => core = Claimed

Showing == ClaimStates \cup {"CONFIGURING_IDLE", "CONFIGURING_READY"}
Unshown == work.pc = "end" /\ work.cmd = "ConfigureBeam"
Pending == /\ work.cmd = "ConfigureBeam"
         /\ \/ work.pc = "push" /\ obs = "RESOURCING_EMPTY"
            \/ work.pc = "complete" /\ obs = "RESOURCING_IDLE"

ShownInv ==
  ~sim /\ kind = "RECV" =>
    /\ obs \in Showing /\ ~Unshown => shown = coreConf
    /\ obs \in Showing /\ Unshown => coreConf = work.conf
    /\ Pending => coreConf = work.conf
    /\ work.pc = "end" /\ work.cmd = "DeconfigureBeam" => obs \in Off \cup {"EMPTY", "RESOURCING_EMPTY"}

Calm == AbortInv /\ QueueInv /\ OrderInv /\ WorkInv /\ AgreeInv /\ ShownInv
CalmInv == calm => Calm

(* What the tables say of the steps of a command.                          *)
AnyCommand == Commands \cup {"GoToFault"}

LEMMA OffAllows == \A s \in Off, d \in AnyCommand : s \in Where(d) /\ (d # "GoToFault" => s \in WhereTold(d))
  BY CommandsAre DEF Off, Where, WhereTold, AnyCommand, States

LEMMA OffClaims == \A s \in Off : \A pc, c : Ahead(pc, c, s) = s /\ Ahead(pc, c, s) \notin ClaimStates
  BY DEF Off, Ahead, ClaimStates

LEMMA WhereCalled ==
  ASSUME NEW s \in States, NEW c \in Commands, NEW t \in States, Begins(s, c, t), NEW d \in AnyCommand
  PROVE  /\ t \in Where(c)
         /\ s \in Where(d) => t \in Where(d)
         /\ s \in WhereTold(d) => t \in WhereTold(d)
<1>1. t \in Where(c)
  BY CommandsAre DEF Begins, Where, Off, States
<1>2. \/ s = t
      \/ s \in Off /\ t \in Off
      \/ s \in {"EMPTY", "IDLE", "READY"} /\ t # "EMPTY"
  BY CommandsAre DEF Begins, Off
<1>3. CASE s = t
  BY <1>1, <1>3
<1>4. CASE s \in Off /\ t \in Off
  <2>1. t \in Where(d)
    BY <1>4 DEF Where, Off, States
  <2>2. t \in WhereTold(d)
    BY <1>4 DEF WhereTold, Off, States
  <2> QED BY <1>1, <2>1, <2>2
<1>5. CASE s \in {"EMPTY", "IDLE", "READY"} /\ t # "EMPTY"
  <2>1. ASSUME s \in Where(d) \/ s \in WhereTold(d)
        PROVE  d \notin {"ConfigureBeam", "DeconfigureBeam", "ConfigureScan", "ObsReset"}
    BY <1>5, <2>1 DEF Where, WhereTold, Off
  <2>2. ASSUME d \notin {"ConfigureBeam", "DeconfigureBeam", "ConfigureScan", "ObsReset"}
        PROVE  t \in Where(d) /\ t \in WhereTold(d)
    BY <1>5, <2>2 DEF Where, WhereTold
  <2> QED BY <1>1, <2>1, <2>2
<1> QED BY <1>2, <1>3, <1>4, <1>5

LEMMA BehindCalled ==
  ASSUME NEW s \in States, NEW c \in Commands, NEW t \in States, Begins(s, c, t), NEW d \in AnyCommand,
         s \in Where(d) \/ s \in WhereTold(d), d = "ObsReset" => c # "ObsReset"
  PROVE  c \in Behind(d)
<1>1. c = "ObsReset" => d # "ObsReset" /\ c \in Behind(d)
  BY CommandsAre DEF Behind, AnyCommand
<1>2. c # "ObsReset" => s \notin Off
  BY CommandsAre DEF Begins, Off
<1>3. c # "ObsReset" => d # "ObsReset"
  BY <1>2 DEF Where, WhereTold
<1>4. c # "ObsReset" => d \notin {"ConfigureBeam", "DeconfigureBeam", "ConfigureScan"}
  BY <1>2, CommandsAre DEF Begins, Where, WhereTold
<1> QED BY <1>1, <1>3, <1>4 DEF Behind, AnyCommand

LEMMA WhereTolds ==
  ASSUME NEW s \in States, NEW c \in Commands, s \in Where(c)
  PROVE  /\ ToldOf(s, c).ok => ToldOf(s, c).state \in WhereTold(c)
         /\ \A d \in Behind(c) : s \in Where(d) => ToldOf(s, c).state \in Where(d)
<1>1. \A u : /\ From(u).state = u /\ From(u).ok = TRUE
             /\ Refused(u).state = u /\ Refused(u).ok = FALSE
  BY Outcomes
<1>2. CASE s \in Off
  <2>1. ToldOf(s, c).state = s
    BY <1>2, StaysOff
  <2>2. s \in WhereTold(c)
    BY <1>2, OffAllows, CommandsAre DEF AnyCommand
  <2> QED BY <2>1, <2>2
<1>3. CASE s \notin Off
  <2>1. ToldOf(s, c).ok => ToldOf(s, c).state \in WhereTold(c)
    <3>1. CASE c \in {"ConfigureBeam", "DeconfigureBeam", "ConfigureScan", "ObsReset"}
      BY <1>1, <1>3, <3>1 DEF ToldOf, Where, WhereTold
    <3>2. CASE c \in {"DeconfigureScan", "Scan", "EndScan"}
      <4>1. ToldOf(s, c).state # "EMPTY" \/ s = "EMPTY"
        BY <1>1, <3>2 DEF ToldOf
      <4>2. s # "EMPTY"
        BY <3>2 DEF Where
      <4>3. ToldOf(s, c).state \in States
        BY StatesAre
      <4> QED BY <3>2, <4>1, <4>2, <4>3 DEF WhereTold
    <3> QED BY <3>1, <3>2, CommandsAre
  <2>2. ASSUME NEW d \in Behind(c), s \in Where(d) PROVE ToldOf(s, c).state \in Where(d)
    <3>1. CASE c \in {"ConfigureBeam", "DeconfigureBeam", "ConfigureScan"}
      <4>1. d = "GoToFault"
        BY <1>3, <2>2, <3>1 DEF Behind, Where
      <4> QED BY <4>1, StatesAre DEF Where
    <3>2. CASE c \in {"DeconfigureScan", "Scan", "EndScan"}
      <4>1. ToldOf(s, c).state = s \/ (s \in ClaimStates /\ ToldOf(s, c).state \in ClaimStates)
        BY <1>1, <3>2 DEF ToldOf, ClaimStates
      <4>2. s \in ClaimStates => \A u \in ClaimStates : u \in Where(d)
        BY <1>3, <2>2 DEF Where, ClaimStates, States, Off
      <4> QED BY <2>2, <4>1, <4>2
    <3>3. c # "ObsReset"
      BY <1>3 DEF Where
    <3> QED BY <3>1, <3>2, <3>3, CommandsAre
  <2> QED BY <2>1, <2>2
<1> QED BY <1>2, <1>3

LEMMA WhereCompleted ==
  ASSUME NEW s \in States, NEW c \in Commands, s \in WhereTold(c)
  PROVE  \A d \in Behind(c) : s \in Where(d) => CompletedOf(s, c).state \in Where(d)
<1> SUFFICES ASSUME NEW d \in Behind(c), s \in Where(d) PROVE CompletedOf(s, c).state \in Where(d)
  OBVIOUS
<1>1. CASE c \in {"DeconfigureScan", "Scan", "EndScan"}
  BY <1>1, Outcomes DEF CompletedOf
<1>2. CASE c \in {"ConfigureBeam", "DeconfigureBeam", "ConfigureScan"} /\ s \notin Off
  <2>1. d = "GoToFault"
    BY <1>2 DEF Behind, Where
  <2> QED BY <2>1, StatesAre DEF Where
<1>3. CASE c \in {"ConfigureBeam", "DeconfigureBeam", "ConfigureScan"} /\ s \in Off
  BY <1>3, StaysOff
<1>4. CASE c = "ObsReset"
  <2>1. d = "GoToFault"
    BY <1>4 DEF Behind
  <2> QED BY <2>1, StatesAre DEF Where
<1> QED BY <1>1, <1>2, <1>3, <1>4, CommandsAre

LEMMA QueueIs ==
  ASSUME TypeInv
  PROVE  /\ Len(queue) \in Nat
         /\ \A i \in 1 .. Len(queue) : queue[i].cmd \in AnyCommand
<1>1. queue \in Seq(Tasks)
  BY DEF TypeInv, TypeOK
<1> QED BY <1>1, TasksAre DEF AnyCommand

(* A command is called.                                                    *)
LEMMA CalmCall ==
  ASSUME TypeInv, Calm, NEW c \in Commands, NEW conf \in Given, Call(c, conf), calm'
  PROVE  Calm'
<1> USE DEF device
<1>1. Begins(obs, c, obs') /\ obs \in States /\ obs' \in States /\ c \in AnyCommand
  BY InvokedIs DEF Call, TypeInv, TypeOK, AnyCommand
<1>2. UNCHANGED <<kind, sim, core, coreConf, shown, work, aborts>> /\ queue' = Append(queue, Task(c, conf))
  BY DEF Call
<1>3. c = "ObsReset" => NoResetUnderWay /\ NoAbortUnderWay
  BY DEF Call
<1>4. AbortInv'
  <2>1. CASE c = "ObsReset"
    BY <1>2, <1>3, <2>1 DEF AbortInv, NoAbortUnderWay
  <2>2. CASE c # "ObsReset"
    <3>1. obs \notin {"ABORTING", "ABORTED", "FAULT"}
      BY <1>1, <2>2, CommandsAre DEF Begins
    <3> QED BY <1>2, <3>1 DEF Calm, AbortInv, NoAbortUnderWay
  <2> QED BY <2>1, <2>2
<1> DEFINE n == Len(queue)
<1>5. /\ n \in Nat /\ Len(queue') = n + 1
      /\ \A i \in 1 .. n : queue'[i] = queue[i]
      /\ queue'[n + 1] = Task(c, conf) /\ queue'[n + 1].cmd = c
      /\ \A i \in 1 .. n : queue[i].cmd \in AnyCommand /\ (queue[i].cmd = "ObsReset" => c # "ObsReset")
  <2>1. queue \in Seq(Tasks) /\ Task(c, conf) \in Tasks
    BY TasksAre DEF TypeInv, TypeOK
  <2>2. Task(c, conf).cmd = c
    BY DEF Task
  <2>3. c = "ObsReset" => \A i \in 1 .. n : queue[i].cmd # "ObsReset"
    BY <1>3, <2>1 DEF NoResetUnderWay
  <2> QED BY <1>2, <2>1, <2>2, <2>3, QueueIs
<1> HIDE DEF n
<1>6. QueueInv'
  <2> SUFFICES ASSUME NEW i \in 1 .. n + 1 PROVE obs' \in Where(queue'[i].cmd)
    BY <1>5 DEF QueueInv
  <2>1. CASE i = n + 1
    BY <1>1, <1>5, <2>1, WhereCalled
  <2>2. CASE i \in 1 .. n
    <3>1. obs \in Where(queue[i].cmd)
      BY <2>2 DEF Calm, QueueInv, n
    <3> QED BY <1>1, <1>5, <2>2, <3>1, WhereCalled
  <2> QED BY <1>5, <2>1, <2>2
<1>7. \A i \in 1 .. n : c \in Behind(queue[i].cmd)
  <2> SUFFICES ASSUME NEW i \in 1 .. n PROVE c \in Behind(queue[i].cmd)
    OBVIOUS
  <2>1. obs \in Where(queue[i].cmd)
    BY DEF Calm, QueueInv, n
  <2> QED BY <1>1, <1>5, <2>1, BehindCalled
<1>8. work.pc \in {"call", "monitor", "stopped", "push", "complete"} => c \in Behind(work.cmd)
  <2> SUFFICES ASSUME work.pc \in {"call", "monitor", "stopped", "push", "complete"} PROVE c \in Behind(work.cmd)
    OBVIOUS
  <2>1. work.cmd \in AnyCommand
    BY DEF TypeInv, JobInv, AnyCommand
  <2>2. obs \in Where(work.cmd) \/ obs \in WhereTold(work.cmd)
    BY DEF Calm, WorkInv
  <2>3. work.cmd = "ObsReset" => c # "ObsReset"
    BY <1>3 DEF NoResetUnderWay
  <2> QED BY <1>1, <2>1, <2>2, <2>3, BehindCalled
<1>9. OrderInv'
  <2>1. ASSUME NEW i \in 1 .. n + 1, NEW j \in 1 .. n + 1, i < j
        PROVE  queue'[j].cmd \in Behind(queue'[i].cmd)
    <3>1. i \in 1 .. n
      BY <1>5, <2>1
    <3>2. CASE j = n + 1
      BY <1>5, <1>7, <3>1, <3>2
    <3>3. CASE j \in 1 .. n
      <4>1. queue[j].cmd \in Behind(queue[i].cmd)
        BY <2>1, <3>1, <3>3 DEF Calm, OrderInv, n
      <4> QED BY <1>5, <3>1, <3>3, <4>1
    <3> QED BY <1>5, <3>2, <3>3
  <2>2. ASSUME work.pc \in {"call", "monitor", "stopped", "push", "complete"}, NEW j \in 1 .. n + 1
        PROVE  queue'[j].cmd \in Behind(work.cmd)
    <3>1. CASE j = n + 1
      BY <1>5, <1>8, <2>2, <3>1
    <3>2. CASE j \in 1 .. n
      <4>1. queue[j].cmd \in Behind(work.cmd)
        BY <2>2, <3>2 DEF Calm, OrderInv, n
      <4> QED BY <1>5, <3>2, <4>1
    <3> QED BY <1>5, <3>1, <3>2
  <2> QED BY <1>2, <1>5, <2>1, <2>2 DEF OrderInv
<1>10. WorkInv'
  <2>1. work.pc \in {"call", "monitor", "stopped", "push", "fault"} => obs' \in Where(work.cmd)
    <3> SUFFICES ASSUME work.pc \in {"call", "monitor", "stopped", "push", "fault"} PROVE obs' \in Where(work.cmd)
      OBVIOUS
    <3>1. work.cmd = "none" => Where(work.cmd) = States \ {"EMPTY"}
      BY DEF Where
    <3>2. obs' # "EMPTY"
      BY <1>1, CommandsAre DEF Begins
    <3>3. work.cmd \in AnyCommand \/ work.cmd = "none"
      BY DEF TypeInv, TypeOK, AnyCommand, None, Works
    <3>4. obs \in Where(work.cmd)
      BY DEF Calm, WorkInv
    <3> QED BY <1>1, <3>1, <3>2, <3>3, <3>4, WhereCalled
  <2>2. work.pc = "complete" => obs' \in WhereTold(work.cmd)
    <3> SUFFICES ASSUME work.pc = "complete" PROVE obs' \in WhereTold(work.cmd)
      OBVIOUS
    <3>1. work.cmd \in AnyCommand
      BY DEF TypeInv, JobInv, AnyCommand
    <3>2. obs \in WhereTold(work.cmd)
      BY DEF Calm, WorkInv
    <3> QED BY <1>1, <3>1, <3>2, WhereCalled
  <2>3. work.pc \in {"core fault", "handle"} => obs' \in Off
    <3>1. obs \in Off => obs' \in Off
      BY <1>1, CommandsAre DEF Begins, Off
    <3> QED BY <3>1 DEF Calm, WorkInv
  <2> QED BY <1>2, <2>1, <2>2, <2>3 DEF WorkInv
<1>11. AgreeInv'
  <2> SUFFICES ASSUME ~sim, work.pc # "fault", Ahead(work.pc, work.cmd, obs') \in ClaimStates
               PROVE  core = Ahead(work.pc, work.cmd, obs')
    BY <1>2 DEF AgreeInv, Claimed
  <2>1. CASE obs' = obs
    BY <2>1 DEF Calm, AgreeInv, Claimed
  <2>2. CASE obs' # obs
    <3>1. \/ c = "ConfigureBeam" /\ obs = "EMPTY" /\ obs' = "RESOURCING_EMPTY"
          \/ c # "ConfigureBeam" /\ obs = "IDLE" /\ obs' \in {"RESOURCING_IDLE", "CONFIGURING_IDLE"}
          \/ c # "ConfigureBeam" /\ obs = "READY" /\ obs' = "CONFIGURING_READY"
          \/ obs' = "RESETTING"
      BY <1>1, <2>2, CommandsAre DEF Begins
    <3>2. work.pc = "push" => obs \in Where(work.cmd)
      BY DEF Calm, WorkInv
    <3>3. work.pc = "complete" => obs \in WhereTold(work.cmd)
      BY DEF Calm, WorkInv
    <3>4. FALSE
      BY <3>1, <3>2, <3>3 DEF Ahead, ClaimStates, Where, WhereTold, Off
    <3> QED BY <3>4
  <2> QED BY <2>1, <2>2
<1>12. ShownInv'
  <2>1. CASE obs' = obs
    BY <1>2, <2>1 DEF Calm, ShownInv, Unshown, Pending
  <2>2. CASE obs' # obs
    <3>1. \/ obs = "EMPTY" /\ obs' = "RESOURCING_EMPTY"
          \/ obs = "IDLE" /\ obs' \in {"RESOURCING_IDLE", "CONFIGURING_IDLE"}
          \/ obs = "READY" /\ obs' = "CONFIGURING_READY"
          \/ obs' = "RESETTING"
      BY <1>1, <2>2, CommandsAre DEF Begins
    <3>2. work.pc = "push" => obs \in Where(work.cmd)
      BY DEF Calm, WorkInv
    <3>3. work.pc = "complete" => obs \in WhereTold(work.cmd)
      BY DEF Calm, WorkInv
    <3>4. obs' \in Showing => obs \in Showing
      BY <3>1 DEF Showing, ClaimStates
    <3>5. Pending' => FALSE
      BY <1>2, <3>1, <3>2, <3>3 DEF Pending, Where, WhereTold, Off
    <3>6. obs \in Off \cup {"EMPTY", "RESOURCING_EMPTY"} => obs' \in Off \cup {"EMPTY", "RESOURCING_EMPTY"}
      BY <3>1 DEF Off
    <3> QED BY <1>2, <3>4, <3>5, <3>6 DEF Calm, ShownInv, Unshown
  <2> QED BY <2>1, <2>2
<1> QED BY <1>4, <1>6, <1>9, <1>10, <1>11, <1>12 DEF Calm

(* A step that leaves the device off claims and shows nothing.             *)
LEMMA CalmOff ==
  ASSUME TypeInv, Calm, obs' \in Off, queue' = queue, AbortInv', work'.cmd = work.cmd,
         work'.pc = work.pc \/ work'.pc \in {"core fault", "handle", "end", "raised"}
  PROVE  Calm'
<1>1. QueueInv'
  <2> SUFFICES ASSUME NEW i \in 1 .. Len(queue) PROVE obs' \in Where(queue[i].cmd)
    BY DEF QueueInv
  <2> QED BY QueueIs, OffAllows
<1>2. OrderInv'
  BY DEF Calm, OrderInv
<1>3. WorkInv'
  <2>1. work.cmd \in AnyCommand \/ work.cmd = "none"
    BY DEF TypeInv, TypeOK, AnyCommand, None, Works
  <2>2. work'.pc = "complete" => work.cmd \in AnyCommand /\ work.cmd # "GoToFault"
    BY CommandsAre DEF TypeInv, JobInv, AnyCommand
  <2>3. obs' \in Where("none")
    BY DEF Where, Off, States
  <2> QED BY <2>1, <2>2, <2>3, OffAllows DEF WorkInv
<1>4. AgreeInv'
  <2>1. Claimed' = Ahead(work'.pc, work'.cmd, obs')
    BY DEF Claimed
  <2> QED BY <2>1, OffClaims DEF AgreeInv
<1>5. ShownInv'
  BY DEF ShownInv, Pending, Showing, ClaimStates, Off
<1> QED BY <1>1, <1>2, <1>3, <1>4, <1>5 DEF Calm

LEMMA CalmCommands ==
  ASSUME TypeInv, Calm, Command, calm'
  PROVE  Calm'
<1> USE DEF device
<1>1. CASE CallConfigureBeam
  BY <1>1, CalmCall, CommandsAre DEF CallConfigureBeam, Given
<1>2. CASE CallOther
  <2>1. PICK c \in Commands : Call(c, None)
    BY <1>2 DEF CallOther
  <2>2. None \in Given
    BY DEF Given
  <2> QED BY <2>1, <2>2, CalmCall
<1>3. CASE CallGoToFault
  <2> DEFINE n == Len(queue)
  <2>1. /\ n \in Nat /\ Len(queue') = n + 1
        /\ \A i \in 1 .. n : queue'[i] = queue[i]
        /\ queue'[n + 1].cmd = "GoToFault"
    <3>1. queue \in Seq(Tasks) /\ Task("GoToFault", None) \in Tasks /\ Task("GoToFault", None).cmd = "GoToFault"
      BY DEF TypeInv, TypeOK, Task, Tasks, Given
    <3> QED BY <1>3, <3>1, QueueIs DEF CallGoToFault
  <2>2. UNCHANGED <<kind, obs, sim, core, coreConf, shown, work, aborts>>
    BY <1>3 DEF CallGoToFault
  <2> HIDE DEF n
  <2>3. \A d \in AnyCommand \cup {"none"} : "GoToFault" \in Behind(d)
    BY DEF Behind
  <2>4. work.cmd \in AnyCommand \cup {"none"} /\ \A i \in 1 .. n : queue[i].cmd \in AnyCommand
    BY QueueIs DEF TypeInv, TypeOK, AnyCommand, None, n, Works
  <2>5. AbortInv' /\ WorkInv' /\ AgreeInv' /\ ShownInv'
    BY <2>2 DEF Calm, AbortInv, NoAbortUnderWay, WorkInv, AgreeInv, Claimed, ShownInv, Unshown, Pending
  <2>6. QueueInv'
    <3> SUFFICES ASSUME NEW i \in 1 .. n + 1 PROVE obs' \in Where(queue'[i].cmd)
      BY <2>1 DEF QueueInv
    <3>1. CASE i = n + 1
      BY <2>1, <2>2, <3>1 DEF Where, TypeInv, TypeOK
    <3>2. CASE i \in 1 .. n
      BY <2>1, <2>2, <3>2 DEF Calm, QueueInv, n
    <3> QED BY <2>1, <3>1, <3>2
  <2>7. OrderInv'
    <3>1. ASSUME NEW i \in 1 .. n + 1, NEW j \in 1 .. n + 1, i < j
          PROVE  queue'[j].cmd \in Behind(queue'[i].cmd)
      <4>1. i \in 1 .. n
        BY <2>1, <3>1
      <4>2. CASE j = n + 1
        BY <2>1, <2>3, <2>4, <4>1, <4>2
      <4>3. CASE j \in 1 .. n
        BY <2>1, <3>1, <4>1, <4>3 DEF Calm, OrderInv, n
      <4> QED BY <2>1, <4>2, <4>3
    <3>2. ASSUME work.pc \in {"call", "monitor", "stopped", "push", "complete"}, NEW j \in 1 .. n + 1
          PROVE  queue'[j].cmd \in Behind(work.cmd)
      <4>1. CASE j = n + 1
        BY <2>1, <2>3, <2>4, <4>1
      <4>2. CASE j \in 1 .. n
        BY <2>1, <3>2, <4>2 DEF Calm, OrderInv, n
      <4> QED BY <2>1, <4>1, <4>2
    <3> QED BY <2>1, <2>2, <3>1, <3>2 DEF OrderInv
  <2> QED BY <2>5, <2>6, <2>7 DEF Calm
<1>4. CASE CallAbort
  <2>1. obs' = "ABORTING" /\ UNCHANGED <<queue, work>>
    BY <1>4, CallTriggers DEF CallAbort
  <2> QED BY <2>1, CalmOff DEF AbortInv, Off
<1> QED BY <1>1, <1>2, <1>3, <1>4 DEF Command

LEMMA CalmAborter ==
  ASSUME TypeInv, Calm, NEW a \in Aborters, Aborter(a) \/ AbortMonitorStops(a)
  PROVE  Calm'
<1>1. aborts[a] # "none" /\ UNCHANGED <<queue, work>>
  BY DEF Aborter, AbortMonitorStops, AbortCall, AbortPush, AbortComplete, AbortFails, AbortCoreFails, AbortAtPc
<1>2. obs \in {"ABORTING", "ABORTED", "FAULT"}
  BY <1>1 DEF Calm, AbortInv, NoAbortUnderWay
<1>3. obs' \in {"ABORTING", "ABORTED", "FAULT"}
  <2>1. CASE AbortPush(a) \/ AbortComplete(a)
    BY <1>2, <2>1, AbortTells DEF AbortPush, AbortComplete
  <2>2. CASE AbortFails(a)
    BY <2>2, CallTriggers DEF AbortFails, TypeInv, TypeOK
  <2>3. CASE AbortMonitorStops(a) \/ AbortCall(a) \/ AbortCoreFails(a)
    BY <1>2, <2>3 DEF AbortMonitorStops, AbortCall, AbortCoreFails
  <2> QED BY <2>1, <2>2, <2>3 DEF Aborter
<1> QED BY <1>1, <1>3, CalmOff DEF AbortInv, Off

LEMMA CalmOthers ==
  ASSUME TypeInv, Calm, StartCommunicating \/ StopCommunicating \/ SetSimulationMode
  PROVE  Calm'
<1>1. UNCHANGED <<kind, obs, core, coreConf, shown, queue, work, aborts>>
  BY DEF StartCommunicating, StopCommunicating, SetSimulationMode
<1>2. AbortInv' /\ QueueInv' /\ OrderInv' /\ WorkInv'
  BY <1>1 DEF Calm, AbortInv, NoAbortUnderWay, QueueInv, OrderInv, WorkInv
<1>3. sim' = sim \/ obs = "EMPTY"
  BY DEF StartCommunicating, StopCommunicating, SetSimulationMode
<1>4. AgreeInv'
  BY <1>1, <1>3 DEF Calm, AgreeInv, Claimed, Ahead, ClaimStates
<1>5. ShownInv'
  BY <1>1, <1>3 DEF Calm, ShownInv, Unshown, Pending, Showing, ClaimStates
<1> QED BY <1>2, <1>4, <1>5 DEF Calm

LEMMA CalmRestart ==
  ASSUME Restart
  PROVE  Calm'
<1>1. queue' = <<>> /\ work' = NoWork /\ obs' = "EMPTY" /\ aborts' = [a \in Aborters |-> "none"] /\ sim'
  BY DEF Restart
<1>2. AbortInv' /\ QueueInv' /\ OrderInv'
  BY <1>1 DEF AbortInv, NoAbortUnderWay, QueueInv, OrderInv, NoWork
<1>3. WorkInv' /\ AgreeInv' /\ ShownInv'
  BY <1>1 DEF WorkInv, NoWork, AgreeInv, ShownInv
<1> QED BY <1>2, <1>3 DEF Calm

-----------------------------------------------------------------------------
(* The worker                                                              *)

LEMMA CalmTake ==
  ASSUME TypeInv, Calm, Take
  PROVE  Calm'
<1> USE DEF device
<1> DEFINE n == Len(queue)
<1>1. /\ n \in Nat \ {0} /\ Len(queue') = n - 1
      /\ \A i \in 1 .. n - 1 : queue'[i] = queue[i + 1]
      /\ queue[1] \in Tasks
  BY DEF Take, TypeInv, TypeOK
<1>2. UNCHANGED <<kind, obs, sim, core, coreConf, shown, aborts>> /\ work.pc = "idle"
  BY DEF Take, At
<1>3. /\ work'.pc \in {"fault", "raised", "call"}
      /\ work'.cmd = queue[1].cmd
  <2>1. Head(queue) = queue[1]
    BY DEF Take, TypeInv, TypeOK
  <2> QED BY <2>1 DEF Take
<1> HIDE DEF n
<1>4. AbortInv'
  BY <1>2 DEF Calm, AbortInv, NoAbortUnderWay
<1>5. QueueInv'
  BY <1>1, <1>2 DEF Calm, QueueInv, n
<1>6. OrderInv'
  <2>1. \A i, j \in 1 .. n - 1 : i < j => queue'[j].cmd \in Behind(queue'[i].cmd)
    <3> SUFFICES ASSUME NEW i \in 1 .. n - 1, NEW j \in 1 .. n - 1, i < j
                 PROVE  queue'[j].cmd \in Behind(queue'[i].cmd)
      OBVIOUS
    <3>1. i + 1 \in 1 .. n /\ j + 1 \in 1 .. n /\ i + 1 < j + 1
      BY <1>1
    <3>2. queue[j + 1].cmd \in Behind(queue[i + 1].cmd)
      BY <3>1 DEF Calm, OrderInv, n
    <3> QED BY <1>1, <3>2
  <2>2. \A j \in 1 .. n - 1 : queue'[j].cmd \in Behind(queue[1].cmd)
    <3> SUFFICES ASSUME NEW j \in 1 .. n - 1 PROVE queue'[j].cmd \in Behind(queue[1].cmd)
      OBVIOUS
    <3>1. j + 1 \in 1 .. n /\ 1 \in 1 .. n /\ 1 < j + 1
      BY <1>1
    <3>2. queue[j + 1].cmd \in Behind(queue[1].cmd)
      BY <3>1 DEF Calm, OrderInv, n
    <3> QED BY <1>1, <3>2
  <2> QED BY <1>1, <1>3, <2>1, <2>2 DEF OrderInv
<1>7. WorkInv'
  <2>1. obs \in Where(queue[1].cmd)
    BY <1>1 DEF Calm, QueueInv, n
  <2> QED BY <1>2, <1>3, <2>1 DEF WorkInv
<1>8. AgreeInv'
  BY <1>2, <1>3 DEF Calm, AgreeInv, Claimed, Ahead
<1>9. ShownInv'
  BY <1>2, <1>3 DEF Calm, ShownInv, Unshown, Pending
<1> QED BY <1>4, <1>5, <1>6, <1>7, <1>8, <1>9 DEF Calm

LEMMA CalmSimulatedCall ==
  ASSUME TypeInv, Calm, SimulatedCall
  PROVE  Calm'
<1> USE DEF device
<1>1. /\ UNCHANGED <<kind, obs, sim, queue, aborts>> /\ sim /\ work.pc = "call"
      /\ work'.pc = "push" /\ work'.cmd = work.cmd
  BY GotoKeeps DEF SimulatedCall, At, WorkAt, TypeInv
<1>2. AbortInv' /\ QueueInv' /\ OrderInv' /\ WorkInv'
  BY <1>1 DEF Calm, AbortInv, NoAbortUnderWay, QueueInv, OrderInv, WorkInv
<1>3. AgreeInv' /\ ShownInv'
  BY <1>1 DEF AgreeInv, ShownInv
<1> QED BY <1>2, <1>3 DEF Calm

LEMMA CalmMonitor ==
  ASSUME TypeInv, Calm, StopMonitoring \/ MonitorStops
  PROVE  Calm'
<1> USE DEF device
<1>1. /\ UNCHANGED <<kind, obs, sim, core, coreConf, shown, queue, aborts>> /\ work.pc \in {"call", "monitor"}
      /\ work'.pc \in {"monitor", "stopped"} /\ work'.cmd = work.cmd
  BY GotoKeeps DEF StopMonitoring, MonitorStops, At, WorkAt, TypeInv
<1>2. AbortInv' /\ QueueInv' /\ OrderInv' /\ WorkInv'
  BY <1>1 DEF Calm, AbortInv, NoAbortUnderWay, QueueInv, OrderInv, WorkInv
<1>3. AgreeInv'
  BY <1>1 DEF Calm, AgreeInv, Claimed, Ahead
<1>4. ShownInv'
  BY <1>1 DEF Calm, ShownInv, Unshown, Pending
<1> QED BY <1>2, <1>3, <1>4 DEF Calm

(* A call that the core application has done leaves it in the state that   *)
(* the device is going to claim.                                           *)
LEMMA DoneAgrees ==
  ASSUME TypeInv, Calm, ~sim, work.pc \in {"call", "stopped"}, work.cmd \in Commands,
         Ok(work.cmd) \/ (Redundant(work.cmd) /\ Api[work.cmd].redundant = "completes"),
         Ahead("push", work.cmd, obs) \in ClaimStates
  PROVE  core' = Ahead("push", work.cmd, obs)
<1>1. obs \in Where(work.cmd)
  BY DEF Calm, WorkInv
<1>2. obs \in ClaimStates => core = obs
  BY DEF Calm, AgreeInv, Claimed, Ahead
<1>3. obs \notin Off
  BY OffClaims
<1>4. CASE work.cmd \in {"ConfigureBeam", "ConfigureScan", "DeconfigureBeam", "ObsReset"}
  <2>1. /\ work.cmd = "ConfigureBeam" => obs = "RESOURCING_EMPTY"
        /\ work.cmd = "ConfigureScan" => obs \in {"CONFIGURING_IDLE", "CONFIGURING_READY"}
        /\ work.cmd = "DeconfigureBeam" => obs = "RESOURCING_IDLE"
        /\ work.cmd # "ObsReset"
    BY <1>1, <1>3 DEF Where
  <2>2. CASE Ok(work.cmd)
    BY <1>4, <2>1, <2>2, DoneIs DEF Ahead, ClaimStates
  <2>3. CASE Redundant(work.cmd) /\ Api[work.cmd].redundant = "completes"
    BY <1>4, <2>1, <2>3, RedundantIs DEF Ahead, ClaimStates
  <2> QED BY <2>2, <2>3
<1>5. CASE work.cmd \in {"DeconfigureScan", "Scan", "EndScan"}
  <2>1. obs \in ClaimStates
    BY <1>5 DEF Ahead, ClaimStates
  <2>2. CASE Ok(work.cmd)
    BY <1>2, <1>5, <2>1, <2>2, DoneIs DEF Ahead, ClaimStates
  <2>3. CASE Redundant(work.cmd) /\ Api[work.cmd].redundant = "completes"
    BY <1>2, <1>5, <2>1, <2>3, RedundantIs DEF Ahead, ClaimStates
  <2> QED BY <2>2, <2>3
<1> QED BY <1>4, <1>5, CommandsAre

LEMMA CalmCoreCall ==
  ASSUME TypeInv, Calm, CoreCall
  PROVE  Calm'
<1> USE DEF device
<1>1. /\ UNCHANGED <<kind, obs, sim, shown, queue, aborts>> /\ work.pc \in {"call", "stopped"}
      /\ work.cmd \in Commands
  BY CommandsAre DEF CoreCall, At, TypeInv, JobInv
<1>2. PICK pc \in {"push", "end", "fault"} :
        /\ work'.pc = pc /\ work'.cmd = work.cmd /\ work'.conf = work.conf
        /\ pc = "push" => Ok(work.cmd) \/ (Redundant(work.cmd) /\ Api[work.cmd].redundant = "completes")
        /\ pc = "end" => core' = core /\ Api[work.cmd].redundant # "completes"
  <2>1. {"push", "end", "fault"} \subseteq WorkAt
    BY DEF WorkAt
  <2>2. PICK pc \in {"push", "end", "fault"} :
          /\ Goto(pc)
          /\ pc = "push" => Ok(work.cmd) \/ (Redundant(work.cmd) /\ Api[work.cmd].redundant = "completes")
          /\ pc = "end" => Redundant(work.cmd) /\ Api[work.cmd].redundant # "completes"
    BY DEF CoreCall
  <2> QED BY <2>1, <2>2, GotoKeeps DEF TypeInv, Redundant
<1>3. AbortInv' /\ QueueInv' /\ OrderInv' /\ WorkInv'
  BY <1>1, <1>2 DEF Calm, AbortInv, NoAbortUnderWay, QueueInv, OrderInv, WorkInv
<1>4. AgreeInv'
  <2> SUFFICES ASSUME ~sim, pc # "fault", Ahead(pc, work.cmd, obs) \in ClaimStates
               PROVE  core' = Ahead(pc, work.cmd, obs)
    BY <1>1, <1>2 DEF AgreeInv, Claimed
  <2>1. CASE pc = "push"
    BY <1>1, <1>2, <2>1, DoneAgrees
  <2>2. CASE pc = "end"
    BY <1>1, <1>2, <2>2 DEF Ahead, Calm, AgreeInv, Claimed
  <2> QED BY <2>1, <2>2
<1>5. obs \in Where(work.cmd)
  BY <1>1 DEF Calm, WorkInv
<1>6. ShownInv'
  <2>1. CASE work.cmd = "ConfigureBeam"
    <3>1. obs \notin Showing
      BY <1>5, <2>1 DEF Where, Showing, ClaimStates, Off
    <3>2. Api[work.cmd].redundant = "fails"
      BY <2>1 DEF Api, ConfigureBeam
    <3>3. pc = "push" => coreConf' = work.conf
      <4>1. pc = "push" => Ok("ConfigureBeam")
        BY <1>2, <2>1, <3>2
      <4>2. "ConfigureBeam" \in Commands \cup {"Abort"}
        BY CommandsAre
      <4>3. pc = "push" => core' # core
        BY <4>1, <4>2, DoneIs
      <4> QED BY <2>1, <4>3 DEF CoreCall, CoreTakes
    <3> QED BY <1>1, <1>2, <2>1, <3>1, <3>3 DEF ShownInv, Unshown, Pending
  <2>2. CASE work.cmd # "ConfigureBeam"
    <3>1. coreConf' = coreConf
      BY <2>2 DEF CoreCall, CoreTakes
    <3>2. work.cmd = "DeconfigureBeam" => Api[work.cmd].redundant = "completes"
      BY DEF Api, DeconfigureBeam
    <3> QED BY <1>1, <1>2, <2>2, <3>1, <3>2 DEF Calm, ShownInv, Unshown, Pending
  <2> QED BY <2>1, <2>2
<1> QED BY <1>3, <1>4, <1>6 DEF Calm

(* What the device claims next is what it was going to claim, or nothing.  *)
LEMMA ToldClaims ==
  ASSUME NEW s \in States, NEW c \in Commands, s \in Where(c),
         NEW pc \in {"complete", "raised"}, pc = "complete" <=> ToldOf(s, c).ok,
         Ahead(pc, c, ToldOf(s, c).state) \in ClaimStates
  PROVE  Ahead(pc, c, ToldOf(s, c).state) = Ahead("push", c, s)
<1>1. \A u : /\ From(u).state = u /\ From(u).ok = TRUE
             /\ Refused(u).state = u /\ Refused(u).ok = FALSE
  BY Outcomes
<1>2. s \notin Off
  BY StaysOff, OffClaims
<1>3. CASE c = "ConfigureBeam"
  BY <1>1, <1>2, <1>3 DEF ToldOf, Where, Ahead, ClaimStates
<1>4. CASE c = "DeconfigureBeam"
  BY <1>1, <1>2, <1>4 DEF ToldOf, Where, Ahead, ClaimStates
<1>5. CASE c = "ConfigureScan"
  BY <1>1, <1>2, <1>5 DEF ToldOf, Where, Ahead, ClaimStates
<1>6. CASE c = "DeconfigureScan"
  BY <1>1, <1>2, <1>6 DEF ToldOf, Ahead, ClaimStates, Off
<1>7. CASE c = "Scan"
  BY <1>1, <1>2, <1>7 DEF ToldOf, Ahead, ClaimStates, Off
<1>8. CASE c = "EndScan"
  BY <1>1, <1>2, <1>8 DEF ToldOf, Ahead, ClaimStates, Off
<1>9. c # "ObsReset"
  BY <1>2 DEF Where
<1> QED BY <1>3, <1>4, <1>5, <1>6, <1>7, <1>8, <1>9, CommandsAre

LEMMA CompletedClaims ==
  ASSUME NEW s \in States, NEW c \in Commands, s \in WhereTold(c), CompletedOf(s, c).state \in ClaimStates
  PROVE  CompletedOf(s, c).state = Ahead("complete", c, s)
<1>1. \A u : From(u).state = u /\ Refused(u).state = u
  BY Outcomes
<1>2. CASE s \in Off
  <2>1. CompletedOf(s, c).state = s \/ CompletedOf(s, c).state = "EMPTY"
    BY <1>1, <1>2, StaysOff
  <2> QED BY <1>2, <2>1 DEF ClaimStates, Off
<1>3. CASE s \notin Off
  BY <1>1, <1>3, CommandsAre DEF CompletedOf, WhereTold, Ahead, ClaimStates
<1> QED BY <1>2, <1>3

(* An abort under way finds nothing that the worker does not leave as it is. *)
LEMMA AbortKept ==
  ASSUME Calm, aborts' = aborts, obs \in {"ABORTING", "ABORTED", "FAULT"} => obs' = obs
  PROVE  AbortInv'
  BY DEF Calm, AbortInv, NoAbortUnderWay

LEMMA CalmPush ==
  ASSUME TypeInv, Calm, Push
  PROVE  Calm'
<1> USE DEF device
<1> DEFINE c == work.cmd
<1>1. /\ UNCHANGED <<kind, sim, core, coreConf, shown, queue, aborts>> /\ work.pc = "push"
      /\ c \in Commands /\ obs \in States /\ obs \in Where(c)
  BY DEF Push, At, TypeInv, TypeOK, JobInv, Calm, WorkInv
<1>2. obs' = ToldOf(obs, c).state
  BY <1>1, ToldIs DEF Push
<1>3. PICK pc \in {"complete", "raised"} :
        /\ pc = "complete" <=> ToldOf(obs, c).ok
        /\ work'.pc = pc /\ work'.cmd = c /\ work'.conf = work.conf
  <2>1. {"complete", "raised"} \subseteq WorkAt
    BY DEF WorkAt
  <2>2. \A s : From(s).ok = TRUE /\ Refused(s).ok = FALSE
    BY Outcomes
  <2>3. ToldOf(obs, c).ok \in BOOLEAN
    BY <1>1, <2>2, CommandsAre DEF ToldOf
  <2>4. PICK pc \in {"complete", "raised"} : Goto(pc) /\ (pc = "complete" <=> ToldOf(obs, c).ok)
    BY <1>1, <2>3, ToldIs DEF Push
  <2> QED BY <2>1, <2>4, GotoKeeps DEF TypeInv
<1> HIDE DEF c
<1>4. AbortInv'
  <2>1. obs \in Off => obs' = obs
    BY <1>1, <1>2, StaysOff
  <2> QED BY <1>1, <2>1, AbortKept DEF Off
<1>5. \A j \in 1 .. Len(queue) : queue[j].cmd \in Behind(c) /\ obs \in Where(queue[j].cmd)
  BY <1>1 DEF Calm, OrderInv, QueueInv, c
<1>6. QueueInv'
  BY <1>1, <1>2, <1>5, WhereTolds DEF QueueInv
<1>7. OrderInv'
  BY <1>1, <1>3, <1>5 DEF Calm, OrderInv
<1>8. WorkInv'
  BY <1>1, <1>2, <1>3, WhereTolds DEF WorkInv
<1>9. AgreeInv'
  <2> SUFFICES ASSUME ~sim, Ahead(pc, c, obs') \in ClaimStates
               PROVE  core = Ahead(pc, c, obs')
    BY <1>1, <1>3 DEF AgreeInv, Claimed
  <2>1. Ahead(pc, c, obs') = Ahead("push", c, obs)
    BY <1>1, <1>2, <1>3, ToldClaims
  <2>2. Claimed = Ahead("push", c, obs)
    BY <1>1 DEF Claimed, c
  <2> QED BY <1>1, <2>1, <2>2 DEF Calm, AgreeInv
<1>10. ShownInv'
  <2>1. \A s : From(s).state = s /\ Refused(s).state = s
    BY Outcomes
  <2>2. obs' \in Showing => obs \in Showing
    <3>1. CASE obs \in Off
      BY <1>1, <1>2, <3>1, StaysOff
    <3>2. CASE obs \notin Off
      BY <1>1, <1>2, <2>1, <3>2, CommandsAre DEF ToldOf, Where, Showing, ClaimStates
    <3> QED BY <3>1, <3>2
  <2>3. Pending' => Pending
    <3>1. c = "ConfigureBeam" /\ obs' = "RESOURCING_IDLE" => obs = "RESOURCING_EMPTY"
      BY <1>1, <1>2, <2>1 DEF ToldOf, Where, Off
    <3> QED BY <1>1, <1>3, <3>1 DEF Pending, c
  <2> QED BY <1>1, <1>3, <2>2, <2>3 DEF Calm, ShownInv, Unshown
<1> QED BY <1>4, <1>6, <1>7, <1>8, <1>9, <1>10 DEF Calm

LEMMA CalmComplete ==
  ASSUME TypeInv, Calm, Complete
  PROVE  Calm'
<1> USE DEF device
<1> DEFINE c == work.cmd
<1>1. /\ UNCHANGED <<kind, sim, core, coreConf, shown, queue, aborts>> /\ work.pc = "complete"
      /\ c \in Commands /\ obs \in States /\ obs \in WhereTold(c)
  BY DEF Complete, At, TypeInv, TypeOK, JobInv, Calm, WorkInv
<1>2. obs' = CompletedOf(obs, c).state
  BY <1>1, CompletedIs DEF Complete
<1>3. PICK pc \in {"end", "raised"} :
        /\ pc = "end" <=> CompletedOf(obs, c).ok
        /\ work'.pc = pc /\ work'.cmd = c /\ work'.conf = work.conf
  <2>1. {"end", "raised"} \subseteq WorkAt
    BY DEF WorkAt
  <2>2. \A s : From(s).ok = TRUE /\ Refused(s).ok = FALSE
    BY Outcomes
  <2>3. CompletedOf(obs, c).ok \in BOOLEAN
    BY <1>1, <2>2, CommandsAre DEF CompletedOf
  <2>4. PICK pc \in {"end", "raised"} : Goto(pc) /\ (pc = "end" <=> CompletedOf(obs, c).ok)
    BY <1>1, <2>3, CompletedIs DEF Complete
  <2> QED BY <2>1, <2>4, GotoKeeps DEF TypeInv
<1> HIDE DEF c
<1>4. AbortInv'
  <2>1. obs \in {"ABORTING", "ABORTED", "FAULT"} => obs' = obs
    BY <1>1, <1>2, StaysOff DEF Off
  <2> QED BY <1>1, <2>1, AbortKept
<1>5. \A j \in 1 .. Len(queue) : queue[j].cmd \in Behind(c) /\ obs \in Where(queue[j].cmd)
  BY <1>1 DEF Calm, OrderInv, QueueInv, c
<1>6. QueueInv'
  BY <1>1, <1>2, <1>5, WhereCompleted DEF QueueInv
<1>7. OrderInv' /\ WorkInv'
  BY <1>1, <1>3 DEF Calm, OrderInv, WorkInv
<1>8. AgreeInv'
  <2> SUFFICES ASSUME ~sim, obs' \in ClaimStates PROVE core = obs'
    BY <1>1, <1>3 DEF AgreeInv, Claimed, Ahead
  <2>1. obs' = Ahead("complete", c, obs)
    BY <1>1, <1>2, CompletedClaims
  <2>2. Claimed = Ahead("complete", c, obs)
    BY <1>1 DEF Claimed, c
  <2> QED BY <1>1, <2>1, <2>2 DEF Calm, AgreeInv
<1>9. ShownInv'
  <2>1. \A s : From(s).state = s /\ Refused(s).state = s /\ From(s).ok = TRUE /\ Refused(s).ok = FALSE
    BY Outcomes
  <2>2. CASE obs \in Off
    <3>1. obs' \in Off \cup {"EMPTY"}
      BY <1>1, <1>2, <2>1, <2>2, StaysOff
    <3> QED BY <1>1, <1>3, <3>1 DEF ShownInv, Unshown, Pending, Showing, ClaimStates, Off
  <2>3. CASE obs \notin Off
    <3>1. CASE c = "ConfigureBeam"
      <4>1. obs = "RESOURCING_IDLE" /\ obs' = "IDLE" /\ pc = "end"
        BY <1>1, <1>2, <1>3, <2>1, <2>3, <3>1 DEF WhereTold, CompletedOf
      <4>2. Pending
        BY <1>1, <3>1, <4>1 DEF Pending, c
      <4> QED BY <1>1, <1>3, <3>1, <4>1, <4>2 DEF Calm, ShownInv, Unshown, Pending
    <3>2. CASE c = "DeconfigureBeam"
      <4>1. obs' = "EMPTY"
        BY <1>1, <1>2, <2>1, <2>3, <3>2 DEF WhereTold, CompletedOf
      <4> QED BY <1>1, <1>3, <3>2, <4>1 DEF ShownInv, Unshown, Pending, Showing, ClaimStates
    <3>3. CASE c \notin {"ConfigureBeam", "DeconfigureBeam"}
      <4>1. obs' \in Showing => obs \in Showing
        BY <1>1, <1>2, <2>1, <2>3, <3>3, CommandsAre DEF WhereTold, CompletedOf, Showing
      <4> QED BY <1>1, <1>3, <3>3, <4>1 DEF Calm, ShownInv, Unshown, Pending, c
    <3> QED BY <3>1, <3>2, <3>3
  <2> QED BY <2>2, <2>3
<1> QED BY <1>4, <1>6, <1>7, <1>8, <1>9 DEF Calm

LEMMA CalmEnd ==
  ASSUME TypeInv, Calm, End
  PROVE  Calm'
<1> USE DEF device
<1>1. /\ UNCHANGED <<kind, obs, sim, core, coreConf, queue, aborts>> /\ work.pc \in {"end", "raised"}
      /\ work'.pc = "idle"
  BY DEF End, At, NoWork
<1>2. AbortInv' /\ QueueInv' /\ OrderInv' /\ WorkInv'
  BY <1>1 DEF Calm, AbortInv, NoAbortUnderWay, QueueInv, OrderInv, WorkInv
<1>3. AgreeInv'
  BY <1>1 DEF Calm, AgreeInv, Claimed, Ahead
<1>4. ShownInv'
  <2> SUFFICES ASSUME ~sim, kind = "RECV", obs \in Showing PROVE shown' = coreConf
    BY <1>1 DEF ShownInv, Unshown, Pending
  <2>1. CASE Unshown
    BY <2>1 DEF End, At, Unshown, Calm, ShownInv
  <2>2. CASE ~Unshown
    <3>1. ~(work.pc = "end" /\ work.cmd = "DeconfigureBeam")
      BY DEF Calm, ShownInv, Showing, ClaimStates, Off
    <3> QED BY <2>2, <3>1 DEF End, At, Unshown, Calm, ShownInv
  <2> QED BY <2>1, <2>2
<1> QED BY <1>2, <1>3, <1>4 DEF Calm

LEMMA CalmFaults ==
  ASSUME TypeInv, Calm, GoesToFault \/ CoreGoesToFault \/ HandleFault
  PROVE  Calm'
<1> USE DEF device
<1>1. /\ queue' = queue /\ aborts' = aborts
      /\ work'.cmd = work.cmd /\ work'.pc \in {"core fault", "handle", "end"}
  BY GotoKeeps DEF GoesToFault, CoreGoesToFault, HandleFault, WorkAt, TypeInv
<1>2. obs' = "FAULT" \/ (obs' = obs /\ obs \in Off)
  <2>1. CASE GoesToFault \/ HandleFault
    BY <2>1, CallTriggers DEF GoesToFault, HandleFault, TypeInv, TypeOK
  <2>2. CASE CoreGoesToFault
    BY <2>2 DEF CoreGoesToFault, At, Calm, WorkInv
  <2> QED BY <2>1, <2>2
<1>3. AbortInv'
  BY <1>1, <1>2 DEF Calm, AbortInv, NoAbortUnderWay
<1> QED BY <1>1, <1>2, <1>3, CalmOff DEF Off

-----------------------------------------------------------------------------

(* The inductive invariant *)
CInv == TypeInv /\ CalmInv

LEMMA CalmInit == Init => CalmInv
<1> SUFFICES ASSUME Init PROVE Calm
  BY DEF CalmInv
<1>1. queue = <<>> /\ work = NoWork /\ aborts = [a \in Aborters |-> "none"] /\ sim
  BY DEF Init
<1>2. AbortInv /\ QueueInv /\ OrderInv
  BY <1>1 DEF AbortInv, NoAbortUnderWay, QueueInv, OrderInv, NoWork
<1>3. WorkInv /\ AgreeInv /\ ShownInv
  BY <1>1 DEF WorkInv, NoWork, AgreeInv, ShownInv
<1> QED BY <1>2, <1>3 DEF Calm

LEMMA CalmStep == CInv /\ [Next]_vars => CalmInv'
<1> SUFFICES ASSUME TypeInv, CalmInv, [Next]_vars, calm' PROVE Calm'
  BY DEF CInv, CalmInv
<1>1. CASE Restart
  BY <1>1, CalmRestart
<1>2. CASE UNCHANGED vars
  BY <1>2, ZenonT(60)
  DEF vars, CalmInv, Calm, AbortInv, NoAbortUnderWay, QueueInv, OrderInv, WorkInv, AgreeInv, Claimed, ShownInv,
      Unshown, Pending
<1>3. CASE ~Restart /\ Next
  <2>1. calm
    <3>1. CASE Command
      BY <3>1 DEF Command, CallConfigureBeam, CallOther, Call, CallGoToFault, CallAbort
    <3>2. CASE Worker \/ MonitorStops
      BY <3>2
      DEF Worker, Take, SimulatedCall, StopMonitoring, MonitorStops, CoreCall, Push, Complete, GoesToFault,
          CoreGoesToFault, HandleFault, End
    <3>3. CASE \E a \in Aborters : Aborter(a) \/ AbortMonitorStops(a)
      BY <3>3 DEF Aborter, AbortMonitorStops, AbortCall, AbortPush, AbortComplete, AbortFails, AbortCoreFails
    <3>4. CASE StartCommunicating \/ StopCommunicating \/ SetSimulationMode
      BY <3>4 DEF StartCommunicating, StopCommunicating, SetSimulationMode
    <3> QED BY <1>3, <3>1, <3>2, <3>3, <3>4 DEF Next
  <2>2. Calm
    BY <2>1 DEF CalmInv
  <2>3. CASE Worker \/ MonitorStops
    BY <2>2, <2>3, CalmTake, CalmSimulatedCall, CalmMonitor, CalmCoreCall, CalmPush, CalmComplete, CalmEnd, CalmFaults
    DEF Worker
  <2> QED BY <1>3, <2>2, <2>3, CalmCommands, CalmAborter, CalmOthers DEF Next
<1> QED BY <1>1, <1>2, <1>3

LEMMA Inductive == Spec => []CInv
<1>1. Init => CInv
  BY TypeInit, CalmInit DEF CInv
<1>2. CInv /\ [Next]_vars => CInv'
  BY TypeStep, CalmStep DEF CInv
<1> QED BY <1>1, <1>2, PTL DEF Spec

(* What a device at rest claims to be, its core application is, as long as *)
(* no reset has overtaken an abort or a reset.                             *)
THEOREM CoreAgrees == Spec => []AgreesAtRest
<1>1. CInv => AgreesAtRest
  <2> SUFFICES ASSUME CalmInv, calm, work.pc = "idle", ~sim, obs \in ClaimStates PROVE core = obs
    BY DEF CInv, AgreesAtRest, AtRest, At, Claims, ClaimStates
  <2> QED BY DEF CalmInv, Calm, AgreeInv, Claimed, Ahead
<1> QED BY <1>1, Inductive, PTL

(* What RECV at rest shows is what its core application was given.         *)
THEOREM ShownAgrees == Spec => []ShownIsConfigured
<1>1. CInv => ShownIsConfigured
  <2> SUFFICES ASSUME CalmInv, calm, work.pc = "idle", ~sim, kind = "RECV", obs \in ClaimStates
               PROVE  shown = coreConf
    BY DEF CInv, ShownIsConfigured, AtRest, At, Claims, ClaimStates
  <2> QED BY DEF CalmInv, Calm, ShownInv, Unshown, Showing
<1> QED BY <1>1, Inductive, PTL

-----------------------------------------------------------------------------
(* What clients see                                                        *)

(* The state machine is the same in the abstract specification. *)
LEMMA SeenMachine ==
  /\ Seen!States = States /\ Seen!Abortable = Abortable
  /\ \A s : Seen!From(s) = From(s)
  /\ \A s, t : Seen!After(s, t) = After(s, t)
  /\ \A r, t : Seen!Then(r, t) = Then(r, t)
<1>1. Seen!Transition = Transition
  BY Zenon DEF Seen!Transition, Transition, Seen!To, To, Seen!Stay, Stay, Seen!Join, Join, Seen!Resourced, Resourced,
     Seen!Resourcing, Resourcing, Seen!Abortable, Abortable, Seen!States, States
<1>2. \A s : Seen!From(s) = From(s)
  BY Zenon DEF Seen!From, From
<1>3. \A s, t : Seen!After(s, t) = After(s, t) /\ Seen!Allowed(s, t) = Allowed(s, t)
  BY <1>1, Zenon DEF Seen!After, After, Seen!Allowed, Allowed
<1>4. \A r, t : Seen!Then(r, t) = Then(r, t)
  BY <1>2, <1>3, Zenon DEF Seen!Then, Then
<1>5. Seen!States = States /\ Seen!Abortable = Abortable
  BY Zenon DEF Seen!Abortable, Abortable, Seen!States, States
<1> QED BY <1>2, <1>3, <1>4, <1>5, Zenon

(* Where a command that takes effect in s leads. *)
Effect(s, c) ==
  CASE c = "ConfigureBeam" -> IF s = "RESOURCING_EMPTY" THEN "IDLE" ELSE s
    [] c = "DeconfigureBeam" -> IF s = "RESOURCING_IDLE" THEN "EMPTY" ELSE s
    [] c = "ConfigureScan" -> IF s = "CONFIGURING_IDLE" THEN "READY" ELSE s
    [] c = "DeconfigureScan" -> IF s = "READY" THEN "IDLE" ELSE s
    [] c = "Scan" -> IF s = "READY" THEN "SCANNING" ELSE s
    [] c = "EndScan" -> IF s = "SCANNING" THEN "READY" ELSE s
    [] c = "Abort" -> IF s = "SCANNING" THEN "READY" ELSE IF s = "ABORTING" THEN "ABORTED" ELSE s
    [] c = "ObsReset" -> IF s = "READY" THEN "IDLE" ELSE IF s = "RESETTING" THEN "EMPTY" ELSE s
    [] c = "GoToFault" -> "FAULT"

ClientCommands == AnyCommand \cup {"Abort"}

LEMMA ClientCommandsAre ==
  ClientCommands = {"ConfigureBeam", "DeconfigureBeam", "ConfigureScan", "DeconfigureScan", "Scan", "EndScan",
                    "ObsReset", "GoToFault", "Abort"}
  BY CommandsAre DEF ClientCommands, AnyCommand

LEMMA FaultTrigger == ASSUME NEW s \in States PROVE Then(From(s), "component_obsfault") = From("FAULT")
  BY DEF Then, From, Allowed, After, Transition, To, States

LEMMA EffectIs ==
  ASSUME NEW s \in States, NEW c \in ClientCommands
  PROVE  Seen!Completed(s, c).state = Effect(s, c)
<1>0. \A m : From(m).state = m /\ Refused(m).state = m
  BY Outcomes
<1>1. CASE c = "ConfigureBeam"
  <2> DEFINE first == Then(From(s), "component_resourced")
  <2>1. Seen!Completed(s, c) = Then(first, "assign_completed")
    BY <1>1, SeenMachine DEF Seen!Completed
  <2>2. CASE s = "RESOURCING_EMPTY"
    <3>1. first = From("RESOURCING_IDLE") /\ Then(From("RESOURCING_IDLE"), "assign_completed") = From("IDLE")
      BY <2>2, Triggers
    <3>2. Seen!Completed(s, c).state = "IDLE"
      BY <2>1, <3>1, <1>0
    <3> QED BY <1>1, <2>2, <3>2 DEF Effect
  <2>3. CASE s \notin {"RESOURCING_EMPTY"}
    <3>1. first = Refused(s)
      BY <2>3, Triggers
    <3>2. Seen!Completed(s, c).state = s
      BY <2>1, <3>1, StaysRefused, <1>0
    <3> QED BY <1>1, <2>3, <3>2 DEF Effect
  <2> QED BY <2>2, <2>3
<1>2. CASE c = "DeconfigureBeam"
  <2> DEFINE first == Then(From(s), "component_unresourced")
  <2>1. Seen!Completed(s, c) = Then(first, "release_completed")
    BY <1>2, SeenMachine DEF Seen!Completed
  <2>2. CASE s = "RESOURCING_IDLE"
    <3>1. first = From("RESOURCING_EMPTY") /\ Then(From("RESOURCING_EMPTY"), "release_completed") = From("EMPTY")
      BY <2>2, Triggers
    <3>2. Seen!Completed(s, c).state = "EMPTY"
      BY <2>1, <3>1, <1>0
    <3> QED BY <1>2, <2>2, <3>2 DEF Effect
  <2>3. CASE s = "RESETTING"
    <3>1. first = From("RESETTING") /\ Then(From("RESETTING"), "release_completed") = Refused("RESETTING")
      BY <2>3, Triggers
    <3>2. Seen!Completed(s, c).state = "RESETTING"
      BY <2>1, <3>1, <1>0
    <3> QED BY <1>2, <2>3, <3>2 DEF Effect
  <2>4. CASE s \notin {"RESOURCING_IDLE", "RESETTING"}
    <3>1. first = Refused(s)
      BY <2>4, Triggers
    <3>2. Seen!Completed(s, c).state = s
      BY <2>1, <3>1, StaysRefused, <1>0
    <3> QED BY <1>2, <2>4, <3>2 DEF Effect
  <2> QED BY <2>2, <2>3, <2>4
<1>3. CASE c = "ConfigureScan"
  <2> DEFINE first == Then(From(s), "component_configured")
  <2>1. Seen!Completed(s, c) = Then(first, "configure_completed")
    BY <1>3, SeenMachine DEF Seen!Completed
  <2>2. CASE s = "CONFIGURING_IDLE"
    <3>1. first = From("CONFIGURING_READY") /\ Then(From("CONFIGURING_READY"), "configure_completed") = From("READY")
      BY <2>2, Triggers
    <3>2. Seen!Completed(s, c).state = "READY"
      BY <2>1, <3>1, <1>0
    <3> QED BY <1>3, <2>2, <3>2 DEF Effect
  <2>3. CASE s = "ABORTING"
    <3>1. first = From("ABORTING") /\ Then(From("ABORTING"), "configure_completed") = Refused("ABORTING")
      BY <2>3, Triggers
    <3>2. Seen!Completed(s, c).state = "ABORTING"
      BY <2>1, <3>1, <1>0
    <3> QED BY <1>3, <2>3, <3>2 DEF Effect
  <2>4. CASE s \notin {"CONFIGURING_IDLE", "ABORTING"}
    <3>1. first = Refused(s)
      BY <2>4, Triggers
    <3>2. Seen!Completed(s, c).state = s
      BY <2>1, <3>1, StaysRefused, <1>0
    <3> QED BY <1>3, <2>4, <3>2 DEF Effect
  <2> QED BY <2>2, <2>3, <2>4
<1>4. CASE c = "DeconfigureScan"
  <2>1. Seen!Completed(s, c) = Then(From(s), "component_unconfigured")
    BY <1>4, SeenMachine DEF Seen!Completed
  <2>2. Then(From(s), "component_unconfigured").state = IF s = "READY" THEN "IDLE" ELSE s
    BY Triggers, <1>0
  <2> QED BY <1>4, <2>1, <2>2 DEF Effect
<1>5. CASE c = "Scan"
  <2>1. Seen!Completed(s, c) = Then(From(s), "component_scanning")
    BY <1>5, SeenMachine DEF Seen!Completed
  <2>2. Then(From(s), "component_scanning").state = IF s = "READY" THEN "SCANNING" ELSE s
    BY Triggers, <1>0
  <2> QED BY <1>5, <2>1, <2>2 DEF Effect
<1>6. CASE c = "EndScan"
  <2>1. Seen!Completed(s, c) = Then(From(s), "component_not_scanning")
    BY <1>6, SeenMachine DEF Seen!Completed
  <2>2. Then(From(s), "component_not_scanning").state = IF s = "SCANNING" THEN "READY" ELSE s
    BY Triggers, <1>0
  <2> QED BY <1>6, <2>1, <2>2 DEF Effect
<1>7. CASE c = "Abort"
  <2> DEFINE first == Then(From(s), "component_not_scanning")
  <2>1. Seen!Completed(s, c) = Then(first, "abort_completed")
    BY <1>7, SeenMachine DEF Seen!Completed
  <2>2. CASE s = "SCANNING"
    <3>1. first = From("READY") /\ Then(From("READY"), "abort_completed") = Refused("READY")
      BY <2>2, Triggers
    <3>2. Seen!Completed(s, c).state = "READY"
      BY <2>1, <3>1, <1>0
    <3> QED BY <1>7, <2>2, <3>2 DEF Effect
  <2>3. CASE s = "ABORTING"
    <3>1. first = From("ABORTING") /\ Then(From("ABORTING"), "abort_completed") = From("ABORTED")
      BY <2>3, Triggers
    <3>2. Seen!Completed(s, c).state = "ABORTED"
      BY <2>1, <3>1, <1>0
    <3> QED BY <1>7, <2>3, <3>2 DEF Effect
  <2>4. CASE s \notin {"SCANNING", "ABORTING"}
    <3>1. first = Refused(s)
      BY <2>4, Triggers
    <3>2. Seen!Completed(s, c).state = s
      BY <2>1, <3>1, StaysRefused, <1>0
    <3> QED BY <1>7, <2>4, <3>2 DEF Effect
  <2> QED BY <2>2, <2>3, <2>4
<1>8. CASE c = "ObsReset"
  <2> DEFINE first == Then(From(s), "component_unconfigured")
             second == Then(first, "component_unresourced")
  <2>1. Seen!Completed(s, c) = Then(second, "obsreset_completed")
    BY <1>8, SeenMachine DEF Seen!Completed
  <2>2. CASE s = "RESETTING"
    <3>1. first = From(s) /\ Then(From(s), "component_unresourced") = From(s)
          /\ Then(From(s), "obsreset_completed") = From("EMPTY")
      BY <2>2, Triggers
    <3>2. Seen!Completed(s, c).state = "EMPTY"
      BY <2>1, <3>1, <1>0
    <3> QED BY <1>8, <2>2, <3>2 DEF Effect
  <2>3. CASE s = "READY"
    <3>1. first = From("IDLE") /\ Then(From("IDLE"), "component_unresourced") = Refused("IDLE")
      BY <2>3, Triggers
    <3>2. Seen!Completed(s, c).state = "IDLE"
      BY <2>1, <3>1, StaysRefused, <1>0
    <3> QED BY <1>8, <2>3, <3>2 DEF Effect
  <2>4. CASE s = "ABORTING"
    <3>1. first = From(s) /\ Then(From(s), "component_unresourced") = Refused(s)
      BY <2>4, Triggers
    <3>2. Seen!Completed(s, c).state = s
      BY <2>1, <3>1, StaysRefused, <1>0
    <3> QED BY <1>8, <2>4, <3>2 DEF Effect
  <2>5. CASE s \notin {"READY", "RESETTING", "ABORTING"}
    <3>1. first = Refused(s)
      BY <2>5, Triggers
    <3>2. Seen!Completed(s, c).state = s
      BY <2>1, <3>1, StaysRefused, <1>0
    <3> QED BY <1>8, <2>5, <3>2 DEF Effect
  <2> QED BY <2>2, <2>3, <2>4, <2>5
<1>9. CASE c = "GoToFault"
  <2>1. Seen!Completed(s, c) = Then(From(s), "component_obsfault")
    BY <1>9, SeenMachine DEF Seen!Completed
  <2>2. Seen!Completed(s, c).state = "FAULT"
    BY <2>1, FaultTrigger, <1>0
  <2> QED BY <1>9, <2>2 DEF Effect
<1> QED BY <1>1, <1>2, <1>3, <1>4, <1>5, <1>6, <1>7, <1>8, <1>9, ClientCommandsAre

(* Where a command that has told what the API says, and has yet to         *)
(* complete, can find the device; unlike WhereTold, whether calm or not.   *)
Telling ==
  /\ work.pc = "complete" =>
       /\ work.cmd = "ConfigureBeam" => obs \in Off \cup {"RESOURCING_IDLE"}
       /\ work.cmd = "DeconfigureBeam" => obs \in Off \cup {"RESOURCING_EMPTY"}
       /\ work.cmd = "ConfigureScan" => obs \in Off \cup {"CONFIGURING_READY"}
       /\ work.cmd = "ObsReset" => obs \in Off
  /\ work.pc = "fault" => work.cmd \in AnyCommand
  /\ work.pc = "handle" => work.cmd = "GoToFault"

(* A step of which Telling has only to know what becomes of the state.     *)
LEMMA TellingKept ==
  ASSUME TypeInv, Telling, UNCHANGED work, obs \in Off => obs' \in Off, obs' = obs \/ obs' \in Off \/ obs \in {"EMPTY", "IDLE", "READY", "SCANNING"}
  PROVE  Telling'
  BY DEF Telling, Off

LEMMA TellingStep ==
  ASSUME TypeInv, Telling, [Next]_vars
  PROVE  Telling'
<1>o. obs \in States /\ obs' \in States /\ aborts \in [Aborters -> AbortAt]
  BY TypeStep DEF TypeInv, TypeOK
<1>1. CASE UNCHANGED vars
  BY <1>1 DEF vars, Telling
<1>2. CASE Command
  <2>1. UNCHANGED work
    BY <1>2 DEF Command, CallConfigureBeam, CallOther, Call, CallGoToFault, CallAbort
  <2>2. CASE obs' = obs
    BY <2>1, <2>2, TellingKept
  <2>3. ASSUME NEW c \in Commands, NEW conf, Call(c, conf) PROVE Telling'
    <3>1. Begins(obs, c, obs')
      BY <2>3, InvokedIs DEF Call
    <3>2. obs \in {"EMPTY", "IDLE", "READY", "SCANNING"} \/ (obs \in Off /\ obs' \in Off)
      BY <3>1, CommandsAre DEF Begins, Off
    <3>3. obs \in Off => obs' \in Off
      BY <3>2 DEF Off
    <3> QED BY <2>1, <3>2, <3>3, TellingKept
  <2>4. CASE CallAbort
    <3>1. obs' = "ABORTING"
      BY <2>4, CallTriggers DEF CallAbort
    <3> QED BY <2>1, <3>1, TellingKept DEF Off
  <2>5. CASE CallGoToFault
    BY <2>2, <2>5 DEF CallGoToFault
  <2> QED BY <1>2, <2>3, <2>4, <2>5, CommandsAre DEF Command, CallConfigureBeam, CallOther
<1>3. CASE Worker \/ MonitorStops
  <2> USE DEF Telling
  <2>1. CASE Take
    <3>1. work'.pc \in {"fault", "raised", "call"} /\ (work'.pc = "fault" => work'.cmd = "GoToFault")
      BY <2>1 DEF Take
    <3> QED BY <3>1 DEF AnyCommand
  <2>2. CASE SimulatedCall
    <3>1. work'.pc = "push"
      BY <2>2, GotoKeeps DEF SimulatedCall, TypeInv, WorkAt
    <3> QED BY <3>1
  <2>3. CASE CoreCall
    <3>1. PICK pc \in {"push", "end", "fault"} : Goto(pc)
      BY <2>3 DEF CoreCall
    <3>2. work'.pc = pc /\ work'.cmd = work.cmd
      BY <3>1, GotoKeeps DEF TypeInv, WorkAt
    <3>3. work.cmd \in Commands
      BY <2>3 DEF CoreCall, At, TypeInv, JobInv
    <3> QED BY <3>2, <3>3 DEF AnyCommand
  <2>10. CASE StopMonitoring \/ MonitorStops
    <3>1. PICK pc \in {"monitor", "stopped"} : Goto(pc)
      BY <2>10 DEF StopMonitoring, MonitorStops
    <3>2. work'.pc = pc /\ work'.cmd = work.cmd
      BY <3>1, GotoKeeps DEF TypeInv, WorkAt
    <3> QED BY <3>2
  <2>4. CASE Push
    <3>1. work.cmd \in Commands
      BY <2>4 DEF Push, At, TypeInv, JobInv
    <3> DEFINE told == ToldOf(obs, work.cmd)
    <3>2. obs' = told.state /\ Goto(IF told.ok THEN "complete" ELSE "raised")
      BY <2>4, <3>1, ToldIs DEF Push
    <3>3. CASE told.ok
      <4>1. work'.pc = "complete" /\ work'.cmd = work.cmd
        BY <3>2, <3>3, GotoKeeps DEF TypeInv, WorkAt
      <4>2. \A s : From(s).state = s /\ Refused(s).ok = FALSE
        BY Outcomes
      <4>3. /\ work.cmd = "ConfigureBeam" => told = From("RESOURCING_IDLE")
            /\ work.cmd = "DeconfigureBeam" => told = From("RESOURCING_EMPTY") \/ told = From("RESETTING")
            /\ work.cmd = "ConfigureScan" => told = From("CONFIGURING_READY") \/ told = From("ABORTING")
            /\ work.cmd = "ObsReset" => told = From("RESETTING")
        BY <3>3, <4>2 DEF ToldOf
      <4> HIDE DEF told
      <4>4. /\ work.cmd = "ConfigureBeam" => obs' = "RESOURCING_IDLE"
            /\ work.cmd = "DeconfigureBeam" => obs' = "RESOURCING_EMPTY" \/ obs' = "RESETTING"
            /\ work.cmd = "ConfigureScan" => obs' = "CONFIGURING_READY" \/ obs' = "ABORTING"
            /\ work.cmd = "ObsReset" => obs' = "RESETTING"
        BY <3>2, <4>2, <4>3
      <4> QED BY <4>1, <4>4 DEF Off
    <3>4. CASE ~told.ok
      <4>1. work'.pc = "raised"
        BY <3>2, <3>4, GotoKeeps DEF TypeInv, WorkAt
      <4> QED BY <4>1
    <3> QED BY <3>3, <3>4
  <2>5. CASE Complete
    <3>1. PICK pc \in {"end", "raised"} : Goto(pc)
      BY <2>5 DEF Complete
    <3>2. work'.pc = pc
      BY <3>1, GotoKeeps DEF TypeInv, WorkAt
    <3> QED BY <3>2
  <2>6. CASE GoesToFault
    <3>1. work'.pc = "core fault"
      BY <2>6, GotoKeeps DEF GoesToFault, TypeInv, WorkAt
    <3> QED BY <3>1
  <2>7. CASE CoreGoesToFault
    <3>1. CASE work.cmd = "GoToFault"
      <4>1. work'.pc = "handle" /\ work'.cmd = work.cmd
        BY <2>7, <3>1, GotoKeeps DEF CoreGoesToFault, TypeInv, WorkAt
      <4> QED BY <3>1, <4>1
    <3>2. CASE work.cmd # "GoToFault"
      <4>1. work'.pc = "end"
        BY <2>7, <3>2, GotoKeeps DEF CoreGoesToFault, TypeInv, WorkAt
      <4> QED BY <4>1
    <3> QED BY <3>1, <3>2
  <2>8. CASE HandleFault
    <3>1. work'.pc = "end"
      BY <2>8, GotoKeeps DEF HandleFault, TypeInv, WorkAt
    <3> QED BY <3>1
  <2>9. CASE End
    <3>1. work'.pc = "idle"
      BY <2>9 DEF End, NoWork
    <3> QED BY <3>1
  <2> QED BY <1>3, <2>1, <2>2, <2>3, <2>4, <2>5, <2>6, <2>7, <2>8, <2>9, <2>10 DEF Worker
<1>4. ASSUME NEW a \in Aborters, Aborter(a) \/ AbortMonitorStops(a) PROVE Telling'
  <2>1. UNCHANGED work
    BY <1>4 DEF Aborter, AbortMonitorStops, AbortCall, AbortPush, AbortComplete, AbortFails, AbortCoreFails
  <2>2. obs' = obs \/ obs' \in Off \/ obs = "SCANNING"
    <3>1. CASE AbortPush(a)
      BY <3>1, AbortTells DEF AbortPush
    <3>2. CASE AbortComplete(a)
      BY <3>2, AbortTells DEF AbortComplete, Off
    <3>3. CASE AbortFails(a)
      BY <1>o, <3>3, CallTriggers DEF AbortFails, Off
    <3>4. CASE AbortMonitorStops(a) \/ AbortCall(a) \/ AbortCoreFails(a)
      BY <3>4 DEF AbortMonitorStops, AbortCall, AbortCoreFails
    <3> QED BY <1>4, <3>1, <3>2, <3>3, <3>4 DEF Aborter
  <2>3. obs \in Off => obs' \in Off
    BY <2>2 DEF Off
  <2> QED BY <2>1, <2>2, <2>3, TellingKept
<1>5. CASE StartCommunicating \/ StopCommunicating \/ SetSimulationMode
  BY <1>5 DEF StartCommunicating, StopCommunicating, SetSimulationMode, Telling
<1>6. CASE Restart
  BY <1>6 DEF Restart, NoWork, Telling
<1> QED BY <1>1, <1>2, <1>3, <1>4, <1>5, <1>6 DEF Next

Underway == Queued \cup Working \cup Aborting

(* Where no trigger has been told, or none that makes a difference, clients *)
(* see the state of the machine.                                           *)
Between == {"RESOURCING_EMPTY", "RESOURCING_IDLE", "CONFIGURING_READY"}
TakesTwo == {"ConfigureBeam", "DeconfigureBeam", "ConfigureScan"}

LEMMA ObsStateIs ==
  /\ work.pc # "complete" \/ obs \notin Between \/ work.cmd \notin TakesTwo => ObsState = obs
  /\ work'.pc # "complete" \/ obs' \notin Between \/ work'.cmd \notin TakesTwo => ObsState' = obs'
  BY DEF ObsState, At, Between, TakesTwo

LEMMA ObsStateIsState == TypeInv => ObsState \in States
  BY DEF ObsState, TypeInv, TypeOK, States

LEMMA WorkingIs ==
  /\ work.pc \in {"call", "monitor", "stopped", "push", "fault"} => Working = {work.cmd}
  /\ work.pc \in {"idle", "end", "raised"} => Working = {}
  /\ work.pc = "complete" =>
       Working = IF work.cmd \in {"DeconfigureScan", "Scan", "EndScan"} THEN {} ELSE {work.cmd}
  /\ work.pc \in {"core fault", "handle"} => Working = IF work.cmd = "GoToFault" THEN {work.cmd} ELSE {}
  BY DEF Working

LEMMA WorkingNext ==
  /\ work'.pc \in {"call", "monitor", "stopped", "push", "fault"} => Working' = {work'.cmd}
  /\ work'.pc \in {"idle", "end", "raised"} => Working' = {}
  /\ work'.pc = "complete" =>
       Working' = IF work'.cmd \in {"DeconfigureScan", "Scan", "EndScan"} THEN {} ELSE {work'.cmd}
  /\ work'.pc \in {"core fault", "handle"} => Working' = IF work'.cmd = "GoToFault" THEN {work'.cmd} ELSE {}
  BY DEF Working

LEMMA QueuedAppended ==
  ASSUME TypeInv, NEW t \in Tasks, queue' = Append(queue, t)
  PROVE  Queued' = Queued \cup {t.cmd}
<1>1. queue \in Seq(Tasks) /\ Len(queue) \in Nat
  BY DEF TypeInv, TypeOK
<1>2. DOMAIN queue = 1 .. Len(queue) /\ DOMAIN queue' = 1 .. (Len(queue) + 1)
  BY <1>1
<1>3. /\ \A i \in 1 .. Len(queue) : queue'[i] = queue[i]
      /\ queue'[Len(queue) + 1] = t
  BY <1>1
<1>4. 1 .. (Len(queue) + 1) = (1 .. Len(queue)) \cup {Len(queue) + 1}
  BY <1>1
<1> QED BY <1>2, <1>3, <1>4 DEF Queued

LEMMA QueuedTaken ==
  ASSUME TypeInv, queue # <<>>, queue' = Tail(queue)
  PROVE  Queued = Queued' \cup {Head(queue).cmd}
<1>1. queue \in Seq(Tasks) /\ Len(queue) \in Nat \ {0}
  BY DEF TypeInv, TypeOK
<1>2. DOMAIN queue = 1 .. Len(queue) /\ DOMAIN queue' = 1 .. (Len(queue) - 1)
  BY <1>1
<1>3. Head(queue) = queue[1] /\ \A i \in 1 .. (Len(queue) - 1) : queue'[i] = queue[i + 1]
  BY <1>1
<1>4. ASSUME NEW c \in Queued PROVE c \in Queued' \cup {Head(queue).cmd}
  <2>1. PICK i \in 1 .. Len(queue) : c = queue[i].cmd
    BY <1>2 DEF Queued
  <2>2. CASE i = 1
    BY <1>3, <2>1, <2>2
  <2>3. CASE i # 1
    <3>1. i - 1 \in 1 .. (Len(queue) - 1) /\ (i - 1) + 1 = i
      BY <1>1, <2>3
    <3>2. queue'[i - 1] = queue[i]
      BY <1>3, <3>1
    <3> QED BY <1>2, <2>1, <3>1, <3>2 DEF Queued
  <2> QED BY <2>2, <2>3
<1>5. ASSUME NEW c \in Queued' \cup {Head(queue).cmd} PROVE c \in Queued
  <2>1. CASE c = Head(queue).cmd
    <3>1. 1 \in 1 .. Len(queue)
      BY <1>1
    <3> QED BY <1>2, <1>3, <2>1, <3>1 DEF Queued
  <2>2. CASE c \in Queued'
    <3>1. PICK i \in 1 .. (Len(queue) - 1) : c = queue'[i].cmd
      BY <1>2, <2>2 DEF Queued
    <3>2. i + 1 \in 1 .. Len(queue)
      BY <1>1
    <3> QED BY <1>2, <1>3, <3>1, <3>2 DEF Queued
  <2> QED BY <1>5, <2>1, <2>2
<1> QED BY <1>4, <1>5

(* The steps of the abstract specification *)
LEMMA SeenCalls ==
  ASSUME NEW c \in ClientCommands, Seen!Taken(ObsState, c), ObsState' = Seen!Invoked(ObsState, c),
         Underway' = Underway \cup {c}
  PROVE  Seen!Next
<1>1. c \in Seen!Commands
  BY ClientCommandsAre DEF Seen!Commands
<1> QED BY <1>1 DEF Underway, Seen!Next, Seen!Call

LEMMA SeenEnds ==
  ASSUME NEW c \in ClientCommands, ObsState \in States, c \in Underway, Underway' \cup {c} = Underway,
         ObsState' \in {ObsState, Effect(ObsState, c), "FAULT"}
  PROVE  Seen!Next
<1>1. c \in Seen!Commands /\ c # "ValidateConfigureScan"
  BY ClientCommandsAre DEF Seen!Commands
<1>2. Underway' \in {Underway \ {c}, Underway}
  OBVIOUS
<1>3. Seen!Ends(c)
  BY <1>2 DEF Seen!Ends, Underway
<1>4. ObsState' = Seen!Completed(ObsState, c).state \/ ObsState' = "FAULT" \/ UNCHANGED ObsState
  BY EffectIs
<1> QED BY <1>1, <1>3, <1>4 DEF Seen!Next, Seen!Succeed, Seen!Fail, Seen!Reject

LEMMA SeenStays ==
  ASSUME ObsState' = ObsState, Underway' = Underway
  PROVE  UNCHANGED Seen!vars
  BY DEF Underway, Seen!vars

LEMMA TakenIs ==
  ASSUME NEW s \in States, NEW c \in Commands, NEW t \in States, Begins(s, c, t)
  PROVE  Seen!Taken(s, c) /\ Seen!Invoked(s, c) = t
<1> USE SeenMachine, CallTriggers DEF Begins, Seen!Taken, Seen!Invoked
<1>1. CASE c = "ConfigureBeam"
  BY <1>1
<1>2. CASE c = "DeconfigureBeam"
  BY <1>2
<1>3. CASE c = "ConfigureScan"
  BY <1>3
<1>4. CASE c = "ObsReset"
  BY <1>4
<1>5. CASE c \in {"DeconfigureScan", "Scan"}
  BY <1>5
<1>6. CASE c = "EndScan"
  BY <1>6
<1> QED BY <1>1, <1>2, <1>3, <1>4, <1>5, <1>6, CommandsAre

(* A command the worker has is at work no more, or still is.               *)
LEMMA WorkerEnds ==
  ASSUME TypeInv, UNCHANGED <<queue, aborts>>, Working = {work.cmd}, work.cmd \in AnyCommand,
         Working' \in {{}, {work.cmd}}, ObsState' \in {ObsState, Effect(ObsState, work.cmd), "FAULT"}
  PROVE  Seen!Next
<1>1. Queued' = Queued /\ Aborting' = Aborting
  BY DEF Queued, Aborting
<1>2. work.cmd \in ClientCommands
  BY DEF ClientCommands
<1>3. work.cmd \in Underway /\ Underway' \cup {work.cmd} = Underway
  BY <1>1 DEF Underway
<1>4. ObsState \in States
  BY ObsStateIsState
<1> QED BY <1>2, <1>3, <1>4, SeenEnds

LEMMA WorkerStays ==
  ASSUME UNCHANGED <<queue, aborts>>, Working' = Working, ObsState' = ObsState
  PROVE  UNCHANGED Seen!vars
<1>1. Queued' = Queued /\ Aborting' = Aborting
  BY DEF Queued, Aborting
<1>2. Underway' = Underway
  BY <1>1 DEF Underway
<1> QED BY <1>2, SeenStays

AtAbort == {"monitor", "call", "push", "complete", "fault"}

LEMMA AborterMoves ==
  ASSUME TypeInv, NEW a \in Aborters, NEW pc, AbortGoto(a, pc)
  PROVE  /\ pc \in AtAbort => Aborting' = {"Abort"}
         /\ aborts[a] \in AtAbort => Aborting = {"Abort"}
         /\ pc \notin AtAbort /\ aborts[a] \notin AtAbort => Aborting' = Aborting
         /\ Aborting' \in {{}, {"Abort"}}
<1>1. /\ aborts \in [Aborters -> AbortAt] /\ aborts'[a] = pc
      /\ \A b \in Aborters \ {a} : aborts'[b] = aborts[b]
  BY DEF TypeInv, TypeOK, AbortGoto
<1> QED BY <1>1 DEF Aborting, AtAbort

LEMMA AborterEnds ==
  ASSUME TypeInv, NEW a \in Aborters, NEW pc, UNCHANGED <<queue, work>>, AbortGoto(a, pc), aborts[a] \in AtAbort,
         ObsState' \in {ObsState, Effect(ObsState, "Abort"), "FAULT"}
  PROVE  Seen!Next
<1>1. Queued' = Queued /\ Working' = Working
  BY DEF Queued, Working
<1>2. Aborting = {"Abort"} /\ Aborting' \in {{}, {"Abort"}}
  BY AborterMoves
<1>3. "Abort" \in Underway /\ Underway' \cup {"Abort"} = Underway
  BY <1>1, <1>2 DEF Underway
<1>4. ObsState \in States /\ "Abort" \in ClientCommands
  BY ObsStateIsState DEF ClientCommands
<1> QED BY <1>3, <1>4, SeenEnds

LEMMA SeenCommand ==
  ASSUME TypeInv, Telling, Command
  PROVE  Seen!Next
<1>o. obs \in States
  BY DEF TypeInv, TypeOK
<1>w. UNCHANGED work /\ Working' = Working
  BY DEF Command, CallConfigureBeam, CallOther, Call, CallGoToFault, CallAbort, Working
<1>1. ASSUME NEW c \in Commands, NEW conf \in Given, Call(c, conf) PROVE Seen!Next
  <2>1. Begins(obs, c, obs') /\ obs' \in States
    BY <1>1, InvokedIs DEF Call
  <2>2. obs \in {"EMPTY", "IDLE", "READY", "SCANNING", "ABORTED", "FAULT"}
    BY <2>1, CommandsAre DEF Begins
  <2>3. obs \notin Between
    BY <2>2 DEF Between
  <2>4. work.pc # "complete" \/ work.cmd \notin TakesTwo \/ obs' \notin Between
    <3>1. CASE work.pc = "complete" /\ work.cmd \in TakesTwo
      <4>1. obs \in Off
        BY <2>3, <3>1 DEF Telling, TakesTwo, Between, Off
      <4>2. obs' = "RESETTING"
        BY <2>1, <4>1, CommandsAre DEF Begins, Off
      <4> QED BY <4>2 DEF Between
    <3> QED BY <3>1
  <2>5. ObsState = obs /\ ObsState' = obs'
    BY <1>w, <2>3, <2>4, ObsStateIs
  <2>6. Task(c, conf) \in Tasks /\ Task(c, conf).cmd = c /\ queue' = Append(queue, Task(c, conf))
    BY <1>1, TasksAre DEF Call, Task
  <2>7. Queued' = Queued \cup {c}
    BY <2>6, QueuedAppended
  <2>8. Aborting' = Aborting
    BY <1>1 DEF Call, Aborting
  <2>9. Underway' = Underway \cup {c} /\ c \in ClientCommands
    BY <1>w, <2>7, <2>8 DEF Underway, ClientCommands, AnyCommand
  <2>10. Seen!Taken(ObsState, c) /\ ObsState' = Seen!Invoked(ObsState, c)
    BY <1>o, <2>1, <2>5, TakenIs
  <2> QED BY <2>9, <2>10, SeenCalls
<1>2. CASE CallGoToFault
  <2>1. obs' = obs /\ UNCHANGED <<work, aborts>>
    BY <1>2 DEF CallGoToFault
  <2>2. ObsState' = ObsState /\ Aborting' = Aborting
    BY <2>1 DEF ObsState, At, Aborting
  <2>3. None \in Given /\ "GoToFault" \in Commands \cup {"GoToFault"}
    BY DEF Given
  <2>4. Task("GoToFault", None) \in Tasks /\ Task("GoToFault", None).cmd = "GoToFault"
        /\ queue' = Append(queue, Task("GoToFault", None))
    BY <1>2, <2>3, TasksAre DEF CallGoToFault, Task
  <2>5. Queued' = Queued \cup {"GoToFault"}
    BY <2>4, QueuedAppended
  <2>6. Underway' = Underway \cup {"GoToFault"} /\ "GoToFault" \in ClientCommands
    BY <1>w, <2>2, <2>5 DEF Underway, ClientCommands, AnyCommand
  <2>7. Seen!Taken(ObsState, "GoToFault") /\ Seen!Invoked(ObsState, "GoToFault") = ObsState
    BY DEF Seen!Taken, Seen!Invoked
  <2> QED BY <2>2, <2>6, <2>7, SeenCalls
<1>3. CASE CallAbort
  <2>1. obs \in Abortable /\ obs' = "ABORTING" /\ UNCHANGED queue
    BY <1>3, CallTriggers DEF CallAbort
  <2>2. ObsState \in Abortable
    <3>1. CASE ObsState = obs
      BY <2>1, <3>1
    <3>2. CASE ObsState # obs
      BY <2>1, <3>2 DEF ObsState, Abortable
    <3> QED BY <3>1, <3>2
  <2>3. ObsState' = "ABORTING"
    BY <2>1, ObsStateIs DEF Between
  <2>4. PICK a \in Aborters : aborts[a] = "none" /\ AbortGoto(a, IF sim THEN "push" ELSE "monitor")
    BY <1>3 DEF CallAbort
  <2>5. Aborting' = {"Abort"} /\ Aborting \subseteq {"Abort"}
    <3>1. (IF sim THEN "push" ELSE "monitor") \in AtAbort
      BY DEF AtAbort
    <3>2. Aborting' = {"Abort"}
      BY <2>4, <3>1, AborterMoves
    <3> QED BY <3>2 DEF Aborting
  <2>6. Queued' = Queued
    BY <2>1 DEF Queued
  <2>7. Underway' = Underway \cup {"Abort"} /\ "Abort" \in ClientCommands
    BY <1>w, <2>5, <2>6 DEF Underway, ClientCommands
  <2>8. Seen!Taken(ObsState, "Abort")
    BY <2>2, SeenMachine DEF Seen!Taken
  <2>9. Seen!Invoked(ObsState, "Abort") = "ABORTING"
    BY <2>2, CallTriggers, SeenMachine DEF Seen!Invoked
  <2> QED BY <2>3, <2>7, <2>8, <2>9, SeenCalls
<1>4. "ConfigureBeam" \in Commands /\ Configurations \cup {"bad"} \subseteq Given /\ None \in Given
  BY CommandsAre DEF Given
<1>5. CASE CallConfigureBeam
  <2>1. PICK conf \in Configurations \cup (IF kind = "RECV" THEN {"bad"} ELSE {}) : Call("ConfigureBeam", conf)
    BY <1>5 DEF CallConfigureBeam
  <2> QED BY <1>1, <1>4, <2>1
<1>6. CASE CallOther
  BY <1>1, <1>4, <1>6 DEF CallOther
<1> QED BY <1>2, <1>3, <1>5, <1>6 DEF Command

LEMMA SeenTake ==
  ASSUME TypeInv, Take
  PROVE  [Seen!Next]_(Seen!vars)
<1>1. /\ work.pc = "idle" /\ queue # <<>> /\ queue' = Tail(queue) /\ UNCHANGED <<obs, aborts>>
      /\ work'.cmd = Head(queue).cmd
      /\ work'.pc \in {"call", "fault", "raised"}
  BY DEF Take, At
<1>2. ObsState' = ObsState
  BY <1>1, ObsStateIs
<1>3. Aborting' = Aborting /\ Working = {}
  BY <1>1, WorkingIs DEF Aborting
<1>4. Queued = Queued' \cup {work'.cmd}
  BY <1>1, QueuedTaken
<1>5. Head(queue) \in Tasks
  BY <1>1 DEF TypeInv, TypeOK
<1>6. work'.cmd \in ClientCommands
  BY <1>1, <1>5, TasksAre DEF ClientCommands, AnyCommand
<1>7. CASE work'.pc # "raised"
  <2>1. Working' = {work'.cmd}
    BY <1>1, <1>7, WorkingNext
  <2>2. Underway' = Underway
    BY <1>3, <1>4, <2>1 DEF Underway
  <2> QED BY <1>2, <2>2, SeenStays
<1>8. CASE work'.pc = "raised"
  <2>1. Working' = {}
    BY <1>8, WorkingNext
  <2> DEFINE c == work'.cmd
  <2>2. c \in Underway /\ Underway' \cup {c} = Underway
    BY <1>3, <1>4, <2>1 DEF Underway
  <2>3. c \in ClientCommands /\ ObsState \in States
    BY <1>6, ObsStateIsState
  <2> HIDE DEF c
  <2> QED BY <1>2, <2>2, <2>3, SeenEnds
<1> QED BY <1>7, <1>8

LEMMA SeenPush ==
  ASSUME TypeInv, Push
  PROVE  [Seen!Next]_(Seen!vars)
<1>1. work.pc = "push" /\ work.cmd \in Commands /\ UNCHANGED <<queue, aborts>>
  BY DEF Push, At, TypeInv, JobInv
<1> DEFINE told == ToldOf(obs, work.cmd)
<1>2. obs' = told.state /\ Goto(IF told.ok THEN "complete" ELSE "raised")
  BY <1>1, ToldIs DEF Push
<1>3. ObsState = obs /\ Working = {work.cmd} /\ work.cmd \in AnyCommand
  BY <1>1, ObsStateIs, WorkingIs DEF AnyCommand
<1>4. \A s : From(s).state = s /\ Refused(s).state = s /\ From(s).ok = TRUE /\ Refused(s).ok = FALSE
  BY Outcomes
<1>5. CASE ~told.ok
  <2>1. work'.pc = "raised" /\ work'.cmd = work.cmd
    BY <1>2, <1>5, GotoKeeps DEF TypeInv, WorkAt
  <2>2. ObsState' = obs' /\ Working' = {}
    BY <2>1, ObsStateIs, WorkingNext
  <2>3. told = Refused(obs) \/ (work.cmd = "ObsReset" /\ obs = "READY" /\ told = Refused("IDLE"))
    BY <1>1, <1>4, <1>5, CommandsAre DEF ToldOf
  <2> HIDE DEF told
  <2>4. obs' = obs \/ (work.cmd = "ObsReset" /\ obs = "READY" /\ obs' = "IDLE")
    BY <1>2, <1>4, <2>3
  <2>5. obs' \in {obs, Effect(obs, work.cmd)}
    BY <2>4 DEF Effect
  <2> QED BY <1>1, <1>3, <2>2, <2>5, WorkerEnds
<1>6. CASE told.ok
  <2>1. work'.pc = "complete" /\ work'.cmd = work.cmd
    BY <1>2, <1>6, GotoKeeps DEF TypeInv, WorkAt
  <2>2. CASE work.cmd \in {"DeconfigureScan", "Scan", "EndScan"}
    <3>1. Working' = {}
      BY <2>1, <2>2, WorkingNext
    <3>2. work'.cmd \notin TakesTwo
      BY <2>1, <2>2 DEF TakesTwo
    <3>3. ObsState' = obs'
      BY <3>2, ObsStateIs
    <3>4. \E m : told = From(m) /\ (m = obs \/ m = Effect(obs, work.cmd))
      BY <1>4, <1>6, <2>2 DEF ToldOf, Effect
    <3> HIDE DEF told
    <3>5. obs' \in {obs, Effect(obs, work.cmd)}
      BY <1>2, <1>4, <3>4
    <3> QED BY <1>1, <1>3, <3>1, <3>3, <3>5, WorkerEnds
  <2>3. CASE work.cmd \notin {"DeconfigureScan", "Scan", "EndScan"}
    <3>1. Working' = Working
      BY <1>3, <2>1, <2>3, WorkingNext
    <3>2. \/ work.cmd = "ConfigureBeam" /\ obs = "RESOURCING_EMPTY" /\ told = From("RESOURCING_IDLE")
          \/ work.cmd = "DeconfigureBeam" /\ obs = "RESOURCING_IDLE" /\ told = From("RESOURCING_EMPTY")
          \/ work.cmd = "DeconfigureBeam" /\ obs = "RESETTING" /\ told = From(obs)
          \/ work.cmd = "ConfigureScan" /\ obs = "CONFIGURING_IDLE" /\ told = From("CONFIGURING_READY")
          \/ work.cmd = "ConfigureScan" /\ obs = "ABORTING" /\ told = From(obs)
          \/ work.cmd = "ObsReset" /\ obs = "RESETTING" /\ told = From(obs)
      BY <1>1, <1>4, <1>6, <2>3, CommandsAre DEF ToldOf
    <3> HIDE DEF told
    <3>3. \/ work.cmd = "ConfigureBeam" /\ obs = "RESOURCING_EMPTY" /\ obs' = "RESOURCING_IDLE"
          \/ work.cmd = "DeconfigureBeam" /\ obs = "RESOURCING_IDLE" /\ obs' = "RESOURCING_EMPTY"
          \/ work.cmd = "ConfigureScan" /\ obs = "CONFIGURING_IDLE" /\ obs' = "CONFIGURING_READY"
          \/ obs' = obs /\ obs \in {"RESETTING", "ABORTING"}
      BY <1>2, <1>4, <3>2
    <3>4. ObsState' = ObsState
      BY <1>3, <2>1, <3>3 DEF ObsState, At
    <3> QED BY <1>1, <3>1, <3>4, WorkerStays
  <2> QED BY <2>2, <2>3
<1> QED BY <1>5, <1>6

LEMMA SeenComplete ==
  ASSUME TypeInv, Telling, Complete
  PROVE  [Seen!Next]_(Seen!vars)
<1>1. work.pc = "complete" /\ work.cmd \in Commands /\ UNCHANGED <<queue, aborts>>
  BY DEF Complete, At, TypeInv, JobInv
<1> DEFINE done == CompletedOf(obs, work.cmd)
<1>2. obs' = done.state /\ Goto(IF done.ok THEN "end" ELSE "raised")
  BY <1>1, CompletedIs DEF Complete
<1>3. work'.pc \in {"end", "raised"}
  BY <1>2, GotoKeeps DEF TypeInv, WorkAt
<1>4. ObsState' = obs' /\ Working' = {}
  BY <1>3, ObsStateIs, WorkingNext
<1>5. \A s : From(s).state = s /\ Refused(s).state = s
  BY Outcomes
<1>6. CASE work.cmd \in {"DeconfigureScan", "Scan", "EndScan"}
  <2>1. Working = {} /\ work.cmd \notin TakesTwo
    BY <1>1, <1>6, WorkingIs DEF TakesTwo
  <2>2. ObsState = obs
    BY <2>1, ObsStateIs
  <2>3. done = From(obs)
    BY <1>6 DEF CompletedOf
  <2> HIDE DEF done
  <2>4. obs' = obs
    BY <1>2, <1>5, <2>3
  <2> QED BY <1>1, <1>4, <2>1, <2>2, <2>4, WorkerStays
<1>7. CASE work.cmd \notin {"DeconfigureScan", "Scan", "EndScan"}
  <2>1. Working = {work.cmd} /\ work.cmd \in AnyCommand
    BY <1>1, <1>7, WorkingIs DEF AnyCommand
  <2>2. obs' \in {ObsState, Effect(ObsState, work.cmd)}
    <3>1. CASE work.cmd = "ConfigureBeam"
      <4>1. obs \in Off \cup {"RESOURCING_IDLE"}
        BY <1>1, <3>1 DEF Telling
      <4>2. done = IF obs = "RESOURCING_IDLE" THEN From("IDLE") ELSE Refused(obs)
        BY <3>1, <4>1 DEF CompletedOf, Off
      <4> HIDE DEF done
      <4>3. obs' = IF obs = "RESOURCING_IDLE" THEN "IDLE" ELSE obs
        BY <1>2, <1>5, <4>2
      <4> QED BY <1>1, <3>1, <4>1, <4>3 DEF ObsState, At, Effect, Off
    <3>2. CASE work.cmd = "DeconfigureBeam"
      <4>1. obs \in Off \cup {"RESOURCING_EMPTY"}
        BY <1>1, <3>2 DEF Telling
      <4>2. done = IF obs = "RESOURCING_EMPTY" THEN From("EMPTY") ELSE Refused(obs)
        BY <3>2, <4>1 DEF CompletedOf, Off
      <4> HIDE DEF done
      <4>3. obs' = IF obs = "RESOURCING_EMPTY" THEN "EMPTY" ELSE obs
        BY <1>2, <1>5, <4>2
      <4> QED BY <1>1, <3>2, <4>1, <4>3 DEF ObsState, At, Effect, Off
    <3>3. CASE work.cmd = "ConfigureScan"
      <4>1. obs \in Off \cup {"CONFIGURING_READY"}
        BY <1>1, <3>3 DEF Telling
      <4>2. done = IF obs = "CONFIGURING_READY" THEN From("READY") ELSE Refused(obs)
        BY <3>3, <4>1 DEF CompletedOf, Off
      <4> HIDE DEF done
      <4>3. obs' = IF obs = "CONFIGURING_READY" THEN "READY" ELSE obs
        BY <1>2, <1>5, <4>2
      <4> QED BY <1>1, <3>3, <4>1, <4>3 DEF ObsState, At, Effect, Off
    <3>4. CASE work.cmd = "ObsReset"
      <4>1. obs \in Off
        BY <1>1, <3>4 DEF Telling
      <4>2. done = IF obs = "RESETTING" THEN From("EMPTY") ELSE Refused(obs)
        BY <3>4 DEF CompletedOf
      <4> HIDE DEF done
      <4>3. obs' = IF obs = "RESETTING" THEN "EMPTY" ELSE obs
        BY <1>2, <1>5, <4>2
      <4> QED BY <1>1, <3>4, <4>1, <4>3 DEF ObsState, At, Effect, Off
    <3> QED BY <1>1, <1>7, <3>1, <3>2, <3>3, <3>4, CommandsAre
  <2> QED BY <1>1, <1>4, <2>1, <2>2, WorkerEnds
<1> QED BY <1>6, <1>7

LEMMA SeenWorker ==
  ASSUME TypeInv, Telling, Worker \/ MonitorStops
  PROVE  [Seen!Next]_(Seen!vars)
<1>o. obs \in States /\ TypeOK
  BY DEF TypeInv, TypeOK
<1>1. CASE SimulatedCall
  <2>1. work.pc = "call" /\ Goto("push") /\ UNCHANGED <<obs, queue, aborts>>
    BY <1>1 DEF SimulatedCall, At
  <2>2. work'.pc = "push" /\ work'.cmd = work.cmd
    BY <1>o, <2>1, GotoKeeps DEF WorkAt
  <2>3. Working' = Working /\ ObsState' = ObsState
    BY <2>1, <2>2, WorkingIs, WorkingNext, ObsStateIs
  <2> QED BY <2>1, <2>3, WorkerStays
<1>7. CASE StopMonitoring \/ MonitorStops
  <2>1. PICK pc \in {"monitor", "stopped"} : Goto(pc)
    BY <1>7 DEF StopMonitoring, MonitorStops
  <2>2. work.pc \in {"call", "monitor"} /\ UNCHANGED <<obs, queue, aborts>>
    BY <1>7 DEF StopMonitoring, MonitorStops, At
  <2>3. work'.pc = pc /\ work'.cmd = work.cmd
    BY <1>o, <2>1, GotoKeeps DEF WorkAt
  <2>4. Working' = Working /\ ObsState' = ObsState
    BY <2>2, <2>3, WorkingIs, WorkingNext, ObsStateIs
  <2> QED BY <2>2, <2>4, WorkerStays
<1>2. CASE CoreCall
  <2>1. work.pc \in {"call", "stopped"} /\ work.cmd \in AnyCommand /\ UNCHANGED <<obs, queue, aborts>>
    BY <1>2 DEF CoreCall, At, TypeInv, JobInv, AnyCommand
  <2>2. PICK pc \in {"push", "end", "fault"} : Goto(pc)
    BY <1>2 DEF CoreCall
  <2>3. work'.pc = pc /\ work'.cmd = work.cmd
    BY <1>o, <2>2, GotoKeeps DEF WorkAt
  <2>4. ObsState' = ObsState /\ Working = {work.cmd}
    BY <2>1, <2>3, WorkingIs, ObsStateIs
  <2>5. CASE pc # "end"
    <3>1. Working' = Working
      BY <2>3, <2>4, <2>5, WorkingNext
    <3> QED BY <2>1, <2>4, <3>1, WorkerStays
  <2>6. CASE pc = "end"
    <3>1. Working' = {}
      BY <2>3, <2>6, WorkingNext
    <3> QED BY <2>1, <2>4, <3>1, WorkerEnds
  <2> QED BY <2>5, <2>6
<1>3. CASE GoesToFault
  <2>1. work.pc = "fault" /\ Goto("core fault") /\ obs' = "FAULT" /\ UNCHANGED <<queue, aborts>>
    BY <1>o, <1>3, CallTriggers DEF GoesToFault, At
  <2>2. work'.pc = "core fault" /\ work'.cmd = work.cmd
    BY <1>o, <2>1, GotoKeeps DEF WorkAt
  <2>3. Working = {work.cmd} /\ Working' \in {{}, {work.cmd}} /\ ObsState' = "FAULT"
    BY <2>1, <2>2, WorkingIs, WorkingNext, ObsStateIs
  <2>4. work.cmd \in AnyCommand
    BY <2>1 DEF Telling
  <2> QED BY <2>1, <2>3, <2>4, WorkerEnds
<1>4. CASE CoreGoesToFault
  <2>1. work.pc = "core fault" /\ Goto(IF work.cmd = "GoToFault" THEN "handle" ELSE "end")
        /\ UNCHANGED <<obs, queue, aborts>>
    BY <1>4 DEF CoreGoesToFault, At
  <2>2. work'.pc = (IF work.cmd = "GoToFault" THEN "handle" ELSE "end") /\ work'.cmd = work.cmd
    BY <1>o, <2>1, GotoKeeps DEF WorkAt
  <2>3. Working' = Working
    BY <2>1, <2>2, WorkingIs, WorkingNext
  <2>4. ObsState' = ObsState
    BY <2>1, <2>2, ObsStateIs
  <2> QED BY <2>1, <2>3, <2>4, WorkerStays
<1>5. CASE HandleFault
  <2>1. work.pc = "handle" /\ Goto("end") /\ obs' = "FAULT" /\ UNCHANGED <<queue, aborts>>
    BY <1>o, <1>5, CallTriggers DEF HandleFault, At
  <2>2. work'.pc = "end"
    BY <1>o, <2>1, GotoKeeps DEF WorkAt
  <2>3. work.cmd = "GoToFault"
    BY <2>1 DEF Telling
  <2>4. Working = {work.cmd} /\ Working' = {} /\ ObsState' = "FAULT"
    BY <2>1, <2>2, <2>3, WorkingIs, WorkingNext, ObsStateIs
  <2> QED BY <2>1, <2>3, <2>4, WorkerEnds DEF AnyCommand
<1>6. CASE End
  <2>1. work.pc \in {"end", "raised"} /\ work'.pc = "idle" /\ UNCHANGED <<obs, queue, aborts>>
    BY <1>6 DEF End, At, NoWork
  <2>2. Working' = Working /\ ObsState' = ObsState
    BY <2>1, WorkingIs, WorkingNext, ObsStateIs
  <2> QED BY <2>1, <2>2, WorkerStays
<1> QED BY <1>1, <1>2, <1>3, <1>4, <1>5, <1>6, <1>7, SeenTake, SeenPush, SeenComplete DEF Worker

LEMMA SeenAborter ==
  ASSUME TypeInv, Telling, NEW a \in Aborters, Aborter(a) \/ AbortMonitorStops(a)
  PROVE  [Seen!Next]_(Seen!vars)
<1>o. obs \in States /\ "Abort" \in ClientCommands
  BY DEF TypeInv, TypeOK, ClientCommands
<1>w. UNCHANGED <<queue, work>>
  BY DEF Aborter, AbortMonitorStops, AbortCall, AbortPush, AbortComplete, AbortFails, AbortCoreFails
<1>k. Queued' = Queued /\ Working' = Working
  BY <1>w DEF Queued, Working
<1>s. obs' = obs => ObsState' = ObsState
  BY <1>w DEF ObsState, At
<1>1. CASE AbortCall(a)
  <2>1. aborts[a] = "call" /\ obs' = obs /\ \E pc \in {"push", "fault"} : AbortGoto(a, pc)
    BY <1>1 DEF AbortCall, AbortAtPc
  <2>2. Aborting' = Aborting
    BY <2>1, AborterMoves DEF AtAbort
  <2> QED BY <1>k, <1>s, <2>1, <2>2, SeenStays DEF Underway
<1>2. CASE AbortPush(a)
  <2>1. aborts[a] \in AtAbort /\ \E pc : AbortGoto(a, pc)
    BY <1>2 DEF AbortPush, AbortAtPc, AtAbort
  <2>2. obs' = IF obs = "SCANNING" THEN "READY" ELSE obs
    BY <1>2, AbortTells DEF AbortPush
  <2>3. ObsState' \in {ObsState, Effect(ObsState, "Abort")}
    <3>1. CASE obs = "SCANNING"
      <4>1. ObsState = obs /\ ObsState' = "READY"
        BY <2>2, <3>1, ObsStateIs DEF Between
      <4> QED BY <3>1, <4>1 DEF Effect
    <3> QED BY <1>s, <2>2, <3>1
  <2> QED BY <1>w, <2>1, <2>3, AborterEnds
<1>3. CASE AbortComplete(a)
  <2>1. aborts[a] \in AtAbort /\ \E pc : AbortGoto(a, pc)
    BY <1>3 DEF AbortComplete, AbortAtPc, AtAbort
  <2>2. obs' = IF obs = "ABORTING" THEN "ABORTED" ELSE obs
    BY <1>3, AbortTells DEF AbortComplete
  <2>3. ObsState' \in {ObsState, Effect(ObsState, "Abort")}
    <3>1. CASE obs = "ABORTING"
      <4>1. ObsState = obs /\ ObsState' = "ABORTED"
        BY <2>2, <3>1, ObsStateIs DEF Between
      <4> QED BY <3>1, <4>1 DEF Effect
    <3> QED BY <1>s, <2>2, <3>1
  <2> QED BY <1>w, <2>1, <2>3, AborterEnds
<1>4. CASE AbortFails(a)
  <2>1. aborts[a] \in AtAbort /\ \E pc : AbortGoto(a, pc)
    BY <1>4 DEF AbortFails, AbortAtPc, AtAbort
  <2>2. obs' = "FAULT"
    BY <1>o, <1>4, CallTriggers DEF AbortFails
  <2>3. ObsState' = "FAULT"
    BY <2>2, ObsStateIs DEF Between
  <2> QED BY <1>w, <2>1, <2>3, AborterEnds
<1>5. CASE AbortCoreFails(a)
  <2>1. aborts[a] = "core fault" /\ obs' = obs /\ AbortGoto(a, "none")
    BY <1>5 DEF AbortCoreFails, AbortAtPc
  <2>2. aborts[a] \notin AtAbort /\ "none" \notin AtAbort
    BY <2>1 DEF AtAbort
  <2>3. Aborting' = Aborting
    BY <2>1, <2>2, AborterMoves
  <2> QED BY <1>k, <1>s, <2>1, <2>3, SeenStays DEF Underway
<1>6. CASE AbortMonitorStops(a)
  <2>1. aborts[a] = "monitor" /\ obs' = obs /\ AbortGoto(a, "call")
    BY <1>6 DEF AbortMonitorStops, AbortAtPc
  <2>2. Aborting' = Aborting
    BY <2>1, AborterMoves DEF AtAbort
  <2> QED BY <1>k, <1>s, <2>1, <2>2, SeenStays DEF Underway
<1> QED BY <1>1, <1>2, <1>3, <1>4, <1>5, <1>6 DEF Aborter

(* Every step is one of the abstract specification, or is not seen.        *)
LEMMA SeenStep ==
  ASSUME TypeInv, Telling, [Next]_vars
  PROVE  [Seen!Next]_(Seen!vars)
<1>1. CASE UNCHANGED <<obs, queue, work, aborts>>
  BY <1>1 DEF Seen!vars, ObsState, At, Queued, Working, Aborting
<1>2. UNCHANGED vars \/ StartCommunicating \/ StopCommunicating \/ SetSimulationMode
        => UNCHANGED <<obs, queue, work, aborts>>
  BY DEF vars, StartCommunicating, StopCommunicating, SetSimulationMode
<1>3. CASE Restart
  <2>1. obs' = "EMPTY" /\ queue' = <<>> /\ work'.pc = "idle" /\ aborts' = [a \in Aborters |-> "none"]
    BY <1>3 DEF Restart, NoWork
  <2>2. ObsState' = "EMPTY" /\ Working' = {}
    BY <2>1, ObsStateIs, WorkingNext
  <2>3. Queued' = {} /\ Aborting' = {}
    BY <2>1 DEF Queued, Aborting
  <2>4. Seen!Restart
    BY <2>2, <2>3 DEF Seen!Restart
  <2> QED BY <2>4 DEF Seen!Next
<1> QED BY <1>1, <1>2, <1>3, SeenCommand, SeenWorker, SeenAborter DEF Next

LEMMA SeenInit == Init => Telling /\ Seen!Init
<1> SUFFICES ASSUME Init PROVE Telling /\ Seen!Init
  OBVIOUS
<1>1. obs = "EMPTY" /\ queue = <<>> /\ work.pc = "idle" /\ aborts = [a \in Aborters |-> "none"]
  BY DEF Init, NoWork
<1>2. ObsState = "EMPTY" /\ Working = {}
  BY <1>1, ObsStateIs, WorkingIs
<1>3. Queued = {} /\ Aborting = {}
  BY <1>1 DEF Queued, Aborting
<1> QED BY <1>1, <1>2, <1>3 DEF Telling, Seen!Init

(* To its clients a sub-device is one whose commands take effect one at a  *)
(* time, each at one moment, although it has a queue, a worker and threads *)
(* that abort, which tell the state machine one trigger after another.     *)
THEOREM SeenAsSubDevice == Spec => ImplementsSubDevice
<1>1. Init => TypeInv /\ Telling
  BY TypeInit, SeenInit
<1>2. TypeInv /\ Telling /\ [Next]_vars => TypeInv' /\ Telling'
  BY TypeStep, TellingStep
<1>3. Spec => [](TypeInv /\ Telling)
  BY <1>1, <1>2, PTL DEF Spec
<1>4. Init => Seen!Init
  BY SeenInit
<1>5. TypeInv /\ Telling /\ [Next]_vars => [Seen!Next]_(Seen!vars)
  BY SeenStep
<1> QED BY <1>3, <1>4, <1>5, PTL DEF Spec, ImplementsSubDevice, Seen!Spec

-----------------------------------------------------------------------------
(* The resources a configuration asks for, for all numbers of beams,       *)
(* channels, polarisations, bits and samples.                              *)

(* The number of a key, worked out.                                        *)
LEMMA KeyNumber ==
  ASSUME NEW beam \in Beams, NEW subband \in Subbands, NEW suffix \in {0, 2}
  PROVE  Number(Key(beam, subband, suffix)) = 256 * beam + 16 * subband + suffix
<1>1. 16 * (beam \div 16) + (beam % 16) = beam
  BY DEF Beams
<1>2. /\ Key(beam, subband, suffix)[1] = beam \div 16
      /\ Key(beam, subband, suffix)[2] = beam % 16
      /\ Key(beam, subband, suffix)[3] = subband
      /\ Key(beam, subband, suffix)[4] = suffix
  BY DEF Key
<1>3. beam \div 16 \in Int /\ beam % 16 \in Int /\ subband \in Int /\ suffix \in Int /\ beam \in Int
  BY DEF Beams, Subbands
<1> QED
  BY <1>1, <1>2, <1>3 DEF Number

(* Ring buffers of different beams, sub-bands or kinds never share a key,  *)
(* the second key that each of them uses included.                         *)
THEOREM KeysNeverClash ==
  ASSUME NEW b1 \in Beams, NEW s1 \in Subbands, NEW x1 \in {DataKeySuffix, WeightsKeySuffix},
         NEW b2 \in Beams, NEW s2 \in Subbands, NEW x2 \in {DataKeySuffix, WeightsKeySuffix}
  PROVE  KeysApart(b1, s1, x1, b2, s2, x2)
<1> DEFINE n1 == 256 * b1 + 16 * s1 + x1
           n2 == 256 * b2 + 16 * s2 + x2
<1>1. x1 \in {0, 2} /\ x2 \in {0, 2}
  BY DEF DataKeySuffix, WeightsKeySuffix
<1>2. Uses(Key(b1, s1, x1)) = {n1, n1 + 1} /\ Uses(Key(b2, s2, x2)) = {n2, n2 + 1}
  BY <1>1, KeyNumber DEF Uses
<1>3. {n1, n1 + 1} \cap {n2, n2 + 1} # {} => n1 - n2 \in {0, 1, -1}
  BY <1>1 DEF Beams, Subbands
<1>4. n1 - n2 \in {0, 1, -1} => b1 = b2 /\ s1 = s2 /\ x1 = x2
  BY <1>1 DEF Beams, Subbands
<1> QED
  BY <1>2, <1>3, <1>4 DEF KeysApart

LEMMA BandIsNat ==
  ASSUME NEW band
  PROVE  /\ FrequencyBandConfig(band).packet_nchan \in Nat \ {0}
         /\ FrequencyBandConfig(band).packets_per_buffer \in Nat
BY DEF FrequencyBandConfig, LowBandConfig, MidBandConfig, Band

(* What is a multiple is divided exactly.                                  *)
LEMMA DividesExactly ==
  ASSUME NEW k \in Int, NEW d \in Nat \ {0}
  PROVE  (k * d) \div d = k
OBVIOUS

IsRequest(r) ==
  /\ r.nchan \in Nat /\ r.npol \in Nat /\ r.nbits \in Nat
  /\ r.udp_nsamp \in Nat /\ r.wt_nsamp \in Nat \ {0}

(* The data buffer holds the samples of all channels, rounded by nothing   *)
(* when samples are whole bytes.                                           *)
LEMMA DataIsExact ==
  ASSUME NEW r, IsRequest(r), r.nbits % BitsPerByte = 0
  PROVE  BitsPerByte * DataBufferResolution(r) = r.nchan * r.npol * r.nbits * r.udp_nsamp
<1> DEFINE k == r.nbits \div 8
           m == r.nchan * r.npol
<1>1. m \in Nat /\ k \in Nat /\ r.udp_nsamp \in Nat /\ r.nbits = k * 8
  BY DEF IsRequest, BitsPerByte
<1>2. m * r.nbits = (m * k) * 8 /\ m * k \in Int
  BY <1>1
<1>3. (m * r.nbits) \div 8 = m * k
  BY <1>2, DividesExactly
<1>4. 8 * ((m * k) * r.udp_nsamp) = (m * r.nbits) * r.udp_nsamp
  BY <1>1
<1> QED
  BY <1>3, <1>4 DEF DataBufferResolution, BitsPerByte

(* A ring buffer that holds whole packets of data holds as many of         *)
(* weights, for every band and any number of packets in a sample.          *)
THEOREM BuffersHoldPackets ==
  ASSUME NEW r, NEW p \in Nat, IsRequest(r)
  PROVE  HoldsPackets(r, p)
<1> DEFINE c == Config(r).packet_nchan
           n == Config(r).packets_per_buffer
           w == WeightsPerPacket(r)
<1>1. c \in Nat \ {0} /\ n \in Nat
  BY BandIsNat DEF Config
<1>2. r.udp_nsamp \in Nat /\ r.npol \in Nat /\ r.nbits \in Nat /\ w \in Int
  BY DEF IsRequest, WeightsPerPacket
<1> SUFFICES ASSUME r.nchan = p * c, r.nbits % BitsPerByte = 0
             PROVE  /\ BitsPerByte * DataBufferSize(r) = n * p * PacketBits(r)
                    /\ WeightsBufferSize(r) = n * p * PacketWeights(r)
  BY DEF HoldsPackets
<1>3. BitsPerByte * DataBufferSize(r) = n * p * PacketBits(r)
  <2> DEFINE d == DataBufferResolution(r)
  <2>1. 8 * d = (p * c) * r.npol * r.nbits * r.udp_nsamp
    BY DataIsExact DEF BitsPerByte
  <2>2. d \in Int
    BY <1>1, <1>2 DEF DataBufferResolution, BitsPerByte
  <2>3. 8 * (n * d) = n * (8 * d)
    BY <1>1, <2>2
  <2>4. n * ((p * c) * r.npol * r.nbits * r.udp_nsamp) = n * p * (c * r.npol * r.nbits * r.udp_nsamp)
    BY <1>1, <1>2
  <2> QED
    BY <2>1, <2>3, <2>4 DEF DataBufferSize, PacketBits, BitsPerByte
<1>4. WeightsBufferSize(r) = n * p * PacketWeights(r)
  <2>1. (p * c) \div c = p
    BY <1>1, DividesExactly
  <2>2. ((p * c) * 16) \div 8 = p * c * 2
    BY <1>1, DividesExactly
  <2>3. WeightsBufferResolution(r) = p * 4 + p * c * 2 * w
    BY <2>1, <2>2 DEF WeightsBufferResolution, SizeOfFloat32, WeightsBits, BitsPerByte
  <2>4. PacketWeights(r) = 4 + c * 2 * w
    BY DEF PacketWeights, SizeOfFloat32, WeightsBits, BitsPerByte
  <2>5. n * (p * 4 + p * c * 2 * w) = n * p * (4 + c * 2 * w)
    BY <1>1, <1>2
  <2> QED
    BY <2>3, <2>4, <2>5 DEF WeightsBufferSize
<1> QED
  BY <1>3, <1>4

(* DSP is told to expect what SMRB has made room for, when samples are     *)
(* whole bytes.                                                            *)
THEOREM RatesAgree ==
  ASSUME NEW r, IsRequest(r)
  PROVE  RateFillsBuffer(r)
<1> SUFFICES ASSUME r.nbits % BitsPerByte = 0
             PROVE  BitsPerTime(r) * r.udp_nsamp = BitsPerByte * DataBufferResolution(r)
  BY DEF RateFillsBuffer
<1>1. r.nchan \in Nat /\ r.npol \in Nat /\ r.udp_nsamp \in Nat
  BY DEF IsRequest
<1>2. (r.nbits \div 2) * 2 = r.nbits
  BY DEF IsRequest, BitsPerByte
<1>3. r.nbits \div 2 \in Int /\ r.nbits \in Int
  BY DEF IsRequest
<1>4. BitsPerTime(r) = r.nchan * r.npol * r.nbits
  <2>1. r.nchan * r.npol * (r.nbits \div 2) * 2 = r.nchan * r.npol * ((r.nbits \div 2) * 2)
    BY <1>1, <1>3
  <2> QED
    BY <1>2, <2>1 DEF BitsPerTime, Dimensions
<1> QED
  BY <1>4, DataIsExact
=============================================================================
