---------------------------- MODULE BeamProofs ----------------------------
(***************************************************************************)
(* For any number of commands and failures, and any commands of clients:   *)
(* the types, that no fault BEAM knows of is hidden, that the ring buffers *)
(* outlive their clients, and that BEAM and its sub-devices agree at rest. *)
(*                                                                         *)
(* The invariant has three parts.  BaseInv: every job in a queue is what   *)
(* is left of a plan, and the current command is that of its step at work. *)
(* FaultsInv: over a fault that BEAM has been told of it is in a state     *)
(* that no job about to end makes READY or IDLE, the jobs that would have  *)
(* yet to come to the faulty sub-device.  WorkInv, while no job has        *)
(* failed: the jobs on their way tell the state of BEAM (OrderInv); a      *)
(* sub-device executes the current command or nothing (SendInv); it has    *)
(* the state its job leaves it in, or the job has yet to come to it        *)
(* (DoneInv); SMRB is first and last (BufferInv, RingInv); and BEAM agrees *)
(* with the sub-devices when no job is at work (AgreeInv).                 *)
(***************************************************************************)
EXTENDS Beam, SequenceTheorems, TLAPS

-----------------------------------------------------------------------------
(* The state machine of the sub-devices.                                   *)

(* What a trigger that is refused, or comes after one that is, leaves. *)
Refused(s) == [state |-> s, ok |-> FALSE]

LEMMA Outcomes ==
  ASSUME NEW s
  PROVE  /\ From(s).state = s /\ From(s).ok = TRUE
         /\ Refused(s).state = s /\ Refused(s).ok = FALSE
  BY DEF From, Refused

LEMMA StaysRefused == ASSUME NEW s, NEW t PROVE Then(Refused(s), t) = Refused(s)
  BY DEF Then, Refused

(* What each trigger makes of a state. *)
LEMMA Chain ==
  ASSUME NEW s
  PROVE  /\ Then(From(s), "component_resourced")
            = IF s = "RESOURCING_EMPTY" THEN From("RESOURCING_IDLE") ELSE Refused(s)
         /\ Then(From(s), "component_unresourced")
            = IF s = "RESOURCING_IDLE" THEN From("RESOURCING_EMPTY")
              ELSE IF s = "RESETTING" THEN From(s) ELSE Refused(s)
         /\ Then(From(s), "assign_completed")
            = IF s = "RESOURCING_EMPTY" THEN From("EMPTY")
              ELSE IF s = "RESOURCING_IDLE" THEN From("IDLE") ELSE Refused(s)
         /\ Then(From(s), "release_completed")
            = IF s = "RESOURCING_EMPTY" THEN From("EMPTY")
              ELSE IF s = "RESOURCING_IDLE" THEN From("IDLE") ELSE Refused(s)
         /\ Then(From(s), "component_configured")
            = IF s = "CONFIGURING_IDLE" THEN From("CONFIGURING_READY")
              ELSE IF s = "ABORTING" THEN From(s) ELSE Refused(s)
         /\ Then(From(s), "component_unconfigured")
            = IF s = "READY" THEN From("IDLE")
              ELSE IF s \in {"ABORTING", "RESETTING"} THEN From(s) ELSE Refused(s)
         /\ Then(From(s), "configure_completed")
            = IF s = "CONFIGURING_IDLE" THEN From("IDLE")
              ELSE IF s = "CONFIGURING_READY" THEN From("READY") ELSE Refused(s)
         /\ Then(From(s), "component_scanning")
            = IF s = "READY" THEN From("SCANNING")
              ELSE IF s = "ABORTING" THEN From(s) ELSE Refused(s)
         /\ Then(From(s), "component_not_scanning")
            = IF s = "SCANNING" THEN From("READY")
              ELSE IF s = "ABORTING" THEN From(s) ELSE Refused(s)
         /\ Then(From(s), "abort_completed")
            = IF s = "ABORTING" THEN From("ABORTED") ELSE Refused(s)
         /\ Then(From(s), "obsreset_completed")
            = IF s = "RESETTING" THEN From("EMPTY") ELSE Refused(s)
         /\ Then(From(s), "component_obsfault")
            = IF s \in States THEN From("FAULT") ELSE Refused(s)
  BY DEF Then, From, Refused, Allowed, After, Transition, To, Stay, Join, Resourced, States

(* What the triggers of a call make of a state in which they are allowed. *)
LEMMA Calls ==
  /\ \A s \in Abortable : After(s, "abort_invoked") = "ABORTING"
  /\ \A s \in {"ABORTED", "FAULT"} : After(s, "obsreset_invoked") = "RESETTING"
  /\ \A s : Allowed(s, "configure_invoked") <=> s \in {"IDLE", "READY"}
  /\ After("IDLE", "configure_invoked") = "CONFIGURING_IDLE"
  /\ After("READY", "configure_invoked") = "CONFIGURING_READY"
  /\ After("EMPTY", "assign_invoked") = "RESOURCING_EMPTY"
  /\ After("IDLE", "release_invoked") = "RESOURCING_IDLE"
  /\ Abortable \subseteq States
  BY DEF Allowed, After, Transition, To, Stay, Join, Resourcing, Abortable, States

(* A command that is taken in s makes it t at once. *)
Begins(s, c, t) ==
  CASE c = "ConfigureBeam" -> s = "EMPTY" /\ t = "RESOURCING_EMPTY"
    [] c = "DeconfigureBeam" -> s = "IDLE" /\ t = "RESOURCING_IDLE"
    [] c = "ConfigureScan" -> \/ s = "IDLE" /\ t = "CONFIGURING_IDLE"
                              \/ s = "READY" /\ t = "CONFIGURING_READY"
    [] c = "Abort" -> s \in Abortable /\ t = "ABORTING"
    [] c = "ObsReset" -> s \in {"ABORTED", "FAULT"} /\ t = "RESETTING"
    [] c \in {"DeconfigureScan", "Scan"} -> s = "READY" /\ t = s
    [] c = "EndScan" -> s = "SCANNING" /\ t = s
    [] c = "ValidateConfigureScan" -> s = "EMPTY" /\ t = s
    [] OTHER -> t = s

LEMMA TakenIs ==
  ASSUME NEW s \in States, NEW c \in Commands, Taken(s, c)
  PROVE  Invoked(s, c) \in States /\ Begins(s, c, Invoked(s, c))
<1>1. CASE c \in {"ConfigureBeam", "DeconfigureBeam", "ConfigureScan"}
  BY <1>1, Calls DEF Taken, Invoked, Begins, States
<1>2. CASE c \in {"Abort", "ObsReset"}
  BY <1>2, Calls DEF Taken, Invoked, Begins, States
<1>3. CASE c \in {"DeconfigureScan", "Scan", "EndScan", "ValidateConfigureScan", "GoToFault"}
  BY <1>3 DEF Taken, Invoked, Begins, States
<1> QED
  BY <1>1, <1>2, <1>3 DEF Commands

(* From s the command c leads, if it ends well, to q. *)
Leads(s, c, q) ==
  CASE c = "ValidateConfigureScan" -> q = s
    [] c = "ConfigureBeam" -> s = "RESOURCING_EMPTY" /\ q = "IDLE"
    [] c = "DeconfigureBeam" -> s = "RESOURCING_IDLE" /\ q = "EMPTY"
    [] c = "ConfigureScan" -> s = "CONFIGURING_IDLE" /\ q = "READY"
    [] c = "DeconfigureScan" -> \/ s = "READY" /\ q = "IDLE"
                                \/ s \in {"ABORTING", "RESETTING"} /\ q = s
    [] c = "Scan" -> \/ s = "READY" /\ q = "SCANNING"
                     \/ s = "ABORTING" /\ q = s
    [] c = "EndScan" -> \/ s = "SCANNING" /\ q = "READY"
                        \/ s = "ABORTING" /\ q = s
    [] c = "Abort" -> s = "ABORTING" /\ q = "ABORTED"
    [] c = "ObsReset" -> s = "RESETTING" /\ q = "EMPTY"
    [] c = "GoToFault" -> q = "FAULT"

LEMMA CompletedIs ==
  ASSUME NEW s \in States, NEW c \in Commands
  PROVE  \/ \E q \in States : Completed(s, c) = Refused(q) /\ (q = "FAULT" => s = "FAULT")
         \/ \E q \in States : Completed(s, c) = From(q) /\ Leads(s, c, q)
<1>1. CASE c = "ValidateConfigureScan"
  BY <1>1 DEF Completed, Leads
<1>2. CASE c = "ConfigureBeam"
  <2>1. Completed(s, c) = Then(Then(From(s), "component_resourced"), "assign_completed")
    BY <1>2 DEF Completed
  <2>2. CASE s = "RESOURCING_EMPTY"
    <3>1. Completed(s, c) = Then(From("RESOURCING_IDLE"), "assign_completed")
      BY <2>1, <2>2, Chain
    <3>2. Completed(s, c) = From("IDLE")
      BY <3>1, Chain
    <3> QED BY <1>2, <2>2, <3>2 DEF Leads, States
  <2>3. CASE s # "RESOURCING_EMPTY"
    BY <2>1, <2>3, Chain, StaysRefused
  <2> QED BY <2>2, <2>3
<1>3. CASE c = "DeconfigureBeam"
  <2>1. Completed(s, c) = Then(Then(From(s), "component_unresourced"), "release_completed")
    BY <1>3 DEF Completed
  <2>2. CASE s = "RESOURCING_IDLE"
    <3>1. Completed(s, c) = Then(From("RESOURCING_EMPTY"), "release_completed")
      BY <2>1, <2>2, Chain
    <3>2. Completed(s, c) = From("EMPTY")
      BY <3>1, Chain
    <3> QED BY <1>3, <2>2, <3>2 DEF Leads, States
  <2>3. CASE s = "RESETTING"
    <3>1. Completed(s, c) = Then(From(s), "release_completed")
      BY <2>1, <2>3, Chain
    <3>2. Completed(s, c) = Refused(s)
      BY <3>1, <2>3, Chain
    <3> QED BY <3>2
  <2>4. CASE s \notin {"RESOURCING_IDLE", "RESETTING"}
    BY <2>1, <2>4, Chain, StaysRefused
  <2> QED BY <2>2, <2>3, <2>4
<1>4. CASE c = "ConfigureScan"
  <2>1. Completed(s, c) = Then(Then(From(s), "component_configured"), "configure_completed")
    BY <1>4 DEF Completed
  <2>2. CASE s = "CONFIGURING_IDLE"
    <3>1. Completed(s, c) = Then(From("CONFIGURING_READY"), "configure_completed")
      BY <2>1, <2>2, Chain
    <3>2. Completed(s, c) = From("READY")
      BY <3>1, Chain
    <3> QED BY <1>4, <2>2, <3>2 DEF Leads, States
  <2>3. CASE s = "ABORTING"
    <3>1. Completed(s, c) = Then(From(s), "configure_completed")
      BY <2>1, <2>3, Chain
    <3>2. Completed(s, c) = Refused(s)
      BY <3>1, <2>3, Chain
    <3> QED BY <3>2
  <2>4. CASE s \notin {"CONFIGURING_IDLE", "ABORTING"}
    BY <2>1, <2>4, Chain, StaysRefused
  <2> QED BY <2>2, <2>3, <2>4
<1>5. CASE c = "DeconfigureScan"
  BY <1>5, Chain DEF Completed, Leads, States
<1>10. CASE c = "Scan"
  BY <1>10, Chain DEF Completed, Leads, States
<1>6. CASE c = "EndScan"
  BY <1>6, Chain DEF Completed, Leads, States
<1>7. CASE c = "Abort"
  <2>1. Completed(s, c) = Then(Then(From(s), "component_not_scanning"), "abort_completed")
    BY <1>7 DEF Completed
  <2>2. CASE s = "ABORTING"
    <3>1. Completed(s, c) = Then(From(s), "abort_completed")
      BY <2>1, <2>2, Chain
    <3>2. Completed(s, c) = From("ABORTED")
      BY <3>1, <2>2, Chain
    <3> QED BY <1>7, <2>2, <3>2 DEF Leads, States
  <2>3. CASE s = "SCANNING"
    <3>1. Completed(s, c) = Then(From("READY"), "abort_completed")
      BY <2>1, <2>3, Chain
    <3>2. Completed(s, c) = Refused("READY")
      BY <3>1, Chain
    <3> QED BY <3>2 DEF States
  <2>4. CASE s \notin {"SCANNING", "ABORTING"}
    BY <2>1, <2>4, Chain, StaysRefused
  <2> QED BY <2>2, <2>3, <2>4
<1>8. CASE c = "ObsReset"
  <2>1. Completed(s, c) = Then(Then(Then(From(s), "component_unconfigured"),
                                    "component_unresourced"), "obsreset_completed")
    BY <1>8 DEF Completed
  <2>2. CASE s = "RESETTING"
    <3>1. Completed(s, c) = Then(Then(From(s), "component_unresourced"), "obsreset_completed")
      BY <2>1, <2>2, Chain
    <3>2. Completed(s, c) = Then(From(s), "obsreset_completed")
      BY <3>1, <2>2, Chain
    <3>3. Completed(s, c) = From("EMPTY")
      BY <3>2, <2>2, Chain
    <3> QED BY <1>8, <2>2, <3>3 DEF Leads, States
  <2>3. CASE s = "READY"
    <3>1. Completed(s, c) = Then(Then(From("IDLE"), "component_unresourced"), "obsreset_completed")
      BY <2>1, <2>3, Chain
    <3>2. Completed(s, c) = Then(Refused("IDLE"), "obsreset_completed")
      BY <3>1, Chain
    <3>3. Completed(s, c) = Refused("IDLE")
      BY <3>2, StaysRefused
    <3> QED BY <3>3 DEF States
  <2>4. CASE s = "ABORTING"
    <3>1. Completed(s, c) = Then(Then(From(s), "component_unresourced"), "obsreset_completed")
      BY <2>1, <2>4, Chain
    <3>2. Completed(s, c) = Then(Refused(s), "obsreset_completed")
      BY <3>1, <2>4, Chain
    <3>3. Completed(s, c) = Refused(s)
      BY <3>2, StaysRefused
    <3> QED BY <3>3
  <2>5. CASE s \notin {"RESETTING", "READY", "ABORTING"}
    <3>1. Completed(s, c) = Then(Then(Refused(s), "component_unresourced"), "obsreset_completed")
      BY <2>1, <2>5, Chain
    <3>2. Completed(s, c) = Refused(s)
      BY <3>1, StaysRefused
    <3> QED BY <3>2
  <2> QED BY <2>2, <2>3, <2>4, <2>5
<1>9. CASE c = "GoToFault"
  BY <1>9, Chain DEF Completed, Leads, States
<1> QED
  BY <1>1, <1>2, <1>3, <1>4, <1>5, <1>6, <1>7, <1>8, <1>9, <1>10 DEF Commands

-----------------------------------------------------------------------------
(* The completion callbacks.                                               *)

(* What BEAM becomes when the callback of the job is called. *)
Becomes(name) == IF Complete(name).state = "EMPTY" THEN "IDLE" ELSE Complete(name).state

LEMMA BecomesIs ==
  ASSUME beam \in States, beam # "EMPTY"
  PROVE  /\ Becomes("ConfigureScan") = IF beam = "CONFIGURING_IDLE" THEN "READY" ELSE beam
         /\ Becomes("DeconfigureScan") = IF beam = "READY" THEN "IDLE" ELSE beam
         /\ Becomes("Scan") = IF beam = "READY" THEN "SCANNING" ELSE beam
         /\ Becomes("EndScan") = IF beam = "SCANNING" THEN "READY" ELSE beam
         /\ Becomes("Abort") = IF beam = "ABORTING" THEN "ABORTED"
                               ELSE IF beam = "SCANNING" THEN "READY" ELSE beam
         /\ Becomes("ObsReset") = IF beam \in {"RESETTING", "READY"} THEN "IDLE" ELSE beam
         /\ Becomes("GoToFault") = "FAULT"
<1>1. Becomes("ConfigureScan") = IF beam = "CONFIGURING_IDLE" THEN "READY" ELSE beam
  <2>1. Complete("ConfigureScan")
          = Then(Then(From(beam), "component_configured"), "configure_completed")
    BY DEF Complete
  <2>2. CASE beam = "CONFIGURING_IDLE"
    <3>1. Complete("ConfigureScan") = Then(From("CONFIGURING_READY"), "configure_completed")
      BY <2>1, <2>2, Chain
    <3>2. Complete("ConfigureScan") = From("READY")
      BY <3>1, Chain
    <3> QED BY <3>2, <2>2, Outcomes DEF Becomes
  <2>3. CASE beam = "ABORTING"
    <3>1. Complete("ConfigureScan") = Then(From(beam), "configure_completed")
      BY <2>1, <2>3, Chain
    <3>2. Complete("ConfigureScan") = Refused(beam)
      BY <3>1, <2>3, Chain
    <3> QED BY <3>2, <2>3, Outcomes DEF Becomes
  <2>4. CASE beam \notin {"CONFIGURING_IDLE", "ABORTING"}
    <3>1. Complete("ConfigureScan") = Refused(beam)
      BY <2>1, <2>4, Chain, StaysRefused
    <3> QED BY <3>1, <2>4, Outcomes DEF Becomes
  <2> QED BY <2>2, <2>3, <2>4
<1>2. Becomes("DeconfigureScan") = IF beam = "READY" THEN "IDLE" ELSE beam
  <2>1. Complete("DeconfigureScan") = Then(From(beam), "component_unconfigured")
    BY DEF Complete
  <2>2. CASE beam = "READY"
    <3>1. Complete("DeconfigureScan") = From("IDLE")
      BY <2>1, <2>2, Chain
    <3> QED BY <3>1, <2>2, Outcomes DEF Becomes
  <2>3. CASE beam # "READY"
    <3>1. Complete("DeconfigureScan") = From(beam) \/ Complete("DeconfigureScan") = Refused(beam)
      BY <2>1, <2>3, Chain
    <3> QED BY <3>1, <2>3, Outcomes DEF Becomes
  <2> QED BY <2>2, <2>3
<1>3. Becomes("Scan") = IF beam = "READY" THEN "SCANNING" ELSE beam
  <2>1. Complete("Scan") = Then(From(beam), "component_scanning")
    BY DEF Complete
  <2>2. CASE beam = "READY"
    <3>1. Complete("Scan") = From("SCANNING")
      BY <2>1, <2>2, Chain
    <3> QED BY <3>1, <2>2, Outcomes DEF Becomes
  <2>3. CASE beam # "READY"
    <3>1. Complete("Scan") = From(beam) \/ Complete("Scan") = Refused(beam)
      BY <2>1, <2>3, Chain
    <3> QED BY <3>1, <2>3, Outcomes DEF Becomes
  <2> QED BY <2>2, <2>3
<1>4. Becomes("EndScan") = IF beam = "SCANNING" THEN "READY" ELSE beam
  <2>1. Complete("EndScan") = Then(From(beam), "component_not_scanning")
    BY DEF Complete
  <2>2. CASE beam = "SCANNING"
    <3>1. Complete("EndScan") = From("READY")
      BY <2>1, <2>2, Chain
    <3> QED BY <3>1, <2>2, Outcomes DEF Becomes
  <2>3. CASE beam # "SCANNING"
    <3>1. Complete("EndScan") = From(beam) \/ Complete("EndScan") = Refused(beam)
      BY <2>1, <2>3, Chain
    <3> QED BY <3>1, <2>3, Outcomes DEF Becomes
  <2> QED BY <2>2, <2>3
<1>5. Becomes("Abort") = IF beam = "ABORTING" THEN "ABORTED"
                         ELSE IF beam = "SCANNING" THEN "READY" ELSE beam
  <2>1. Complete("Abort") = Then(Then(From(beam), "component_not_scanning"), "abort_completed")
    BY DEF Complete
  <2>2. CASE beam = "ABORTING"
    <3>1. Complete("Abort") = Then(From(beam), "abort_completed")
      BY <2>1, <2>2, Chain
    <3>2. Complete("Abort") = From("ABORTED")
      BY <3>1, <2>2, Chain
    <3> QED BY <3>2, <2>2, Outcomes DEF Becomes
  <2>3. CASE beam = "SCANNING"
    <3>1. Complete("Abort") = Then(From("READY"), "abort_completed")
      BY <2>1, <2>3, Chain
    <3>2. Complete("Abort") = Refused("READY")
      BY <3>1, Chain
    <3> QED BY <3>2, <2>3, Outcomes DEF Becomes
  <2>4. CASE beam \notin {"SCANNING", "ABORTING"}
    <3>1. Complete("Abort") = Refused(beam)
      BY <2>1, <2>4, Chain, StaysRefused
    <3> QED BY <3>1, <2>4, Outcomes DEF Becomes
  <2> QED BY <2>2, <2>3, <2>4
<1>6. Becomes("ObsReset") = IF beam \in {"RESETTING", "READY"} THEN "IDLE" ELSE beam
  <2>1. Complete("ObsReset")
          = Then(Then(From(beam), "component_unconfigured"), "obsreset_completed")
    BY DEF Complete
  <2>2. CASE beam = "RESETTING"
    <3>1. Complete("ObsReset") = Then(From(beam), "obsreset_completed")
      BY <2>1, <2>2, Chain
    <3>2. Complete("ObsReset") = From("EMPTY")
      BY <3>1, <2>2, Chain
    <3> QED BY <3>2, <2>2, Outcomes DEF Becomes
  <2>3. CASE beam = "READY"
    <3>1. Complete("ObsReset") = Then(From("IDLE"), "obsreset_completed")
      BY <2>1, <2>3, Chain
    <3>2. Complete("ObsReset") = Refused("IDLE")
      BY <3>1, Chain
    <3> QED BY <3>2, <2>3, Outcomes DEF Becomes
  <2>4. CASE beam = "ABORTING"
    <3>1. Complete("ObsReset") = Then(From(beam), "obsreset_completed")
      BY <2>1, <2>4, Chain
    <3>2. Complete("ObsReset") = Refused(beam)
      BY <3>1, <2>4, Chain
    <3> QED BY <3>2, <2>4, Outcomes DEF Becomes
  <2>5. CASE beam \notin {"RESETTING", "READY", "ABORTING"}
    <3>1. Complete("ObsReset") = Refused(beam)
      BY <2>1, <2>5, Chain, StaysRefused
    <3> QED BY <3>1, <2>5, Outcomes DEF Becomes
  <2> QED BY <2>2, <2>3, <2>4, <2>5
<1>7. Becomes("GoToFault") = "FAULT"
  <2>1. Complete("GoToFault") = Then(From(beam), "component_obsfault")
    BY DEF Complete
  <2>2. Complete("GoToFault") = From("FAULT")
    BY <2>1, Chain
  <2> QED BY <2>2, Outcomes DEF Becomes
<1> QED
  BY <1>1, <1>2, <1>3, <1>4, <1>5, <1>6, <1>7

LEMMA CallbackIs == Callback => beam' = Becomes(ended)
  BY DEF Callback, Becomes

-----------------------------------------------------------------------------
(* The steps of the jobs.                                                  *)

JobNames == BeamCommands \cup {"ValidateConfigureScan"}
StepType == [devices : SUBSET Devices, command : Commands \cup {"Lambda"}]

(* What every job consists of, an Abort and an ObsReset at most. *)
Plan(name) ==
  CASE name = "ValidateConfigureScan" -> <<Step(Devices, "ValidateConfigureScan")>>
    [] name = "ConfigureScan" -> ConfigureSteps
    [] name = "DeconfigureScan" -> DeconfigureSteps
    [] name = "Scan" -> <<Step({}, "Lambda"), Step(Devices, "Scan")>>
    [] name \in {"EndScan", "GoToFault", "Abort"} -> InOrder(name)
    [] name = "ObsReset" ->
         <<Step({"recv"}, "Abort"), Step({"dsp", "stat"}, "Abort"), Step({"smrb"}, "Abort"),
           Step({"stat"}, "ObsReset"), Step({"dsp"}, "ObsReset"),
           Step({"recv"}, "ObsReset"), Step({"smrb"}, "ObsReset")>>

(* How many steps of a job have begun; those left are of its plan. *)
Begun(j) == Len(Plan(j.name)) - Len(j.steps)

Follows(j) ==
  /\ Len(j.steps) <= Len(Plan(j.name))
  /\ \A i \in 1 .. Len(j.steps) :
       /\ j.steps[i].command = Plan(j.name)[Begun(j) + i].command
       /\ j.steps[i].devices \subseteq Plan(j.name)[Begun(j) + i].devices
       /\ j.name \notin {"Abort", "ObsReset"}
            => j.steps[i].devices = Plan(j.name)[Begun(j) + i].devices

LEMMA StepIs ==
  ASSUME NEW D, NEW c
  PROVE  Step(D, c).devices = D /\ Step(D, c).command = c
  BY DEF Step

LEMMA StepTyped ==
  ASSUME NEW D \in SUBSET Devices, NEW c \in Commands \cup {"Lambda"}
  PROVE  Step(D, c) \in StepType
  BY DEF Step, StepType

LEMMA Plans ==
  /\ Len(Plan("ValidateConfigureScan")) = 1
  /\ Plan("ValidateConfigureScan")[1] = Step(Devices, "ValidateConfigureScan")
  /\ Len(Plan("ConfigureScan")) = 4
  /\ Plan("ConfigureScan")[1] = Step({"smrb"}, "ConfigureBeam")
  /\ Plan("ConfigureScan")[2] = Step(Clients, "ConfigureBeam")
  /\ Plan("ConfigureScan")[3] = Step({"smrb", "recv", "stat"}, "ConfigureScan")
  /\ Plan("ConfigureScan")[4] = Step({"dsp"}, "ConfigureScan")
  /\ Len(Plan("DeconfigureScan")) = 3
  /\ Plan("DeconfigureScan")[1] = Step(Devices, "DeconfigureScan")
  /\ Plan("DeconfigureScan")[2] = Step(Clients, "DeconfigureBeam")
  /\ Plan("DeconfigureScan")[3] = Step({"smrb"}, "DeconfigureBeam")
  /\ Len(Plan("Scan")) = 2
  /\ Plan("Scan")[1] = Step({}, "Lambda")
  /\ Plan("Scan")[2] = Step(Devices, "Scan")
  /\ \A c \in {"EndScan", "GoToFault", "Abort"} :
       /\ Len(Plan(c)) = 3
       /\ Plan(c)[1] = Step({"recv"}, c)
       /\ Plan(c)[2] = Step({"dsp", "stat"}, c)
       /\ Plan(c)[3] = Step({"smrb"}, c)
  /\ Len(Plan("ObsReset")) = 7
  /\ Plan("ObsReset")[1] = Step({"recv"}, "Abort")
  /\ Plan("ObsReset")[2] = Step({"dsp", "stat"}, "Abort")
  /\ Plan("ObsReset")[3] = Step({"smrb"}, "Abort")
  /\ Plan("ObsReset")[4] = Step({"stat"}, "ObsReset")
  /\ Plan("ObsReset")[5] = Step({"dsp"}, "ObsReset")
  /\ Plan("ObsReset")[6] = Step({"recv"}, "ObsReset")
  /\ Plan("ObsReset")[7] = Step({"smrb"}, "ObsReset")
<1>1. /\ Len(Plan("ValidateConfigureScan")) = 1
      /\ Plan("ValidateConfigureScan")[1] = Step(Devices, "ValidateConfigureScan")
  BY DEF Plan
<1>2. /\ Len(Plan("ConfigureScan")) = 4
      /\ Plan("ConfigureScan")[1] = Step({"smrb"}, "ConfigureBeam")
      /\ Plan("ConfigureScan")[2] = Step(Clients, "ConfigureBeam")
      /\ Plan("ConfigureScan")[3] = Step({"smrb", "recv", "stat"}, "ConfigureScan")
      /\ Plan("ConfigureScan")[4] = Step({"dsp"}, "ConfigureScan")
  BY DEF Plan, ConfigureSteps
<1>3. /\ Len(Plan("DeconfigureScan")) = 3
      /\ Plan("DeconfigureScan")[1] = Step(Devices, "DeconfigureScan")
      /\ Plan("DeconfigureScan")[2] = Step(Clients, "DeconfigureBeam")
      /\ Plan("DeconfigureScan")[3] = Step({"smrb"}, "DeconfigureBeam")
  BY DEF Plan, DeconfigureSteps
<1>4. /\ Len(Plan("Scan")) = 2
      /\ Plan("Scan")[1] = Step({}, "Lambda")
      /\ Plan("Scan")[2] = Step(Devices, "Scan")
  BY DEF Plan
<1>5. ASSUME NEW c \in {"EndScan", "GoToFault", "Abort"}
      PROVE  /\ Len(Plan(c)) = 3
             /\ Plan(c)[1] = Step({"recv"}, c)
             /\ Plan(c)[2] = Step({"dsp", "stat"}, c)
             /\ Plan(c)[3] = Step({"smrb"}, c)
  BY DEF Plan, InOrder
<1>6. /\ Len(Plan("ObsReset")) = 7
      /\ Plan("ObsReset")[1] = Step({"recv"}, "Abort")
      /\ Plan("ObsReset")[2] = Step({"dsp", "stat"}, "Abort")
      /\ Plan("ObsReset")[3] = Step({"smrb"}, "Abort")
      /\ Plan("ObsReset")[4] = Step({"stat"}, "ObsReset")
      /\ Plan("ObsReset")[5] = Step({"dsp"}, "ObsReset")
      /\ Plan("ObsReset")[6] = Step({"recv"}, "ObsReset")
      /\ Plan("ObsReset")[7] = Step({"smrb"}, "ObsReset")
  BY DEF Plan
<1> QED BY <1>1, <1>2, <1>3, <1>4, <1>5, <1>6

LEMMA AbortStepsAre ==
  /\ AbortSteps \in Seq(StepType)
  /\ Len(AbortSteps) = 3
  /\ AbortSteps[1] = Step(ToAbort({"recv"}), "Abort")
  /\ AbortSteps[2] = Step(ToAbort({"dsp", "stat"}), "Abort")
  /\ AbortSteps[3] = Step(ToAbort({"smrb"}), "Abort")
<1>1. /\ Step(ToAbort({"recv"}), "Abort") \in StepType
      /\ Step(ToAbort({"dsp", "stat"}), "Abort") \in StepType
      /\ Step(ToAbort({"smrb"}), "Abort") \in StepType
  BY StepTyped DEF Devices, Clients, Commands, ToAbort
<1> QED BY <1>1 DEF AbortSteps

LEMMA ResetStepsAre ==
  /\ AbortSteps \o ResetSteps \in Seq(StepType)
  /\ Len(AbortSteps \o ResetSteps) = 7
  /\ (AbortSteps \o ResetSteps)[1] = Step(ToAbort({"recv"}), "Abort")
  /\ (AbortSteps \o ResetSteps)[2] = Step(ToAbort({"dsp", "stat"}), "Abort")
  /\ (AbortSteps \o ResetSteps)[3] = Step(ToAbort({"smrb"}), "Abort")
  /\ (AbortSteps \o ResetSteps)[4] = Step(ToReset({"stat"}), "ObsReset")
  /\ (AbortSteps \o ResetSteps)[5] = Step(ToReset({"dsp"}), "ObsReset")
  /\ (AbortSteps \o ResetSteps)[6] = Step(ToReset({"recv"}), "ObsReset")
  /\ (AbortSteps \o ResetSteps)[7] = Step(ToReset({"smrb"}), "ObsReset")
<1> DEFINE S(d) == Step(ToReset({d}), "ObsReset")
<1>1. /\ ResetSteps \in Seq(StepType)
      /\ Len(ResetSteps) = 4
      /\ ResetSteps[1] = S("stat") /\ ResetSteps[2] = S("dsp")
      /\ ResetSteps[3] = S("recv") /\ ResetSteps[4] = S("smrb")
  <2>1. S("stat") \in StepType /\ S("dsp") \in StepType
        /\ S("recv") \in StepType /\ S("smrb") \in StepType
    BY StepTyped DEF Devices, Clients, Commands, ToReset
  <2> QED BY <2>1 DEF ResetSteps
<1>2. /\ AbortSteps \o ResetSteps \in Seq(StepType)
      /\ Len(AbortSteps \o ResetSteps) = Len(AbortSteps) + Len(ResetSteps)
      /\ \A i \in 1 .. Len(AbortSteps) + Len(ResetSteps) :
           (AbortSteps \o ResetSteps)[i]
             = IF i <= Len(AbortSteps) THEN AbortSteps[i] ELSE ResetSteps[i - Len(AbortSteps)]
  <2>1. AbortSteps \in Seq(StepType) /\ ResetSteps \in Seq(StepType)
    BY <1>1, AbortStepsAre
  <2> QED BY ONLY <2>1, ConcatProperties
<1>3. Len(AbortSteps) + Len(ResetSteps) = 7
  BY ONLY <1>1, AbortStepsAre
<1>4. \A i \in 1 .. 7 :
        (AbortSteps \o ResetSteps)[i] = IF i <= 3 THEN AbortSteps[i] ELSE ResetSteps[i - 3]
  BY ONLY <1>2, <1>3, AbortStepsAre
<1> QED BY <1>1, <1>2, <1>3, <1>4, AbortStepsAre

LEMMA StepsTyped ==
  ASSUME NEW c \in JobNames
  PROVE  /\ Steps(c) \in Seq(StepType)
         /\ Len(Steps(c)) = Len(Plan(c))
         /\ \A i \in 1 .. Len(Steps(c)) :
              /\ Steps(c)[i].command = Plan(c)[i].command
              /\ Steps(c)[i].devices \subseteq Plan(c)[i].devices
              /\ c \notin {"Abort", "ObsReset"} => Steps(c)[i].devices = Plan(c)[i].devices
<1>1. CASE c \in {"EndScan", "GoToFault"}
  <2>1. Steps(c) = InOrder(c) /\ Plan(c) = InOrder(c)
    BY <1>1 DEF Steps, Plan
  <2>2. InOrder(c) \in Seq(StepType)
    <3>1. /\ Step({"recv"}, c) \in StepType
          /\ Step({"dsp", "stat"}, c) \in StepType
          /\ Step({"smrb"}, c) \in StepType
      BY <1>1, StepTyped DEF Devices, Clients, Commands
    <3> QED BY <3>1 DEF InOrder
  <2> QED BY <2>1, <2>2
<1>2. CASE c = "ValidateConfigureScan"
  <2>1. Steps(c) = <<Step(Devices, c)>> /\ Plan(c) = <<Step(Devices, c)>>
    BY <1>2 DEF Steps, Plan
  <2>2. Step(Devices, c) \in StepType
    BY <1>2, StepTyped DEF Commands
  <2> QED BY <2>1, <2>2
<1>3. CASE c = "ConfigureScan"
  <2>1. Steps(c) = ConfigureSteps /\ Plan(c) = ConfigureSteps
    BY <1>3 DEF Steps, Plan
  <2>2. ConfigureSteps \in Seq(StepType)
    <3>1. /\ Step({"smrb"}, "ConfigureBeam") \in StepType
          /\ Step(Clients, "ConfigureBeam") \in StepType
          /\ Step({"smrb", "recv", "stat"}, "ConfigureScan") \in StepType
          /\ Step({"dsp"}, "ConfigureScan") \in StepType
      BY StepTyped DEF Devices, Clients, Commands
    <3> QED BY <3>1 DEF ConfigureSteps
  <2> QED BY <2>1, <2>2
<1>4. CASE c = "DeconfigureScan"
  <2>1. Steps(c) = DeconfigureSteps /\ Plan(c) = DeconfigureSteps
    BY <1>4 DEF Steps, Plan
  <2>2. DeconfigureSteps \in Seq(StepType)
    <3>1. /\ Step(Devices, "DeconfigureScan") \in StepType
          /\ Step(Clients, "DeconfigureBeam") \in StepType
          /\ Step({"smrb"}, "DeconfigureBeam") \in StepType
      BY StepTyped DEF Devices, Clients, Commands
    <3> QED BY <3>1 DEF DeconfigureSteps
  <2> QED BY <2>1, <2>2
<1>5. CASE c = "Scan"
  <2>1. /\ Steps(c) = <<Step({}, "Lambda"), Step(Devices, "Scan")>>
        /\ Plan(c) = <<Step({}, "Lambda"), Step(Devices, "Scan")>>
    BY <1>5 DEF Steps, Plan
  <2>2. Step({}, "Lambda") \in StepType /\ Step(Devices, "Scan") \in StepType
    BY StepTyped DEF Devices, Clients, Commands
  <2> QED BY <2>1, <2>2
<1>6. CASE c = "Abort"
  <2>1. Steps(c) = AbortSteps
    BY <1>6 DEF Steps
  <2> QED BY <2>1, <1>6, AbortStepsAre, Plans, StepIs DEF ToAbort
<1>7. CASE c = "ObsReset"
  <2>1. Steps(c) = AbortSteps \o ResetSteps
    BY <1>7 DEF Steps
  <2>2. \A i \in 1 .. 7 : /\ Steps(c)[i].command = Plan(c)[i].command
                          /\ Steps(c)[i].devices \subseteq Plan(c)[i].devices
    <3>1. /\ Steps(c)[1] = Step(ToAbort({"recv"}), "Abort")
          /\ Steps(c)[2] = Step(ToAbort({"dsp", "stat"}), "Abort")
          /\ Steps(c)[3] = Step(ToAbort({"smrb"}), "Abort")
          /\ Steps(c)[4] = Step(ToReset({"stat"}), "ObsReset")
          /\ Steps(c)[5] = Step(ToReset({"dsp"}), "ObsReset")
          /\ Steps(c)[6] = Step(ToReset({"recv"}), "ObsReset")
          /\ Steps(c)[7] = Step(ToReset({"smrb"}), "ObsReset")
      BY ONLY <2>1, ResetStepsAre
    <3> QED BY <3>1, <1>7, Plans, StepIs DEF ToAbort, ToReset
  <2> QED BY <2>1, <2>2, <1>7, ResetStepsAre, Plans
<1> QED
  BY <1>1, <1>2, <1>3, <1>4, <1>5, <1>6, <1>7 DEF JobNames, BeamCommands

LEMMA JobOfIs ==
  ASSUME NEW c \in JobNames
  PROVE  /\ JobOf(c) \in JobType /\ JobOf(c).name = c /\ JobOf(c).steps = Steps(c)
         /\ Follows(JobOf(c)) /\ Begun(JobOf(c)) = 0
<1>1. JobOf(c).name = c /\ JobOf(c).steps = Steps(c)
  BY DEF JobOf
<1>2. Len(Plan(c)) \in Nat
  BY StepsTyped
<1>3. Begun(JobOf(c)) = 0
  BY <1>1, <1>2, StepsTyped DEF Begun
<1>4. Follows(JobOf(c))
  BY <1>1, <1>2, <1>3, StepsTyped DEF Follows
<1>5. JobOf(c) \in JobType
  BY StepsTyped DEF JobOf, JobType, JobNames, StepType
<1> QED BY <1>1, <1>3, <1>4, <1>5

(* Which job, and which of its steps, a command is of. *)
StageOf(name, k, c, D) ==
  /\ c \in Commands \cup {"Lambda"} /\ D \subseteq Devices
  /\ c = "Lambda" => name = "Scan" /\ k = 1 /\ D = {}
  /\ c = "ValidateConfigureScan" => name = c
  /\ c = "ConfigureBeam" => /\ name = "ConfigureScan"
                            /\ \/ k = 1 /\ D = {"smrb"}
                               \/ k = 2 /\ D = Clients
  /\ c = "ConfigureScan" => name = c /\ k \in {3, 4}
  /\ c = "DeconfigureScan" => name = c /\ k = 1 /\ D = Devices
  /\ c = "DeconfigureBeam" => /\ name = "DeconfigureScan"
                              /\ \/ k = 2 /\ D = Clients
                                 \/ k = 3 /\ D = {"smrb"}
  /\ c = "Scan" => name = c /\ k = 2 /\ D = Devices
  /\ c \in {"EndScan", "GoToFault"} => name = c /\ k \in 1 .. 3
  /\ c = "Abort" => name \in {"Abort", "ObsReset"}
  /\ c = "ObsReset" => name = c /\ ("smrb" \in D => k = 7)

LEMMA Stages ==
  ASSUME NEW name \in JobNames, NEW k \in 1 .. Len(Plan(name))
  PROVE  StageOf(name, k, Plan(name)[k].command, Plan(name)[k].devices)
<1>1. CASE name = "ValidateConfigureScan"
  <2>1. k \in {1}
    <3>1. Len(Plan(name)) = 1
      BY <1>1, Plans
    <3> QED BY <3>1
  <2>2. k = 1 => StageOf(name, k, Plan(name)[k].command, Plan(name)[k].devices)
    <3>1. StageOf("ValidateConfigureScan", 1, "ValidateConfigureScan", Devices)
      BY DEF StageOf, Commands, Devices, Clients
    <3>2. Plan("ValidateConfigureScan")[1].command = "ValidateConfigureScan" /\ Plan("ValidateConfigureScan")[1].devices = Devices
      BY Plans, StepIs
    <3> QED BY <1>1, <3>1, <3>2
  <2> QED BY <2>1, <2>2
<1>2. CASE name = "ConfigureScan"
  <2>1. k \in {1, 2, 3, 4}
    <3>1. Len(Plan(name)) = 4
      BY <1>2, Plans
    <3> QED BY <3>1
  <2>2. k = 1 => StageOf(name, k, Plan(name)[k].command, Plan(name)[k].devices)
    <3>1. StageOf("ConfigureScan", 1, "ConfigureBeam", {"smrb"})
      BY DEF StageOf, Commands, Devices, Clients
    <3>2. Plan("ConfigureScan")[1].command = "ConfigureBeam" /\ Plan("ConfigureScan")[1].devices = {"smrb"}
      BY Plans, StepIs
    <3> QED BY <1>2, <3>1, <3>2
  <2>3. k = 2 => StageOf(name, k, Plan(name)[k].command, Plan(name)[k].devices)
    <3>1. StageOf("ConfigureScan", 2, "ConfigureBeam", Clients)
      BY DEF StageOf, Commands, Devices, Clients
    <3>2. Plan("ConfigureScan")[2].command = "ConfigureBeam" /\ Plan("ConfigureScan")[2].devices = Clients
      BY Plans, StepIs
    <3> QED BY <1>2, <3>1, <3>2
  <2>4. k = 3 => StageOf(name, k, Plan(name)[k].command, Plan(name)[k].devices)
    <3>1. StageOf("ConfigureScan", 3, "ConfigureScan", {"smrb", "recv", "stat"})
      BY DEF StageOf, Commands, Devices, Clients
    <3>2. Plan("ConfigureScan")[3].command = "ConfigureScan" /\ Plan("ConfigureScan")[3].devices = {"smrb", "recv", "stat"}
      BY Plans, StepIs
    <3> QED BY <1>2, <3>1, <3>2
  <2>5. k = 4 => StageOf(name, k, Plan(name)[k].command, Plan(name)[k].devices)
    <3>1. StageOf("ConfigureScan", 4, "ConfigureScan", {"dsp"})
      BY DEF StageOf, Commands, Devices, Clients
    <3>2. Plan("ConfigureScan")[4].command = "ConfigureScan" /\ Plan("ConfigureScan")[4].devices = {"dsp"}
      BY Plans, StepIs
    <3> QED BY <1>2, <3>1, <3>2
  <2> QED BY <2>1, <2>2, <2>3, <2>4, <2>5
<1>3. CASE name = "DeconfigureScan"
  <2>1. k \in {1, 2, 3}
    <3>1. Len(Plan(name)) = 3
      BY <1>3, Plans
    <3> QED BY <3>1
  <2>2. k = 1 => StageOf(name, k, Plan(name)[k].command, Plan(name)[k].devices)
    <3>1. StageOf("DeconfigureScan", 1, "DeconfigureScan", Devices)
      BY DEF StageOf, Commands, Devices, Clients
    <3>2. Plan("DeconfigureScan")[1].command = "DeconfigureScan" /\ Plan("DeconfigureScan")[1].devices = Devices
      BY Plans, StepIs
    <3> QED BY <1>3, <3>1, <3>2
  <2>3. k = 2 => StageOf(name, k, Plan(name)[k].command, Plan(name)[k].devices)
    <3>1. StageOf("DeconfigureScan", 2, "DeconfigureBeam", Clients)
      BY DEF StageOf, Commands, Devices, Clients
    <3>2. Plan("DeconfigureScan")[2].command = "DeconfigureBeam" /\ Plan("DeconfigureScan")[2].devices = Clients
      BY Plans, StepIs
    <3> QED BY <1>3, <3>1, <3>2
  <2>4. k = 3 => StageOf(name, k, Plan(name)[k].command, Plan(name)[k].devices)
    <3>1. StageOf("DeconfigureScan", 3, "DeconfigureBeam", {"smrb"})
      BY DEF StageOf, Commands, Devices, Clients
    <3>2. Plan("DeconfigureScan")[3].command = "DeconfigureBeam" /\ Plan("DeconfigureScan")[3].devices = {"smrb"}
      BY Plans, StepIs
    <3> QED BY <1>3, <3>1, <3>2
  <2> QED BY <2>1, <2>2, <2>3, <2>4
<1>4. CASE name = "Scan"
  <2>1. k \in {1, 2}
    <3>1. Len(Plan(name)) = 2
      BY <1>4, Plans
    <3> QED BY <3>1
  <2>2. k = 1 => StageOf(name, k, Plan(name)[k].command, Plan(name)[k].devices)
    <3>1. StageOf("Scan", 1, "Lambda", {})
      BY DEF StageOf, Commands, Devices, Clients
    <3>2. Plan("Scan")[1].command = "Lambda" /\ Plan("Scan")[1].devices = {}
      BY Plans, StepIs
    <3> QED BY <1>4, <3>1, <3>2
  <2>3. k = 2 => StageOf(name, k, Plan(name)[k].command, Plan(name)[k].devices)
    <3>1. StageOf("Scan", 2, "Scan", Devices)
      BY DEF StageOf, Commands, Devices, Clients
    <3>2. Plan("Scan")[2].command = "Scan" /\ Plan("Scan")[2].devices = Devices
      BY Plans, StepIs
    <3> QED BY <1>4, <3>1, <3>2
  <2> QED BY <2>1, <2>2, <2>3
<1>5. CASE name \in {"EndScan", "GoToFault", "Abort"}
  <2>1. k \in {1, 2, 3}
    <3>1. Len(Plan(name)) = 3
      BY <1>5, Plans
    <3> QED BY <3>1
  <2>2. k = 1 => StageOf(name, k, Plan(name)[k].command, Plan(name)[k].devices)
    <3>1. StageOf(name, 1, name, {"recv"})
      BY <1>5 DEF StageOf, Commands, Devices, Clients
    <3>2. Plan(name)[1].command = name /\ Plan(name)[1].devices = {"recv"}
      BY <1>5, Plans, StepIs
    <3> QED BY <1>5, <3>1, <3>2
  <2>3. k = 2 => StageOf(name, k, Plan(name)[k].command, Plan(name)[k].devices)
    <3>1. StageOf(name, 2, name, {"dsp", "stat"})
      BY <1>5 DEF StageOf, Commands, Devices, Clients
    <3>2. Plan(name)[2].command = name /\ Plan(name)[2].devices = {"dsp", "stat"}
      BY <1>5, Plans, StepIs
    <3> QED BY <1>5, <3>1, <3>2
  <2>4. k = 3 => StageOf(name, k, Plan(name)[k].command, Plan(name)[k].devices)
    <3>1. StageOf(name, 3, name, {"smrb"})
      BY <1>5 DEF StageOf, Commands, Devices, Clients
    <3>2. Plan(name)[3].command = name /\ Plan(name)[3].devices = {"smrb"}
      BY <1>5, Plans, StepIs
    <3> QED BY <1>5, <3>1, <3>2
  <2> QED BY <2>1, <2>2, <2>3, <2>4
<1>6. CASE name = "ObsReset"
  <2>1. k \in {1, 2, 3, 4, 5, 6, 7}
    <3>1. Len(Plan(name)) = 7
      BY <1>6, Plans
    <3> QED BY <3>1
  <2>2. k = 1 => StageOf(name, k, Plan(name)[k].command, Plan(name)[k].devices)
    <3>1. StageOf("ObsReset", 1, "Abort", {"recv"})
      BY DEF StageOf, Commands, Devices, Clients
    <3>2. Plan("ObsReset")[1].command = "Abort" /\ Plan("ObsReset")[1].devices = {"recv"}
      BY Plans, StepIs
    <3> QED BY <1>6, <3>1, <3>2
  <2>3. k = 2 => StageOf(name, k, Plan(name)[k].command, Plan(name)[k].devices)
    <3>1. StageOf("ObsReset", 2, "Abort", {"dsp", "stat"})
      BY DEF StageOf, Commands, Devices, Clients
    <3>2. Plan("ObsReset")[2].command = "Abort" /\ Plan("ObsReset")[2].devices = {"dsp", "stat"}
      BY Plans, StepIs
    <3> QED BY <1>6, <3>1, <3>2
  <2>4. k = 3 => StageOf(name, k, Plan(name)[k].command, Plan(name)[k].devices)
    <3>1. StageOf("ObsReset", 3, "Abort", {"smrb"})
      BY DEF StageOf, Commands, Devices, Clients
    <3>2. Plan("ObsReset")[3].command = "Abort" /\ Plan("ObsReset")[3].devices = {"smrb"}
      BY Plans, StepIs
    <3> QED BY <1>6, <3>1, <3>2
  <2>5. k = 4 => StageOf(name, k, Plan(name)[k].command, Plan(name)[k].devices)
    <3>1. StageOf("ObsReset", 4, "ObsReset", {"stat"})
      BY DEF StageOf, Commands, Devices, Clients
    <3>2. Plan("ObsReset")[4].command = "ObsReset" /\ Plan("ObsReset")[4].devices = {"stat"}
      BY Plans, StepIs
    <3> QED BY <1>6, <3>1, <3>2
  <2>6. k = 5 => StageOf(name, k, Plan(name)[k].command, Plan(name)[k].devices)
    <3>1. StageOf("ObsReset", 5, "ObsReset", {"dsp"})
      BY DEF StageOf, Commands, Devices, Clients
    <3>2. Plan("ObsReset")[5].command = "ObsReset" /\ Plan("ObsReset")[5].devices = {"dsp"}
      BY Plans, StepIs
    <3> QED BY <1>6, <3>1, <3>2
  <2>7. k = 6 => StageOf(name, k, Plan(name)[k].command, Plan(name)[k].devices)
    <3>1. StageOf("ObsReset", 6, "ObsReset", {"recv"})
      BY DEF StageOf, Commands, Devices, Clients
    <3>2. Plan("ObsReset")[6].command = "ObsReset" /\ Plan("ObsReset")[6].devices = {"recv"}
      BY Plans, StepIs
    <3> QED BY <1>6, <3>1, <3>2
  <2>8. k = 7 => StageOf(name, k, Plan(name)[k].command, Plan(name)[k].devices)
    <3>1. StageOf("ObsReset", 7, "ObsReset", {"smrb"})
      BY DEF StageOf, Commands, Devices, Clients
    <3>2. Plan("ObsReset")[7].command = "ObsReset" /\ Plan("ObsReset")[7].devices = {"smrb"}
      BY Plans, StepIs
    <3> QED BY <1>6, <3>1, <3>2
  <2> QED BY <2>1, <2>2, <2>3, <2>4, <2>5, <2>6, <2>7, <2>8
<1> QED
  BY <1>1, <1>2, <1>3, <1>4, <1>5, <1>6 DEF JobNames, BeamCommands

LEMMA PlanLength == \A name \in JobNames : Len(Plan(name)) \in 1 .. 7
  BY Plans DEF JobNames, BeamCommands

-----------------------------------------------------------------------------
(* The jobs: where each one is.                                            *)

Validation(j) == j.name = "ValidateConfigureScan"

(* Every job follows its plan; those that wait have not begun, and the     *)
(* task thread has one at most.                                            *)
JobInv ==
  /\ \A i \in 1 .. Len(tasks) : Follows(tasks[i]) /\ Begun(tasks[i]) = 0 /\ ~Validation(tasks[i])
  /\ \A i \in 1 .. Len(queue) : Follows(queue[i]) /\ (i > 1 => Begun(queue[i]) = 0)
  /\ \A i, j \in 1 .. Len(queue) : Validation(queue[i]) \/ Validation(queue[j]) \/ i = j
  /\ ended # "none" => \A i \in 1 .. Len(queue) : Validation(queue[i])

(* The current command is that of the step of the first job that began last. *)
CurrentInv ==
  IF queue = <<>> \/ Begun(Job) = 0
  THEN command = "Lambda" /\ todo = {} /\ awaited = {}
  ELSE /\ command = Plan(Job.name)[Begun(Job)].command
       /\ todo \cup awaited \subseteq Plan(Job.name)[Begun(Job)].devices

BaseInv == TypeOK /\ JobInv /\ CurrentInv

LEMMA Difference == ASSUME NEW m \in Nat, NEW n \in Nat, n <= m PROVE m - n \in 0 .. m
  OBVIOUS

LEMMA JobTyped ==
  ASSUME NEW j \in JobType
  PROVE  /\ j.name \in JobNames /\ j.steps \in Seq(StepType) /\ Len(j.steps) \in Nat
         /\ Len(Plan(j.name)) \in 1 .. 7 /\ Begun(j) \in Int
         /\ Follows(j) => Begun(j) \in 0 .. Len(Plan(j.name))
<1>1. j.name \in JobNames /\ j.steps \in Seq(StepType)
  BY DEF JobType, JobNames, StepType
<1>2. Len(Plan(j.name)) \in 1 .. 7 /\ Len(j.steps) \in Nat
  BY <1>1, PlanLength
<1>3. Begun(j) \in Int
  BY <1>2 DEF Begun
<1>4. ASSUME Follows(j) PROVE Begun(j) \in 0 .. Len(Plan(j.name))
  <2>1. Len(j.steps) <= Len(Plan(j.name))
    BY <1>4 DEF Follows
  <2>2. Len(Plan(j.name)) \in Nat /\ Len(j.steps) \in Nat
    BY <1>2
  <2>3. Len(Plan(j.name)) - Len(j.steps) \in 0 .. Len(Plan(j.name))
    BY ONLY <2>1, <2>2, Difference
  <2> QED BY <2>3 DEF Begun
<1> QED BY <1>1, <1>2, <1>3, <1>4

LEMMA QueueIs ==
  ASSUME TypeOK, queue # <<>>
  PROVE  /\ Len(queue) \in Nat /\ Len(queue) >= 1 /\ 1 \in 1 .. Len(queue)
         /\ Job = queue[1] /\ Job \in JobType
         /\ Tail(queue) \in Seq(JobType) /\ Len(Tail(queue)) = Len(queue) - 1
         /\ \A i \in 1 .. Len(Tail(queue)) :
              i + 1 \in 1 .. Len(queue) /\ i + 1 > 1 /\ Tail(queue)[i] = queue[i + 1]
  BY HeadTailProperties, EmptySeq DEF TypeOK, Job

(* The step at work, when some command is being sent or executed. *)
LEMMA AtStage ==
  ASSUME BaseInv, todo \cup awaited # {}
  PROVE  /\ queue # <<>> /\ Job \in JobType /\ Follows(Job)
         /\ Begun(Job) \in 1 .. Len(Plan(Job.name))
         /\ todo \cup awaited \subseteq Plan(Job.name)[Begun(Job)].devices
         /\ StageOf(Job.name, Begun(Job), command, Plan(Job.name)[Begun(Job)].devices)
         /\ command \in Commands
<1>1. /\ queue # <<>> /\ Begun(Job) # 0
      /\ command = Plan(Job.name)[Begun(Job)].command
      /\ todo \cup awaited \subseteq Plan(Job.name)[Begun(Job)].devices
  BY DEF BaseInv, CurrentInv
<1>2. Job \in JobType /\ Follows(Job)
  BY <1>1, QueueIs DEF BaseInv, JobInv
<1>3. Begun(Job) \in 1 .. Len(Plan(Job.name)) /\ Job.name \in JobNames
  BY <1>1, <1>2, JobTyped
<1>4. StageOf(Job.name, Begun(Job), command, Plan(Job.name)[Begun(Job)].devices)
  BY <1>1, <1>3, Stages
<1>5. command \in Commands
  BY <1>1, <1>4 DEF StageOf
<1> QED BY <1>1, <1>2, <1>3, <1>4, <1>5

(* How the jobs change: a job is appended to those that wait, or to those  *)
(* in the executor; the first job goes; sub-devices report.                *)

jobs == <<tasks, queue, ended, command, todo, awaited>>

LEMMA SameJobs ==
  ASSUME BaseInv, UNCHANGED jobs
  PROVE  JobInv' /\ CurrentInv'
  BY DEF BaseInv, JobInv, CurrentInv, Job, jobs

LEMMA JobsGoOn ==
  ASSUME BaseInv, UNCHANGED <<tasks, queue, ended, command>>,
         todo' \cup awaited' \subseteq todo \cup awaited
  PROVE  JobInv' /\ CurrentInv'
<1>1. JobInv'
  BY DEF BaseInv, JobInv
<1>2. CurrentInv'
  BY DEF BaseInv, CurrentInv, Job
<1> QED BY <1>1, <1>2

LEMMA AppendIs ==
  ASSUME NEW s \in Seq(JobType), NEW j \in JobType
  PROVE  /\ Append(s, j) \in Seq(JobType) /\ Append(s, j) # <<>>
         /\ Len(s) \in Nat /\ Len(Append(s, j)) = Len(s) + 1
         /\ \A i \in 1 .. Len(Append(s, j)) :
              \/ i \in 1 .. Len(s) /\ Append(s, j)[i] = s[i]
              \/ i = Len(s) + 1 /\ Append(s, j)[i] = j
         /\ \A i \in 1 .. Len(s) : i \in 1 .. Len(Append(s, j)) /\ Append(s, j)[i] = s[i]
         /\ Len(s) + 1 \in 1 .. Len(Append(s, j)) /\ Append(s, j)[Len(s) + 1] = j
         /\ s = <<>> <=> Len(s) = 0
<1>1. /\ Append(s, j) \in Seq(JobType) /\ Append(s, j) # <<>>
      /\ Len(Append(s, j)) = Len(s) + 1 /\ Len(s) \in Nat
      /\ \A i \in 1 .. Len(s) : Append(s, j)[i] = s[i]
      /\ Append(s, j)[Len(s) + 1] = j
  BY AppendProperties, LenProperties
<1>2. s = <<>> <=> Len(s) = 0
  BY EmptySeq
<1> HIDE DEF JobType
<1> QED BY <1>1, <1>2

LEMMA TaskAppended ==
  ASSUME BaseInv, NEW j \in JobType, Follows(j), Begun(j) = 0, ~Validation(j),
         tasks' = Append(tasks, j), UNCHANGED <<queue, ended, command, todo, awaited>>
  PROVE  tasks' \in Seq(JobType) /\ JobInv' /\ CurrentInv'
<1>1. tasks \in Seq(JobType)
  BY DEF BaseInv, TypeOK
<1>2. \A i \in 1 .. Len(tasks') : \/ i \in 1 .. Len(tasks) /\ tasks'[i] = tasks[i]
                                  \/ tasks'[i] = j
  BY <1>1, AppendIs
<1>3. JobInv'
  BY <1>2 DEF BaseInv, JobInv
<1>4. CurrentInv'
  BY DEF BaseInv, CurrentInv, Job
<1> QED BY <1>1, <1>3, <1>4, AppendIs

LEMMA QueueAppended ==
  ASSUME BaseInv, NEW j \in JobType, Follows(j), Begun(j) = 0,
         queue' = Append(queue, j), UNCHANGED <<ended, command, todo, awaited>>,
         \A i \in 1 .. Len(queue) : Validation(queue[i]) \/ Validation(j),
         ended # "none" => Validation(j),
         \A i \in 1 .. Len(tasks') :
           Follows(tasks'[i]) /\ Begun(tasks'[i]) = 0 /\ ~Validation(tasks'[i])
  PROVE  queue' \in Seq(JobType) /\ JobInv' /\ CurrentInv'
<1>1. queue \in Seq(JobType)
  BY DEF BaseInv, TypeOK
<1>2. \A i \in 1 .. Len(queue') : \/ i \in 1 .. Len(queue) /\ queue'[i] = queue[i]
                                  \/ i = Len(queue) + 1 /\ queue'[i] = j
  BY <1>1, AppendIs
<1>3. queue' \in Seq(JobType) /\ queue' # <<>> /\ Len(queue) \in Nat
  BY <1>1, AppendIs
<1>4. JobInv'
  <2>1. \A i \in 1 .. Len(queue') : Follows(queue'[i]) /\ (i > 1 => Begun(queue'[i]) = 0)
    BY <1>2 DEF BaseInv, JobInv
  <2>2. \A i, k \in 1 .. Len(queue') : Validation(queue'[i]) \/ Validation(queue'[k]) \/ i = k
    BY <1>2 DEF BaseInv, JobInv
  <2>3. ended' # "none" => \A i \in 1 .. Len(queue') : Validation(queue'[i])
    BY <1>2 DEF BaseInv, JobInv
  <2> QED BY <2>1, <2>2, <2>3 DEF JobInv
<1>5. CurrentInv'
  <2>1. CASE queue = <<>>
    <3>1. Len(queue) = 0 /\ queue'[1] = j /\ Job' = queue'[1]
      BY <1>1, <1>3, <2>1, AppendIs DEF Job
    <3> QED BY <3>1, <2>1 DEF BaseInv, CurrentInv
  <2>2. CASE queue # <<>>
    <3>1. Job = queue[1] /\ queue'[1] = queue[1] /\ Job' = queue'[1]
      BY <1>1, <1>3, <2>2, AppendIs, QueueIs DEF Job, BaseInv
    <3> QED BY <3>1, <2>2, <1>3 DEF BaseInv, CurrentInv
  <2> QED BY <2>1, <2>2
<1> QED BY <1>3, <1>4, <1>5

LEMMA JobGone ==
  ASSUME BaseInv, queue # <<>>, queue' = Tail(queue), command' = "Lambda", todo' = {},
         awaited' = {}, UNCHANGED tasks, ended' = ended \/ ~Validation(Job)
  PROVE  queue' \in Seq(JobType) /\ JobInv' /\ CurrentInv'
<1>1. /\ queue' \in Seq(JobType) /\ Len(queue) \in Nat /\ Len(queue') = Len(queue) - 1
      /\ \A i \in 1 .. Len(queue') : /\ i + 1 \in 1 .. Len(queue) /\ i + 1 > 1
                                     /\ queue'[i] = queue[i + 1]
      /\ Job = queue[1] /\ 1 \in 1 .. Len(queue)
  BY QueueIs DEF BaseInv
<1>2. JobInv'
  <2>1. \A i \in 1 .. Len(queue') : Follows(queue'[i]) /\ Begun(queue'[i]) = 0
    BY <1>1 DEF BaseInv, JobInv
  <2>2. \A i, k \in 1 .. Len(queue') : Validation(queue'[i]) \/ Validation(queue'[k]) \/ i = k
    BY <1>1 DEF BaseInv, JobInv
  <2>3. ASSUME ended' # "none", NEW i \in 1 .. Len(queue') PROVE Validation(queue'[i])
    <3>1. CASE ended' = ended
      BY <1>1, <2>3, <3>1 DEF BaseInv, JobInv
    <3>2. CASE ~Validation(Job)
      BY <1>1, <3>2 DEF BaseInv, JobInv
    <3> QED BY <3>1, <3>2
  <2> QED BY <2>1, <2>2, <2>3 DEF BaseInv, JobInv
<1>3. CurrentInv'
  <2>1. ASSUME queue' # <<>> PROVE Begun(Job') = 0
    <3>1. Job' = queue'[1] /\ 1 \in 1 .. Len(queue')
      BY <1>1, <2>1, EmptySeq DEF Job
    <3> QED BY <1>1, <3>1 DEF BaseInv, JobInv
  <2> QED BY <2>1 DEF CurrentInv
<1> QED BY <1>1, <1>2, <1>3

(* What a job is when its next step has begun. *)
Onward(j) == [j EXCEPT !.steps = Tail(@)]

LEMMA LessOne == ASSUME NEW m \in Nat, NEW n \in Nat PROVE m - (n - 1) = (m - n) + 1
  OBVIOUS

LEMMA Later ==
  ASSUME NEW m \in Int, NEW n \in Int, NEW i \in Int, m = n + 1
  PROVE  m + i = n + (i + 1)
  OBVIOUS

LEMMA OnwardIs ==
  ASSUME NEW j \in JobType, Follows(j), j.steps # <<>>
  PROVE  /\ Onward(j) \in JobType /\ Onward(j).name = j.name /\ Follows(Onward(j))
         /\ Begun(Onward(j)) = Begun(j) + 1 /\ Begun(Onward(j)) \in 1 .. Len(Plan(j.name))
         /\ Head(j.steps) \in StepType
         /\ Head(j.steps).command = Plan(j.name)[Begun(Onward(j))].command
         /\ Head(j.steps).devices \subseteq Plan(j.name)[Begun(Onward(j))].devices
         /\ j.name \notin {"Abort", "ObsReset"}
              => Head(j.steps).devices = Plan(j.name)[Begun(Onward(j))].devices
         /\ Head(j.steps) = j.steps[1] /\ 1 \in 1 .. Len(j.steps)
         /\ Len(Onward(j).steps) = Len(j.steps) - 1
         /\ \A i \in 1 .. Len(Onward(j).steps) :
              i + 1 \in 1 .. Len(j.steps) /\ Onward(j).steps[i] = j.steps[i + 1]
<1>1. /\ j.name \in JobNames /\ j.steps \in Seq(StepType)
      /\ Len(j.steps) \in Nat /\ Len(Plan(j.name)) \in Nat
  BY JobTyped
<1>2. /\ Onward(j).name = j.name /\ Onward(j).steps = Tail(j.steps)
      /\ Onward(j) = [name |-> j.name, steps |-> Tail(j.steps)]
  BY DEF Onward, JobType
<1>3. /\ Head(j.steps) \in StepType /\ Tail(j.steps) \in Seq(StepType)
      /\ Len(Tail(j.steps)) = Len(j.steps) - 1
      /\ \A i \in 1 .. Len(Tail(j.steps)) : Tail(j.steps)[i] = j.steps[i + 1]
      /\ Head(j.steps) = j.steps[1] /\ Len(j.steps) # 0
  BY <1>1, HeadTailProperties, EmptySeq
<1>4. Onward(j) \in JobType
  BY <1>1, <1>2, <1>3 DEF JobType, JobNames, StepType
<1>5. Begun(Onward(j)) = Begun(j) + 1
  <2>1. Len(Plan(j.name)) - (Len(j.steps) - 1) = (Len(Plan(j.name)) - Len(j.steps)) + 1
    BY ONLY <1>1, LessOne
  <2> QED BY <1>2, <1>3, <2>1 DEF Begun
<1>6. /\ 1 \in 1 .. Len(j.steps)
      /\ \A i \in 1 .. Len(Onward(j).steps) :
           i \in Nat /\ i + 1 \in 1 .. Len(j.steps) /\ Onward(j).steps[i] = j.steps[i + 1]
  BY <1>1, <1>2, <1>3
<1>7. Begun(j) \in Int /\ Begun(j) \in 0 .. Len(Plan(j.name)) /\ Begun(j) = Len(Plan(j.name)) - Len(j.steps)
  BY JobTyped DEF Begun
<1>8. Begun(Onward(j)) \in 1 .. Len(Plan(j.name))
  BY <1>1, <1>5, <1>6, <1>7
<1>9. Follows(Onward(j))
  <2>1. Len(Onward(j).steps) <= Len(Plan(Onward(j).name))
    BY <1>1, <1>2, <1>3 DEF Follows
  <2>2. ASSUME NEW i \in 1 .. Len(Onward(j).steps)
        PROVE  /\ Onward(j).steps[i].command = Plan(Onward(j).name)[Begun(Onward(j)) + i].command
               /\ Onward(j).steps[i].devices
                    \subseteq Plan(Onward(j).name)[Begun(Onward(j)) + i].devices
               /\ Onward(j).name \notin {"Abort", "ObsReset"}
                    => Onward(j).steps[i].devices
                         = Plan(Onward(j).name)[Begun(Onward(j)) + i].devices
    <3>1. Begun(Onward(j)) + i = Begun(j) + (i + 1)
      <4>1. i \in Int /\ Begun(j) \in Int /\ Begun(Onward(j)) \in Int
        BY <1>6, <1>7, <1>8
      <4> QED BY ONLY <1>5, <4>1, Later
    <3> QED BY <1>2, <1>6, <3>1 DEF Follows
  <2> QED BY <2>1, <2>2 DEF Follows
<1>10. Begun(j) + 1 = Begun(Onward(j))
  BY <1>5
<1>11. /\ Head(j.steps).command = Plan(j.name)[Begun(Onward(j))].command
       /\ Head(j.steps).devices \subseteq Plan(j.name)[Begun(Onward(j))].devices
       /\ j.name \notin {"Abort", "ObsReset"}
            => Head(j.steps).devices = Plan(j.name)[Begun(Onward(j))].devices
  BY <1>3, <1>6, <1>10 DEF Follows
<1> QED
  BY <1>2, <1>3, <1>4, <1>5, <1>6, <1>8, <1>9, <1>11

LEMMA BeginStepIs ==
  ASSUME BaseInv, BeginStep
  PROVE  /\ queue # <<>> /\ Job = queue[1] /\ Job \in JobType /\ Follows(Job) /\ Job.steps # <<>>
         /\ 1 \in 1 .. Len(queue)
         /\ queue' \in Seq(JobType) /\ Len(queue') = Len(queue) /\ queue' # <<>>
         /\ queue'[1] = Onward(Job) /\ Job' = queue'[1]
         /\ \A i \in 1 .. Len(queue) : i # 1 => queue'[i] = queue[i]
         /\ todo = {} /\ awaited = {} /\ awaited' = {}
         /\ command' = Head(Job.steps).command /\ todo' = Head(Job.steps).devices
<1>1. queue # <<>> /\ Job.steps # <<>> /\ todo = {} /\ awaited = {} /\ awaited' = {}
  BY DEF BeginStep, StepOver
<1>2. command' = Head(Job.steps).command /\ todo' = Head(Job.steps).devices
  BY DEF BeginStep
<1>3. Job = queue[1] /\ Job \in JobType /\ 1 \in 1 .. Len(queue) /\ Len(queue) \in Nat
  BY <1>1, QueueIs DEF BaseInv
<1>4. Follows(Job)
  BY <1>3 DEF BaseInv, JobInv
<1>5. Onward(Job) \in JobType
  BY <1>1, <1>3, <1>4, OnwardIs
<1>6. queue' = [queue EXCEPT ![1] = Onward(Job)]
  BY <1>3 DEF BeginStep, Onward
<1>7. /\ queue' \in Seq(JobType) /\ Len(queue') = Len(queue)
      /\ \A i \in 1 .. Len(queue) : queue'[i] = IF i = 1 THEN Onward(Job) ELSE queue[i]
  BY <1>3, <1>5, <1>6, ExceptSeq DEF BaseInv, TypeOK
<1>8. queue' # <<>>
  BY <1>3, <1>7, EmptySeq
<1>9. Job' = queue'[1]
  BY <1>7, <1>8 DEF Job
<1> QED BY <1>1, <1>2, <1>3, <1>4, <1>7, <1>8, <1>9

LEMMA StepBegun ==
  ASSUME BaseInv, BeginStep
  PROVE  /\ queue' \in Seq(JobType) /\ JobInv' /\ CurrentInv'
         /\ command' \in Commands \cup {"Lambda"} /\ todo' \subseteq Devices
<1>1. /\ Onward(Job).name = Job.name /\ Follows(Onward(Job))
      /\ Begun(Onward(Job)) \in 1 .. Len(Plan(Job.name))
      /\ Head(Job.steps) \in StepType
      /\ Head(Job.steps).command = Plan(Job.name)[Begun(Onward(Job))].command
      /\ Head(Job.steps).devices \subseteq Plan(Job.name)[Begun(Onward(Job))].devices
  BY BeginStepIs, OnwardIs
<1>2. JobInv'
  <2>1. UNCHANGED <<tasks, ended>>
    BY DEF BeginStep
  <2>2. \A i \in 1 .. Len(queue') : /\ i \in 1 .. Len(queue) /\ queue'[i].name = queue[i].name
                                    /\ Follows(queue'[i])
                                    /\ i > 1 => Begun(queue'[i]) = 0
    BY <1>1, BeginStepIs DEF BaseInv, JobInv
  <2> QED BY <2>1, <2>2 DEF BaseInv, JobInv, Validation
<1>3. CurrentInv'
  BY <1>1, BeginStepIs DEF CurrentInv
<1>4. command' \in Commands \cup {"Lambda"} /\ todo' \subseteq Devices
  BY <1>1, BeginStepIs DEF StepType
<1> QED BY <1>2, <1>3, <1>4, BeginStepIs

LEMMA FailsIs ==
  ASSUME BaseInv, queue # <<>>, NEW D \in SUBSET Devices, D # {} => command \in Commands,
         Fails(D), UNCHANGED <<tasks, ended>>
  PROVE  /\ JobInv' /\ CurrentInv' /\ clean' = FALSE
         /\ queue' \in Seq(JobType) /\ late' \subseteq Devices \X Commands
         /\ command' = "Lambda" /\ todo' = {} /\ awaited' = {}
<1>1. queue' = Tail(queue) /\ command' = "Lambda" /\ todo' = {} /\ awaited' = {}
  BY DEF Fails
<1>2. late' \subseteq Devices \X Commands
  BY DEF Fails, BaseInv, TypeOK
<1>3. clean' = FALSE
  BY DEF Fails
<1> QED BY <1>1, <1>2, <1>3, JobGone

(* A report on the command at work ends the waiting for the sub-device, or *)
(* fails the job; any other changes nothing.                               *)
LEMMA ReportIs ==
  ASSUME BaseInv, NEW d \in Devices, NEW c, NEW ok, Report(d, c, ok), UNCHANGED <<tasks, ended>>
  PROVE  /\ JobInv' /\ CurrentInv'
         /\ \/ UNCHANGED <<queue, command, todo, awaited, late, clean>> /\ ~(d \in awaited /\ c = command)
            \/ /\ d \in awaited /\ c = command /\ ok
               /\ awaited' = awaited \ {d} /\ UNCHANGED <<queue, command, todo, late, clean>>
            \/ /\ d \in awaited /\ c = command /\ ~ok
               /\ queue # <<>> /\ Fails(todo)
               /\ queue' \in Seq(JobType) /\ late' \subseteq Devices \X Commands
<1>1. CASE ~(d \in awaited /\ c = command)
  <2>1. UNCHANGED <<queue, command, todo, awaited, late, clean>>
    BY <1>1 DEF Report
  <2> QED BY <2>1, <1>1, SameJobs DEF jobs
<1>2. CASE d \in awaited /\ c = command /\ ok
  <2>1. awaited' = awaited \ {d} /\ UNCHANGED <<queue, command, todo, late, clean>>
    BY <1>2 DEF Report
  <2> QED BY <2>1, <1>2, JobsGoOn
<1>3. CASE d \in awaited /\ c = command /\ ~ok
  <2>1. Fails(todo)
    BY <1>3 DEF Report
  <2>2. queue # <<>> /\ command \in Commands
    BY <1>3, AtStage
  <2>3. todo \in SUBSET Devices
    BY DEF BaseInv, TypeOK
  <2> QED BY <2>1, <2>2, <2>3, <1>3, FailsIs
<1> QED BY <1>1, <1>2, <1>3

LEMMA JobCalled ==
  ASSUME BaseInv, NEW c \in BeamCommands, tasks' = Append(tasks, JobOf(c)),
         UNCHANGED <<queue, ended, command, todo, awaited>>
  PROVE  tasks' \in Seq(JobType) /\ JobInv' /\ CurrentInv'
<1>1. c \in JobNames /\ c # "ValidateConfigureScan"
  BY DEF JobNames, BeamCommands
<1>2. /\ JobOf(c) \in JobType /\ Follows(JobOf(c)) /\ Begun(JobOf(c)) = 0
      /\ ~Validation(JobOf(c))
  BY <1>1, JobOfIs DEF Validation
<1> QED BY <1>2, TaskAppended

LEMMA EventIs == BaseInv /\ (Event \/ UNCHANGED events) => events' \in 0 .. MaxEvents
  BY BoundsAssumption DEF Event, BaseInv, TypeOK

(* A command that has run its course leads the sub-device on, or is        *)
(* refused.                                                                *)
LEMMA SucceedIs ==
  ASSUME BaseInv, NEW d \in Devices, NEW c \in Commands, Succeed(d, c)
  PROVE  \E q \in States, ok \in BOOLEAN :
           /\ dev' = [dev EXCEPT ![d] = q] /\ Report(d, c, ok)
           /\ ok => Leads(dev[d], c, q)
           /\ ~ok => (q = "FAULT" => dev[d] = "FAULT")
<1>1. /\ dev' = [dev EXCEPT ![d] = Completed(dev[d], c).state]
      /\ Report(d, c, Completed(dev[d], c).ok)
  BY DEF Succeed
<1>2. dev[d] \in States
  BY DEF BaseInv, TypeOK
<1>3. CASE \E q \in States : Completed(dev[d], c) = Refused(q) /\ (q = "FAULT" => dev[d] = "FAULT")
  <2>1. PICK q \in States : Completed(dev[d], c) = Refused(q) /\ (q = "FAULT" => dev[d] = "FAULT")
    BY <1>3
  <2>2. dev' = [dev EXCEPT ![d] = q] /\ Report(d, c, FALSE)
    BY <1>1, <2>1, Outcomes
  <2> QED BY <2>1, <2>2
<1>4. CASE \E q \in States : Completed(dev[d], c) = From(q) /\ Leads(dev[d], c, q)
  <2>1. PICK q \in States : Completed(dev[d], c) = From(q) /\ Leads(dev[d], c, q)
    BY <1>4
  <2>2. dev' = [dev EXCEPT ![d] = q] /\ Report(d, c, TRUE)
    BY <1>1, <2>1, Outcomes
  <2> QED BY <2>1, <2>2
<1> QED BY <1>2, <1>3, <1>4, CompletedIs

(* The variables that the jobs do not touch keep their types in each step. *)
LEMMA BaseStep ==
  ASSUME BaseInv, beam # "EMPTY", [Next]_vars
  PROVE  BaseInv'
<1> USE DEF BaseInv
<1>1. CASE ConfigureScan
  <2> DEFINE j == JobOf("ValidateConfigureScan")
  <2>1. j \in JobType /\ Follows(j) /\ Begun(j) = 0 /\ Validation(j)
    BY JobOfIs DEF JobNames, Validation
  <2>2. UNCHANGED <<tasks, ended, command, todo, awaited>> /\ queue' = Append(queue, j)
    BY <1>1 DEF ConfigureScan
  <2>3. \A i \in 1 .. Len(tasks') :
          Follows(tasks'[i]) /\ Begun(tasks'[i]) = 0 /\ ~Validation(tasks'[i])
    BY <2>2 DEF JobInv
  <2>4. queue' \in Seq(JobType) /\ JobInv' /\ CurrentInv'
    BY <2>1, <2>2, <2>3, QueueAppended
  <2>5. events' \in 0 .. MaxEvents
    BY <1>1, EventIs DEF ConfigureScan
  <2>6. TypeOK'
    BY <1>1, <2>2, <2>4, <2>5 DEF ConfigureScan, TypeOK, devVars
  <2> QED BY <2>4, <2>6
<1>2. CASE ConfigureInvoked
  <2>1. /\ UNCHANGED <<configured, queue, ended, command, todo, awaited, late, clean, devVars,
                       events>>
        /\ validated' \in Nat
    BY <1>2 DEF ConfigureInvoked, TypeOK
  <2>2. CASE Allowed(beam, "configure_invoked")
    <3>1. beam' \in States
      BY <1>2, <2>2, Calls DEF ConfigureInvoked, States
    <3>2. tasks' = Append(tasks, JobOf("ConfigureScan"))
      BY <1>2, <2>2 DEF ConfigureInvoked
    <3>3. tasks' \in Seq(JobType) /\ JobInv' /\ CurrentInv'
      BY <2>1, <3>2, JobCalled DEF BeamCommands
    <3> QED BY <2>1, <3>1, <3>3 DEF TypeOK, devVars
  <2>3. CASE ~Allowed(beam, "configure_invoked")
    <3>1. UNCHANGED <<beam, tasks>>
      BY <1>2, <2>3 DEF ConfigureInvoked
    <3> QED BY <2>1, <3>1, SameJobs DEF TypeOK, devVars, jobs
  <2> QED BY <2>2, <2>3
<1>3. ASSUME NEW c \in BeamCommands, Call(c), beam' \in States
      PROVE  BaseInv'
  <2>1. tasks' \in Seq(JobType) /\ JobInv' /\ CurrentInv'
    BY <1>3, JobCalled DEF Call
  <2>2. events' \in 0 .. MaxEvents
    BY <1>3, EventIs DEF Call
  <2> QED BY <1>3, <2>1, <2>2 DEF Call, TypeOK, devVars
<1>4. CASE DeconfigureScan \/ Scan \/ EndScan
  BY <1>3, <1>4 DEF DeconfigureScan, Scan, EndScan, BeamCommands, TypeOK
<1>5. CASE Abort
  <2>1. beam' = "ABORTING"
    BY <1>5, Calls DEF Abort
  <2> QED BY <1>3, <1>5, <2>1 DEF Abort, BeamCommands, States
<1>6. CASE ObsReset
  <2>1. beam' = "RESETTING"
    BY <1>6, Calls DEF ObsReset
  <2> QED BY <1>3, <1>6, <2>1 DEF ObsReset, BeamCommands, States
<1>7. CASE GoToFault
  <2>1. tasks' \in Seq(JobType) /\ JobInv' /\ CurrentInv'
    BY <1>7, JobCalled DEF GoToFault, BeamCommands
  <2>2. events' \in 0 .. MaxEvents
    BY <1>7, EventIs DEF GoToFault
  <2> QED BY <1>7, <2>1, <2>2 DEF GoToFault, TypeOK, devVars
<1>8. CASE TakeTask
  <2>1. tasks \in Seq(JobType) /\ tasks # <<>>
    BY <1>8 DEF TakeTask, TypeOK
  <2>2. /\ Head(tasks) \in JobType /\ Head(tasks) = tasks[1] /\ 1 \in 1 .. Len(tasks)
        /\ Tail(tasks) \in Seq(JobType)
        /\ \A i \in 1 .. Len(Tail(tasks)) : i + 1 \in 1 .. Len(tasks) /\ Tail(tasks)[i] = tasks[i + 1]
    BY <2>1, HeadTailProperties, EmptySeq
  <2>3. Follows(Head(tasks)) /\ Begun(Head(tasks)) = 0 /\ ~Validation(Head(tasks))
    BY <2>2 DEF JobInv
  <2>4. /\ queue' = Append(queue, Head(tasks)) /\ tasks' = Tail(tasks)
        /\ UNCHANGED <<beam, configured, validated, ended, command, todo, awaited, late, clean,
                       devVars, events>>
    BY <1>8 DEF TakeTask
  <2>5. ended = "none" /\ \A i \in 1 .. Len(queue) : Validation(queue[i])
    BY <1>8 DEF TakeTask, AtWork, Validation
  <2>6. \A i \in 1 .. Len(tasks') :
          Follows(tasks'[i]) /\ Begun(tasks'[i]) = 0 /\ ~Validation(tasks'[i])
    BY <2>2, <2>4 DEF JobInv
  <2>7. queue' \in Seq(JobType) /\ JobInv' /\ CurrentInv'
    BY <2>2, <2>3, <2>4, <2>5, <2>6, QueueAppended
  <2> QED BY <2>2, <2>4, <2>7 DEF TypeOK, devVars
<1>9. CASE BeginStep
  <2>1. /\ queue' \in Seq(JobType) /\ JobInv' /\ CurrentInv'
        /\ command' \in Commands \cup {"Lambda"} /\ todo' \subseteq Devices
    BY <1>9, StepBegun
  <2>2. UNCHANGED <<beam, configured, validated, tasks, ended, awaited, late, clean, devVars, events>>
    BY <1>9 DEF BeginStep
  <2> QED BY <2>1, <2>2 DEF TypeOK, devVars
<1>10. CASE WriteFails
  <2>1. /\ UNCHANGED <<beam, configured, validated, tasks, ended, dev, running, news>>
        /\ Fails({}) /\ queue # <<>>
    BY <1>10 DEF WriteFails, StepOver
  <2>2. /\ JobInv' /\ CurrentInv' /\ clean' = FALSE
        /\ queue' \in Seq(JobType) /\ late' \subseteq Devices \X Commands
        /\ command' = "Lambda" /\ todo' = {} /\ awaited' = {}
    BY <2>1, FailsIs
  <2>3. events' \in 0 .. MaxEvents
    BY <1>10, EventIs DEF WriteFails
  <2> QED BY <2>1, <2>2, <2>3 DEF TypeOK
<1>11. CASE JobEnds
  <2>1. /\ queue # <<>> /\ todo = {} /\ awaited = {} /\ queue' = Tail(queue) /\ command' = "Lambda"
        /\ UNCHANGED <<beam, configured, tasks, todo, awaited, late, clean, devVars, events>>
    BY <1>11 DEF JobEnds, StepOver
  <2>2. Job.name \in JobNames
    BY <2>1, QueueIs, JobTyped
  <2>3. CASE Validation(Job)
    <3>1. validated' = validated + 1 /\ ended' = ended
      BY <1>11, <2>3 DEF JobEnds, Validation
    <3>2. queue' \in Seq(JobType) /\ JobInv' /\ CurrentInv'
      BY <2>1, <3>1, JobGone
    <3> QED BY <2>1, <3>1, <3>2 DEF TypeOK, devVars
  <2>4. CASE ~Validation(Job)
    <3>1. ended' = Job.name /\ validated' = validated
      BY <1>11, <2>4 DEF JobEnds, Validation
    <3>2. queue' \in Seq(JobType) /\ JobInv' /\ CurrentInv'
      BY <2>1, <2>4, JobGone
    <3>3. ended' \in BeamCommands
      BY <2>2, <2>4, <3>1 DEF JobNames, Validation
    <3> QED BY <2>1, <3>1, <3>2, <3>3 DEF TypeOK, devVars
  <2> QED BY <2>3, <2>4
<1>12. CASE Callback
  <2>1. /\ ended \in BeamCommands /\ ended' = "none"
        /\ UNCHANGED <<validated, queue, command, todo, awaited, late, clean, devVars, events>>
    BY <1>12 DEF Callback, TypeOK
  <2>2. beam' \in States
    <3>1. beam \in States
      BY DEF TypeOK
    <3> QED BY <1>12, <2>1, <3>1, CallbackIs, BecomesIs DEF BeamCommands, States
  <2>3. configured' \in BOOLEAN
    BY <1>12 DEF Callback, TypeOK, Allowed
  <2>4. tasks' = tasks \/ tasks' = <<>>
    BY <1>12 DEF Callback
  <2>5. tasks' \in Seq(JobType) /\ \A i \in 1 .. Len(tasks') : i \in 1 .. Len(tasks) /\ tasks'[i] = tasks[i]
    <3>1. CASE tasks' = tasks
      BY <3>1 DEF TypeOK
    <3>2. CASE tasks' = <<>>
      BY <3>2, EmptySeq
    <3> QED BY <2>4, <3>1, <3>2
  <2>6. JobInv'
    BY <2>1, <2>5 DEF JobInv
  <2>7. CurrentInv'
    BY <2>1 DEF CurrentInv, Job
  <2> QED BY <2>1, <2>2, <2>3, <2>5, <2>6, <2>7 DEF TypeOK, devVars
<1>13. ASSUME NEW d \in Devices, Send(d)
       PROVE  BaseInv'
  <2>1. d \in todo /\ UNCHANGED <<beam, configured, validated, tasks, ended, news, events>>
    BY <1>13 DEF Send
  <2>2. command \in Commands /\ queue # <<>>
    BY <2>1, AtStage
  <2>3. CASE Taken(dev[d], command)
    <3>1. /\ dev' = [dev EXCEPT ![d] = Invoked(@, command)]
          /\ running' = [running EXCEPT ![d] = @ \cup {command}]
          /\ todo' = todo \ {d} /\ awaited' = awaited \cup {d}
          /\ UNCHANGED <<queue, command, late, clean>>
      BY <1>13, <2>3 DEF Send
    <3>2. JobInv' /\ CurrentInv'
      BY <2>1, <3>1, JobsGoOn
    <3>3. dev[d] \in States
      BY DEF TypeOK
    <3>4. Invoked(dev[d], command) \in States
      BY <2>2, <2>3, <3>3, TakenIs
    <3>5. dev' \in [Devices -> States] /\ running' \in [Devices -> SUBSET Commands]
      BY <3>1, <3>4, <2>2 DEF TypeOK
    <3> QED BY <2>1, <3>1, <3>2, <3>5 DEF TypeOK
  <2>4. CASE ~Taken(dev[d], command)
    <3>1. Fails(todo \ {d}) /\ UNCHANGED <<dev, running>>
      BY <1>13, <2>4 DEF Send
    <3>2. todo \ {d} \in SUBSET Devices
      BY DEF TypeOK
    <3>3. /\ JobInv' /\ CurrentInv' /\ clean' = FALSE
          /\ queue' \in Seq(JobType) /\ late' \subseteq Devices \X Commands
          /\ command' = "Lambda" /\ todo' = {} /\ awaited' = {}
      BY <2>1, <2>2, <3>1, <3>2, FailsIs
    <3> QED BY <2>1, <3>1, <3>3 DEF TypeOK
  <2> QED BY <2>3, <2>4
<1>14. ASSUME NEW d \in Devices, FaultEvent(d)
       PROVE  BaseInv'
  <2>1. /\ beam' = "FAULT" /\ news' \subseteq Devices
        /\ UNCHANGED <<configured, validated, jobVars, dev, running, events>>
    BY <1>14 DEF FaultEvent, TypeOK
  <2>2. JobInv' /\ CurrentInv'
    BY <2>1, SameJobs DEF jobs, jobVars
  <2> QED BY <2>1, <2>2 DEF TypeOK, jobVars, States
<1>15. ASSUME NEW d \in Devices, NEW c \in Commands, SendLate(d, c)
       PROVE  BaseInv'
  <2>1. /\ Taken(dev[d], c) /\ late' \subseteq late
        /\ dev' = [dev EXCEPT ![d] = Invoked(@, c)]
        /\ running' = [running EXCEPT ![d] = @ \cup {c}]
        /\ UNCHANGED <<beam, configured, validated, tasks, queue, ended, command, todo, awaited,
                       clean, news, events>>
    BY <1>15 DEF SendLate
  <2>2. JobInv' /\ CurrentInv'
    BY <2>1, SameJobs DEF jobs
  <2>3. dev[d] \in States
    BY DEF TypeOK
  <2>4. Invoked(dev[d], c) \in States
    BY <2>1, <2>3, TakenIs
  <2>5. dev' \in [Devices -> States] /\ running' \in [Devices -> SUBSET Commands]
    BY <2>1, <2>4 DEF TypeOK
  <2> QED BY <2>1, <2>2, <2>5 DEF TypeOK
<1>16. ASSUME NEW d \in Devices, NEW c \in Commands, NEW ok, Report(d, c, ok),
              UNCHANGED <<beam, configured, validated, tasks, ended>>,
              running' = [running EXCEPT ![d] = @ \ {c}],
              dev' \in [Devices -> States], news' \subseteq Devices, events' \in 0 .. MaxEvents
       PROVE  BaseInv'
  <2>1. running' \in [Devices -> SUBSET Commands]
    BY <1>16 DEF TypeOK
  <2>2. JobInv' /\ CurrentInv'
    BY <1>16, ReportIs
  <2>3. /\ queue' \in Seq(JobType) /\ command' \in Commands \cup {"Lambda"}
        /\ todo' \subseteq Devices /\ awaited' \subseteq Devices
        /\ late' \subseteq Devices \X Commands /\ clean' \in BOOLEAN
    BY <1>16, ReportIs DEF TypeOK, Fails
  <2> QED BY <1>16, <2>1, <2>2, <2>3 DEF TypeOK
<1>17. ASSUME NEW d \in Devices, NEW c \in Commands, Succeed(d, c)
       PROVE  BaseInv'
  <2>1. PICK q \in States, ok \in BOOLEAN :
          /\ dev' = [dev EXCEPT ![d] = q] /\ Report(d, c, ok)
    BY <1>17, SucceedIs
  <2>2. /\ running' = [running EXCEPT ![d] = @ \ {c}] /\ news' \subseteq Devices
        /\ UNCHANGED <<beam, configured, validated, tasks, ended, events>>
    BY <1>17 DEF Succeed, TypeOK
  <2>3. dev' \in [Devices -> States]
    BY <2>1 DEF TypeOK
  <2> QED BY <1>16, <2>1, <2>2, <2>3 DEF TypeOK
<1>18. ASSUME NEW d \in Devices, NEW c \in Commands, Fail(d, c)
       PROVE  BaseInv'
  <2>1. /\ running' = [running EXCEPT ![d] = @ \ {c}]
        /\ Report(d, c, FALSE)
        /\ UNCHANGED <<beam, configured, validated, tasks, ended>>
    BY <1>18 DEF Fail
  <2>2. dev' \in [Devices -> States] /\ news' \subseteq Devices
    BY <1>18 DEF Fail, TypeOK, States
  <2>3. events' \in 0 .. MaxEvents
    BY <1>18, EventIs DEF Fail
  <2> QED BY <1>16, <2>1, <2>2, <2>3
<1>19. CASE UNCHANGED vars
  BY <1>19, SameJobs DEF vars, jobVars, devVars, jobs, TypeOK
<1> QED
  BY <1>1, <1>2, <1>4, <1>5, <1>6, <1>7, <1>8, <1>9, <1>10, <1>11, <1>12, <1>13, <1>14, <1>15,
     <1>17, <1>18, <1>19 DEF Next

-----------------------------------------------------------------------------
(* What the jobs have yet to do.                                           *)

InTasks(name) == \E i \in 1 .. Len(tasks) : tasks[i].name = name

(* The last command of a job for each sub-device, and whether the job has  *)
(* yet to come to it.                                                      *)
LastCommand(name) == IF name = "DeconfigureScan" THEN "DeconfigureBeam" ELSE name
ComesTo(j, d) ==
  \E i \in 1 .. Len(j.steps) : j.steps[i].command = LastCommand(j.name) /\ d \in j.steps[i].devices

(* The same of the jobs in the executor, the first of which may be at it.  *)
IsAt(name, d) == command = LastCommand(name) /\ d \in todo \cup awaited
AtHand(i, d) == \/ ComesTo(queue[i], d)
                \/ i = 1 /\ IsAt(queue[i].name, d)
YetTo(name, d) == \A i \in 1 .. Len(queue) : queue[i].name = name => AtHand(i, d)

LEMMA HandGone ==
  ASSUME BaseInv, queue # <<>>, queue' = Tail(queue), NEW d
  PROVE  \A i \in 1 .. Len(queue') :
           /\ i + 1 \in 1 .. Len(queue) /\ i + 1 # 1 /\ queue'[i] = queue[i + 1]
           /\ AtHand(i + 1, d) => AtHand(i, d)'
<1>1. \A i \in 1 .. Len(queue') :
        i + 1 \in 1 .. Len(queue) /\ i + 1 > 1 /\ queue'[i] = queue[i + 1]
  BY QueueIs DEF BaseInv
<1>2. ASSUME NEW i \in 1 .. Len(queue'), AtHand(i + 1, d) PROVE AtHand(i, d)'
  <2>1. i + 1 # 1
    BY <1>1
  <2>2. ComesTo(queue[i + 1], d)
    BY <1>2, <2>1 DEF AtHand
  <2>3. ComesTo(queue'[i], d)
    BY <1>1, <2>2
  <2> QED BY <2>3 DEF AtHand
<1>3. \A i \in 1 .. Len(queue') : i + 1 # 1
  BY <1>1
<1> QED BY <1>1, <1>2, <1>3

LEMMA YetToGone ==
  ASSUME BaseInv, queue # <<>>, queue' = Tail(queue), NEW d, NEW name, YetTo(name, d)
  PROVE  YetTo(name, d)'
  BY HandGone DEF YetTo

LEMMA HandBegun ==
  ASSUME BaseInv, BeginStep, NEW d, NEW i \in 1 .. Len(queue), AtHand(i, d)
  PROVE  i \in 1 .. Len(queue') /\ queue'[i].name = queue[i].name /\ AtHand(i, d)'
<1>1. CASE i # 1
  <2>1. queue'[i] = queue[i] /\ Len(queue') = Len(queue)
    BY <1>1, BeginStepIs
  <2>2. ComesTo(queue[i], d)
    BY <1>1 DEF AtHand
  <2>3. ComesTo(queue'[i], d)
    BY <2>1, <2>2
  <2> QED BY <2>1, <2>3 DEF AtHand
<1>2. CASE i = 1
  <2>1. /\ Job = queue[1] /\ queue'[1] = Onward(Job) /\ Onward(Job).name = Job.name
        /\ Len(queue') = Len(queue)
    BY BeginStepIs, OnwardIs
  <2>2. ~IsAt(Job.name, d)
    BY BeginStepIs DEF IsAt
  <2>3. ComesTo(Job, d)
    BY <1>2, <2>1, <2>2 DEF AtHand
  <2>4. PICK k \in 1 .. Len(Job.steps) :
          Job.steps[k].command = LastCommand(Job.name) /\ d \in Job.steps[k].devices
    BY <2>3 DEF ComesTo
  <2>5. CASE k = 1
    <3>1. command' = LastCommand(Job.name) /\ d \in todo'
      BY <2>4, <2>5, BeginStepIs, OnwardIs
    <3>2. queue'[1].name = Job.name
      BY <2>1
    <3>3. command' = LastCommand(queue'[1].name) /\ d \in todo' \cup awaited'
      BY <3>1, <3>2
    <3> QED BY <1>2, <2>1, <3>3 DEF AtHand, IsAt
  <2>6. CASE k # 1
    <3>1. Job \in JobType /\ Len(Job.steps) \in Nat /\ Len(Onward(Job).steps) = Len(Job.steps) - 1
          /\ \A n \in 1 .. Len(Onward(Job).steps) : Onward(Job).steps[n] = Job.steps[n + 1]
      BY BeginStepIs, OnwardIs, JobTyped
    <3>2. k - 1 \in 1 .. Len(Onward(Job).steps) /\ Onward(Job).steps[k - 1] = Job.steps[k]
      <4>1. k \in Nat /\ k >= 2 /\ k <= Len(Job.steps)
        BY <2>6, <3>1
      <4>2. k - 1 \in 1 .. Len(Job.steps) - 1 /\ (k - 1) + 1 = k
        BY ONLY <3>1, <4>1
      <4> QED BY <3>1, <4>2
    <3>3. ComesTo(Onward(Job), d)
      BY <2>1, <2>4, <3>2 DEF ComesTo
    <3>4. ComesTo(queue'[1], d)
      BY <2>1, <3>3
    <3> QED BY <1>2, <2>1, <3>4 DEF AtHand
  <2> QED BY <2>5, <2>6
<1> QED BY <1>1, <1>2

LEMMA YetToBegun ==
  ASSUME BaseInv, BeginStep, NEW d, NEW name, YetTo(name, d)
  PROVE  YetTo(name, d)'
<1>1. ASSUME NEW i \in 1 .. Len(queue'), queue'[i].name = name
      PROVE  AtHand(i, d)'
  <2>1. i \in 1 .. Len(queue) /\ queue'[i].name = queue[i].name
    BY BeginStepIs, OnwardIs
  <2> QED BY <1>1, <2>1, HandBegun DEF YetTo
<1> QED BY <1>1 DEF YetTo

LEMMA YetToStays ==
  ASSUME UNCHANGED <<queue, command>>, NEW d, NEW name, YetTo(name, d),
         command = LastCommand(name) /\ d \in todo \cup awaited => d \in todo' \cup awaited'
  PROVE  YetTo(name, d)'
  BY DEF YetTo, AtHand, IsAt

LEMMA YetToAppended ==
  ASSUME BaseInv, NEW j \in JobType, queue' = Append(queue, j),
         UNCHANGED <<command, todo, awaited>>, NEW d, NEW name, YetTo(name, d),
         j.name = name => ComesTo(j, d)
  PROVE  YetTo(name, d)'
<1>1. \A i \in 1 .. Len(queue') : \/ i \in 1 .. Len(queue) /\ queue'[i] = queue[i]
                                  \/ queue'[i] = j
  BY AppendIs DEF BaseInv, TypeOK
<1> QED BY <1>1 DEF YetTo, AtHand, IsAt

(* A job that has not begun comes to every sub-device; an ObsReset to      *)
(* those that were not EMPTY when it was called.                           *)
LEMMA FreshComes ==
  ASSUME NEW j \in JobType, Follows(j), Begun(j) = 0, NEW d \in Devices,
         j.name \in {"ConfigureScan", "DeconfigureScan", "Scan", "EndScan"}
  PROVE  ComesTo(j, d)
<1>1. /\ Len(j.steps) = Len(Plan(j.name))
      /\ \A i \in 1 .. Len(j.steps) : /\ j.steps[i].command = Plan(j.name)[i].command
                                      /\ j.steps[i].devices = Plan(j.name)[i].devices
  <2>1. Len(j.steps) \in Nat /\ Len(Plan(j.name)) \in Nat
    BY JobTyped
  <2>2. Len(j.steps) = Len(Plan(j.name))
    BY <2>1 DEF Begun
  <2>3. \A i \in 1 .. Len(j.steps) : Begun(j) + i = i
    BY <2>1
  <2> QED BY <2>2, <2>3 DEF Follows
<1>2. \E i \in 1 .. Len(Plan(j.name)) : /\ Plan(j.name)[i].command = LastCommand(j.name)
                                        /\ d \in Plan(j.name)[i].devices
  <2>1. CASE j.name = "ConfigureScan"
    <3>1. CASE d \in {"smrb", "recv", "stat"}
      <4>1. /\ 3 \in 1 .. Len(Plan(j.name))
            /\ Plan(j.name)[3].command = LastCommand(j.name) /\ d \in Plan(j.name)[3].devices
        BY <2>1, <3>1, Plans, StepIs DEF LastCommand
      <4> QED BY <4>1
    <3>2. CASE d = "dsp"
      <4>1. /\ 4 \in 1 .. Len(Plan(j.name))
            /\ Plan(j.name)[4].command = LastCommand(j.name) /\ d \in Plan(j.name)[4].devices
        BY <2>1, <3>2, Plans, StepIs DEF LastCommand
      <4> QED BY <4>1
    <3> QED BY <3>1, <3>2 DEF Devices, Clients
  <2>2. CASE j.name = "DeconfigureScan"
    <3>1. CASE d \in Clients
      <4>1. /\ 2 \in 1 .. Len(Plan(j.name))
            /\ Plan(j.name)[2].command = LastCommand(j.name) /\ d \in Plan(j.name)[2].devices
        BY <2>2, <3>1, Plans, StepIs DEF LastCommand
      <4> QED BY <4>1
    <3>2. CASE d = "smrb"
      <4>1. /\ 3 \in 1 .. Len(Plan(j.name))
            /\ Plan(j.name)[3].command = LastCommand(j.name) /\ d \in Plan(j.name)[3].devices
        BY <2>2, <3>2, Plans, StepIs DEF LastCommand
      <4> QED BY <4>1
    <3> QED BY <3>1, <3>2 DEF Devices
  <2>3. CASE j.name = "Scan"
    <3>1. /\ 2 \in 1 .. Len(Plan(j.name))
          /\ Plan(j.name)[2].command = LastCommand(j.name) /\ d \in Plan(j.name)[2].devices
      BY <2>3, Plans, StepIs DEF LastCommand
    <3> QED BY <3>1
  <2>4. CASE j.name = "EndScan"
    <3>1. /\ 1 \in 1 .. Len(Plan(j.name)) /\ 2 \in 1 .. Len(Plan(j.name))
          /\ 3 \in 1 .. Len(Plan(j.name))
          /\ Plan(j.name)[1].command = LastCommand(j.name)
          /\ Plan(j.name)[2].command = LastCommand(j.name)
          /\ Plan(j.name)[3].command = LastCommand(j.name)
          /\ Plan(j.name)[1].devices = {"recv"} /\ Plan(j.name)[2].devices = {"dsp", "stat"}
          /\ Plan(j.name)[3].devices = {"smrb"}
      BY <2>4, Plans, StepIs DEF LastCommand
    <3> QED BY <3>1 DEF Devices, Clients
  <2> QED BY <2>1, <2>2, <2>3, <2>4
<1>3. PICK i \in 1 .. Len(Plan(j.name)) : /\ Plan(j.name)[i].command = LastCommand(j.name)
                                          /\ d \in Plan(j.name)[i].devices
  BY <1>2
<1>4. /\ i \in 1 .. Len(j.steps)
      /\ j.steps[i].command = LastCommand(j.name) /\ d \in j.steps[i].devices
  BY <1>1, <1>3
<1> QED BY <1>4 DEF ComesTo

LEMMA ResetComes ==
  ASSUME NEW d \in Devices, dev[d] # "EMPTY"
  PROVE  ComesTo(JobOf("ObsReset"), d)
<1> DEFINE s == AbortSteps \o ResetSteps
<1>1. JobOf("ObsReset").name = "ObsReset" /\ JobOf("ObsReset").steps = s
  BY DEF JobOf, Steps
<1>2. /\ s[4].command = "ObsReset" /\ s[4].devices = ToReset({"stat"})
      /\ s[5].command = "ObsReset" /\ s[5].devices = ToReset({"dsp"})
      /\ s[6].command = "ObsReset" /\ s[6].devices = ToReset({"recv"})
      /\ s[7].command = "ObsReset" /\ s[7].devices = ToReset({"smrb"})
  BY ResetStepsAre, StepIs
<1>3. Len(s) = 7
  BY ResetStepsAre
<1> HIDE DEF s
<1>4. /\ d = "stat" => d \in ToReset({"stat"})
      /\ d = "dsp" => d \in ToReset({"dsp"})
      /\ d = "recv" => d \in ToReset({"recv"})
      /\ d = "smrb" => d \in ToReset({"smrb"})
  BY DEF ToReset
<1>5. \E i \in 1 .. 7 : s[i].command = "ObsReset" /\ d \in s[i].devices
  BY <1>2, <1>4 DEF Devices, Clients
<1> QED BY <1>1, <1>3, <1>5 DEF ComesTo, LastCommand

-----------------------------------------------------------------------------
(* Faults are not hidden.                                                  *)

(* BEAM has been told of the fault of the sub-device. *)
Told(d) == dev[d] = "FAULT" /\ d \notin news

(* The last ObsReset that waits comes to the sub-device. *)
LastResetCovers(d) ==
  \A i \in 1 .. Len(tasks) :
    tasks[i].name = "ObsReset" /\ (\A k \in i + 1 .. Len(tasks) : tasks[k].name # "ObsReset")
      => ComesTo(tasks[i], d)

(* No job that would end well, and have BEAM leave its state for READY or  *)
(* IDLE, has the fault behind it: it has yet to come to the sub-device.    *)
FaultInv(d) ==
  Told(d) =>
    /\ beam \in {"FAULT", "RESETTING", "ABORTING", "ABORTED", "IDLE", "CONFIGURING_IDLE"}
    /\ beam \in {"IDLE", "CONFIGURING_IDLE"} => ended # "ConfigureScan" /\ YetTo("ConfigureScan", d)
    /\ beam = "RESETTING" =>
         /\ LastResetCovers(d)
         /\ InTasks("ObsReset") \/ (ended # "ObsReset" /\ YetTo("ObsReset", d))

FaultsInv == beam # "EMPTY" /\ \A d \in Devices : FaultInv(d)

LEMMA CoversAppended ==
  ASSUME BaseInv, NEW j \in JobType, tasks' = Append(tasks, j), NEW d,
         j.name = "ObsReset" => ComesTo(j, d), j.name # "ObsReset" => LastResetCovers(d)
  PROVE  /\ LastResetCovers(d)'
         /\ j.name = "ObsReset" \/ InTasks("ObsReset") => InTasks("ObsReset")'
<1>1. /\ Len(tasks) \in Nat /\ Len(tasks') = Len(tasks) + 1
      /\ \A i \in 1 .. Len(tasks') : \/ i \in 1 .. Len(tasks) /\ tasks'[i] = tasks[i]
                                     \/ i = Len(tasks) + 1 /\ tasks'[i] = j
      /\ \A i \in 1 .. Len(tasks) : i \in 1 .. Len(tasks') /\ tasks'[i] = tasks[i]
      /\ Len(tasks) + 1 \in 1 .. Len(tasks') /\ tasks'[Len(tasks) + 1] = j
  BY AppendIs DEF BaseInv, TypeOK
<1>2. ASSUME NEW i \in 1 .. Len(tasks'), tasks'[i].name = "ObsReset",
             \A k \in i + 1 .. Len(tasks') : tasks'[k].name # "ObsReset"
      PROVE  ComesTo(tasks'[i], d)
  <2>1. CASE i = Len(tasks) + 1
    BY <1>1, <1>2, <2>1
  <2>2. CASE i # Len(tasks) + 1
    <3>1. i \in 1 .. Len(tasks) /\ tasks'[i] = tasks[i]
      BY <1>1, <2>2
    <3>2. Len(tasks) + 1 \in i + 1 .. Len(tasks')
      BY ONLY <1>1, <3>1
    <3>3. j.name # "ObsReset"
      BY <1>1, <1>2, <3>2
    <3>4. ASSUME NEW k \in i + 1 .. Len(tasks) PROVE tasks[k].name # "ObsReset"
      <4>1. k \in 1 .. Len(tasks) /\ k \in i + 1 .. Len(tasks')
        BY ONLY <1>1, <3>1, <3>4
      <4> QED BY <1>1, <1>2, <4>1
    <3> QED BY <1>2, <3>1, <3>3, <3>4 DEF LastResetCovers
  <2> QED BY <2>1, <2>2
<1>3. ASSUME j.name = "ObsReset" \/ InTasks("ObsReset") PROVE InTasks("ObsReset")'
  BY <1>1, <1>3 DEF InTasks
<1> QED BY <1>2, <1>3 DEF LastResetCovers

LEMMA CoversTaken ==
  ASSUME BaseInv, tasks # <<>>, tasks' = Tail(tasks), NEW d, LastResetCovers(d)
  PROVE  /\ Head(tasks) \in JobType /\ Head(tasks) = tasks[1] /\ 1 \in 1 .. Len(tasks)
         /\ LastResetCovers(d)'
         /\ \/ InTasks("ObsReset")'
            \/ Head(tasks).name = "ObsReset" /\ ComesTo(Head(tasks), d)
            \/ Head(tasks).name # "ObsReset" /\ ~InTasks("ObsReset")
<1>1. /\ Head(tasks) \in JobType /\ Head(tasks) = tasks[1] /\ 1 \in 1 .. Len(tasks)
      /\ Len(tasks) \in Nat /\ Len(tasks') = Len(tasks) - 1
      /\ \A i \in 1 .. Len(tasks') : i + 1 \in 1 .. Len(tasks) /\ tasks'[i] = tasks[i + 1]
  BY HeadTailProperties, EmptySeq DEF BaseInv, TypeOK
<1>2. ASSUME NEW k \in 1 .. Len(tasks), k # 1
      PROVE  k - 1 \in 1 .. Len(tasks') /\ tasks'[k - 1] = tasks[k]
  <2>1. k - 1 \in 1 .. Len(tasks') /\ (k - 1) + 1 = k
    BY ONLY <1>1, <1>2
  <2> QED BY <1>1, <2>1
<1>3. ASSUME NEW i \in 1 .. Len(tasks'), tasks'[i].name = "ObsReset",
             \A k \in i + 1 .. Len(tasks') : tasks'[k].name # "ObsReset"
      PROVE  ComesTo(tasks'[i], d)
  <2>1. i + 1 \in 1 .. Len(tasks) /\ tasks'[i] = tasks[i + 1]
    BY <1>1
  <2>2. ASSUME NEW k \in (i + 1) + 1 .. Len(tasks) PROVE tasks[k].name # "ObsReset"
    <3>1. k \in 1 .. Len(tasks) /\ k # 1 /\ k - 1 \in i + 1 .. Len(tasks')
      BY ONLY <1>1, <2>2, i \in 1 .. Len(tasks')
    <3> QED BY <1>2, <1>3, <3>1
  <2> QED BY <1>3, <2>1, <2>2 DEF LastResetCovers
<1>4. ASSUME ~InTasks("ObsReset")' PROVE \A k \in 1 + 1 .. Len(tasks) : tasks[k].name # "ObsReset"
  <2>1. ASSUME NEW k \in 1 + 1 .. Len(tasks) PROVE tasks[k].name # "ObsReset"
    <3>1. k \in 1 .. Len(tasks) /\ k # 1
      BY ONLY <1>1, <2>1
    <3> QED BY <1>2, <1>4, <3>1 DEF InTasks
  <2> QED BY <2>1
<1>5. ASSUME ~InTasks("ObsReset")', Head(tasks).name = "ObsReset" PROVE ComesTo(Head(tasks), d)
  BY <1>1, <1>4, <1>5 DEF LastResetCovers
<1>6. ASSUME ~InTasks("ObsReset")', Head(tasks).name # "ObsReset" PROVE ~InTasks("ObsReset")
  <2>1. ASSUME NEW k \in 1 .. Len(tasks) PROVE tasks[k].name # "ObsReset"
    <3>1. CASE k = 1
      BY <1>1, <1>6, <3>1
    <3>2. CASE k # 1
      BY <1>2, <1>6, <3>2 DEF InTasks
    <3> QED BY <3>1, <3>2
  <2> QED BY <2>1 DEF InTasks
<1> QED BY <1>1, <1>3, <1>5, <1>6 DEF LastResetCovers

LEMMA FaultStays ==
  ASSUME NEW d, FaultInv(d), Told(d)' => Told(d), UNCHANGED <<beam, tasks, ended>>,
         Told(d) /\ YetTo("ConfigureScan", d) => YetTo("ConfigureScan", d)',
         Told(d) /\ YetTo("ObsReset", d) => YetTo("ObsReset", d)'
  PROVE  FaultInv(d)'
<1>1. LastResetCovers(d) => LastResetCovers(d)'
  BY DEF LastResetCovers
<1>2. InTasks("ObsReset") => InTasks("ObsReset")'
  BY DEF InTasks
<1> QED BY <1>1, <1>2 DEF FaultInv

LEMMA FaultCalled ==
  ASSUME BaseInv, NEW d, FaultInv(d), NEW j \in JobType, j.name # "ObsReset",
         tasks' = Append(tasks, j),
         UNCHANGED <<queue, ended, command, todo, awaited, dev, news>>,
         \/ beam' = beam
         \/ beam' = "ABORTING"
         \/ beam = "IDLE" /\ beam' = "CONFIGURING_IDLE"
         \/ beam = "READY" /\ beam' = "CONFIGURING_READY"
  PROVE  FaultInv(d)'
<1> SUFFICES ASSUME Told(d)'
             PROVE  FaultInv(d)'
  BY DEF FaultInv
<1>1. Told(d)
  BY DEF Told
<1>2. LastResetCovers(d) => LastResetCovers(d)'
  BY CoversAppended
<1>3. LastResetCovers(d) /\ InTasks("ObsReset") => InTasks("ObsReset")'
  BY CoversAppended
<1>4. \A name : YetTo(name, d) => YetTo(name, d)'
  BY YetToStays
<1>5. beam' = beam \/ beam' = "ABORTING" \/ (beam = "IDLE" /\ beam' = "CONFIGURING_IDLE")
  BY <1>1 DEF FaultInv
<1> QED BY <1>1, <1>2, <1>3, <1>4, <1>5 DEF FaultInv

(* A sub-device becomes faulty with news of it on its way. *)
LEMMA NotToldOf ==
  ASSUME BaseInv, NEW d \in Devices, NEW e \in Devices, NEW t, Told(d)',
         dev' = [dev EXCEPT ![e] = t], news \subseteq news',
         t = "FAULT" => dev[e] = "FAULT" \/ e \in news'
  PROVE  Told(d)
  BY DEF Told, BaseInv, TypeOK

LEMMA FaultStep ==
  ASSUME BaseInv, FaultsInv, [Next]_vars
  PROVE  FaultsInv'
<1> USE DEF BaseInv
<1>1. beam \in States /\ beam # "EMPTY"
  BY DEF TypeOK, FaultsInv
<1>2. CASE ConfigureScan
  <2>1. JobOf("ValidateConfigureScan") \in JobType
        /\ JobOf("ValidateConfigureScan").name = "ValidateConfigureScan"
    BY JobOfIs DEF JobNames
  <2>2. /\ UNCHANGED <<beam, tasks, ended, command, todo, awaited, dev, news>>
        /\ queue' = Append(queue, JobOf("ValidateConfigureScan"))
    BY <1>2 DEF ConfigureScan, devVars
  <2>3. ASSUME NEW d \in Devices PROVE FaultInv(d)'
    <3>1. YetTo("ConfigureScan", d) => YetTo("ConfigureScan", d)'
      BY <2>1, <2>2, YetToAppended
    <3>2. YetTo("ObsReset", d) => YetTo("ObsReset", d)'
      BY <2>1, <2>2, YetToAppended
    <3>3. Told(d)' => Told(d)
      BY <2>2 DEF Told
    <3> QED BY <2>2, <3>1, <3>2, <3>3, FaultStays DEF FaultsInv
  <2> QED BY <2>2, <2>3 DEF FaultsInv
<1>3. CASE ConfigureInvoked
  <2>1. UNCHANGED <<queue, ended, command, todo, awaited, dev, news>>
    BY <1>3 DEF ConfigureInvoked, devVars
  <2>2. CASE Allowed(beam, "configure_invoked")
    <3>1. \/ beam = "IDLE" /\ beam' = "CONFIGURING_IDLE"
          \/ beam = "READY" /\ beam' = "CONFIGURING_READY"
      BY <1>3, <2>2, Calls DEF ConfigureInvoked
    <3>2. tasks' = Append(tasks, JobOf("ConfigureScan"))
      BY <1>3, <2>2 DEF ConfigureInvoked
    <3>3. JobOf("ConfigureScan") \in JobType /\ JobOf("ConfigureScan").name # "ObsReset"
      BY JobOfIs DEF JobNames, BeamCommands
    <3> QED BY <2>1, <3>1, <3>2, <3>3, FaultCalled DEF FaultsInv
  <2>3. CASE ~Allowed(beam, "configure_invoked")
    <3>1. UNCHANGED <<beam, tasks>>
      BY <1>3, <2>3 DEF ConfigureInvoked
    <3>2. ASSUME NEW d \in Devices PROVE FaultInv(d)'
      BY <2>1, <3>1, FaultStays, YetToStays DEF FaultsInv, Told
    <3> QED BY <3>1, <3>2 DEF FaultsInv
  <2> QED BY <2>2, <2>3
<1>4. ASSUME NEW c \in BeamCommands \ {"ObsReset"}, tasks' = Append(tasks, JobOf(c)),
             UNCHANGED <<queue, ended, command, todo, awaited, dev, news>>,
             beam' = beam \/ beam' = "ABORTING"
      PROVE  FaultsInv'
  <2>1. JobOf(c) \in JobType /\ JobOf(c).name # "ObsReset"
    BY JobOfIs DEF JobNames
  <2> QED BY <1>4, <2>1, FaultCalled DEF FaultsInv
<1>5. CASE DeconfigureScan \/ Scan \/ EndScan \/ GoToFault
  BY <1>4, <1>5 DEF DeconfigureScan, Scan, EndScan, GoToFault, Call, BeamCommands, devVars
<1>6. CASE Abort
  <2>1. beam' = "ABORTING"
    BY <1>6, Calls DEF Abort
  <2> QED BY <1>4, <1>6, <2>1 DEF Abort, Call, BeamCommands, devVars
<1>7. CASE ObsReset
  <2>1. beam' = "RESETTING" /\ beam \in {"ABORTED", "FAULT"}
    BY <1>7, Calls DEF ObsReset
  <2>2. /\ tasks' = Append(tasks, JobOf("ObsReset"))
        /\ UNCHANGED <<queue, ended, command, todo, awaited, dev, news>>
    BY <1>7 DEF ObsReset, Call, devVars
  <2>3. JobOf("ObsReset") \in JobType /\ JobOf("ObsReset").name = "ObsReset"
    BY JobOfIs DEF JobNames, BeamCommands
  <2>4. ASSUME NEW d \in Devices, Told(d)' PROVE FaultInv(d)'
    <3>1. ComesTo(JobOf("ObsReset"), d)
      BY <2>2, <2>4, ResetComes DEF Told
    <3>2. LastResetCovers(d)' /\ InTasks("ObsReset")'
      BY <2>2, <2>3, <3>1, CoversAppended
    <3> QED BY <2>1, <3>2 DEF FaultInv
  <2>5. \A d \in Devices : FaultInv(d)'
    BY <2>4 DEF FaultInv
  <2> QED BY <2>1, <2>5 DEF FaultsInv
<1>8. CASE TakeTask
  <2>1. /\ tasks # <<>> /\ tasks' = Tail(tasks) /\ queue' = Append(queue, Head(tasks))
        /\ UNCHANGED <<beam, ended, command, todo, awaited, dev, news>>
        /\ ended = "none"
    BY <1>8 DEF TakeTask, AtWork, devVars
  <2>2. Head(tasks) \in JobType /\ Follows(Head(tasks)) /\ Begun(Head(tasks)) = 0
    <3>1. Head(tasks) \in JobType /\ Head(tasks) = tasks[1] /\ 1 \in 1 .. Len(tasks)
      BY <2>1, HeadTailProperties, EmptySeq DEF TypeOK
    <3> QED BY <3>1 DEF JobInv
  <2>3. ASSUME NEW d \in Devices, Told(d)' PROVE FaultInv(d)'
    <3>1. Told(d)
      BY <2>1, <2>3 DEF Told
    <3>2. YetTo("ConfigureScan", d) => YetTo("ConfigureScan", d)'
      <4>1. Head(tasks).name = "ConfigureScan" => ComesTo(Head(tasks), d)
        BY <2>2, FreshComes
      <4> QED BY <2>1, <2>2, <4>1, YetToAppended
    <3>3. ASSUME beam = "RESETTING"
          PROVE  /\ LastResetCovers(d)'
                 /\ InTasks("ObsReset")' \/ YetTo("ObsReset", d)'
      <4>1. LastResetCovers(d)
        BY <3>1, <3>3 DEF FaultInv, FaultsInv
      <4>2. LastResetCovers(d)'
        BY <2>1, <4>1, CoversTaken
      <4>3. CASE InTasks("ObsReset")'
        BY <4>2, <4>3
      <4>4. CASE Head(tasks).name = "ObsReset" /\ ComesTo(Head(tasks), d)
        <5>1. YetTo("ObsReset", d)
          BY <1>8 DEF TakeTask, AtWork, YetTo
        <5> QED BY <2>1, <2>2, <4>2, <4>4, <5>1, YetToAppended
      <4>5. CASE Head(tasks).name # "ObsReset" /\ ~InTasks("ObsReset")
        <5>1. YetTo("ObsReset", d)
          BY <3>1, <3>3, <4>5 DEF FaultInv, FaultsInv
        <5> QED BY <2>1, <2>2, <4>2, <4>5, <5>1, YetToAppended
      <4> QED BY <2>1, <4>1, <4>3, <4>4, <4>5, CoversTaken
    <3>4. ended' # "ConfigureScan" /\ ended' # "ObsReset" /\ beam' = beam
      BY <2>1
    <3> QED BY <3>1, <3>2, <3>3, <3>4 DEF FaultInv, FaultsInv
  <2>4. \A d \in Devices : FaultInv(d)'
    BY <2>3 DEF FaultInv
  <2> QED BY <2>1, <2>4 DEF FaultsInv
<1>9. CASE BeginStep
  <2>1. UNCHANGED <<beam, tasks, ended, dev, news>>
    BY <1>9 DEF BeginStep, devVars
  <2>2. ASSUME NEW d \in Devices PROVE FaultInv(d)'
    BY <1>9, <2>1, <2>2, FaultStays, YetToBegun DEF FaultsInv, Told
  <2> QED BY <2>1, <2>2 DEF FaultsInv
<1>10. ASSUME queue # <<>>, queue' = Tail(queue), UNCHANGED <<beam, tasks, ended>>,
              NEW d \in Devices, Told(d)' => Told(d)
       PROVE  FaultInv(d)'
  BY <1>10, FaultStays, YetToGone DEF FaultsInv
<1>11. CASE WriteFails
  <2>1. /\ queue # <<>> /\ queue' = Tail(queue) /\ UNCHANGED <<beam, tasks, ended, dev, news>>
    BY <1>11 DEF WriteFails, StepOver, Fails
  <2>2. ASSUME NEW d \in Devices PROVE FaultInv(d)'
    BY <1>10, <2>1, <2>2 DEF Told
  <2> QED BY <2>1, <2>2 DEF FaultsInv
<1>12. CASE JobEnds
  <2>1. /\ queue # <<>> /\ Job.steps = <<>> /\ todo = {} /\ awaited = {}
        /\ queue' = Tail(queue) /\ UNCHANGED <<beam, tasks, dev, news>>
        /\ ended' = ended \/ ended' = Job.name
    BY <1>12 DEF JobEnds, StepOver, devVars
  <2>2. Job = queue[1] /\ 1 \in 1 .. Len(queue)
    BY <2>1, QueueIs
  <2>3. ASSUME NEW d \in Devices, Told(d)' PROVE FaultInv(d)'
    <3>1. Told(d) /\ FaultInv(d)
      BY <2>1, <2>3 DEF Told, FaultsInv
    <3>2. ~AtHand(1, d)
      BY <2>1, <2>2, EmptySeq DEF AtHand, ComesTo, IsAt
    <3>3. ASSUME NEW name, YetTo(name, d) PROVE YetTo(name, d)' /\ Job.name # name
      <4>1. Job.name # name
        BY <2>2, <3>2, <3>3 DEF YetTo
      <4> QED BY <2>1, <3>3, <4>1, YetToGone
    <3>4. LastResetCovers(d) => LastResetCovers(d)'
      BY <2>1 DEF LastResetCovers
    <3>5. InTasks("ObsReset") => InTasks("ObsReset")'
      BY <2>1 DEF InTasks
    <3> QED BY <2>1, <3>1, <3>3, <3>4, <3>5 DEF FaultInv
  <2>4. \A d \in Devices : FaultInv(d)'
    BY <2>3 DEF FaultInv
  <2> QED BY <2>1, <2>4 DEF FaultsInv
<1>13. CASE Callback
  <2>1. /\ ended \in BeamCommands /\ ended' = "none" /\ beam' = Becomes(ended)
        /\ tasks' = tasks \/ (tasks' = <<>> /\ ended = "Abort")
        /\ UNCHANGED <<queue, command, todo, awaited, dev, news>>
    BY <1>13, CallbackIs DEF Callback, TypeOK, devVars
  <2>2. \A i \in 1 .. Len(queue') : queue'[i].name = "ValidateConfigureScan"
    BY <1>13, <2>1 DEF Callback, JobInv, Validation
  <2>3. \A d : YetTo("ConfigureScan", d)' /\ YetTo("ObsReset", d)'
    BY <2>2 DEF YetTo
  <2>4. beam' # "EMPTY"
    BY <1>1, <2>1, BecomesIs DEF BeamCommands
  <2>5. ASSUME NEW d \in Devices, Told(d)' PROVE FaultInv(d)'
    <3>1. Told(d) /\ FaultInv(d)
      BY <2>1, <2>5 DEF Told, FaultsInv
    <3>2. beam' \in {"FAULT", "RESETTING", "ABORTING", "ABORTED", "IDLE", "CONFIGURING_IDLE"}
      BY <1>1, <2>1, <3>1, BecomesIs DEF FaultInv, BeamCommands
    <3>3. beam' = "RESETTING" => beam = "RESETTING"
      BY <1>1, <2>1, <3>1, BecomesIs DEF FaultInv, BeamCommands
    <3>4. LastResetCovers(d) => LastResetCovers(d)'
      <4>1. CASE tasks' = tasks
        BY <4>1 DEF LastResetCovers
      <4>2. CASE tasks' = <<>>
        BY <4>2, EmptySeq DEF LastResetCovers
      <4> QED BY <2>1, <4>1, <4>2
    <3> QED BY <2>1, <2>3, <3>1, <3>2, <3>3, <3>4 DEF FaultInv
  <2>6. \A d \in Devices : FaultInv(d)'
    BY <2>5 DEF FaultInv
  <2> QED BY <2>4, <2>6 DEF FaultsInv
<1>14. ASSUME NEW e \in Devices, Send(e) PROVE FaultsInv'
  <2>1. e \in todo /\ UNCHANGED <<beam, tasks, ended, news>>
    BY <1>14 DEF Send
  <2>2. command \in Commands /\ queue # <<>> /\ dev[e] \in States
    BY <2>1, AtStage DEF TypeOK
  <2>3. ASSUME NEW d \in Devices PROVE FaultInv(d)'
    <3>1. CASE Taken(dev[e], command)
      <4>1. /\ dev' = [dev EXCEPT ![e] = Invoked(@, command)]
            /\ todo' = todo \ {e} /\ awaited' = awaited \cup {e} /\ UNCHANGED <<queue, command>>
        BY <1>14, <3>1 DEF Send
      <4>2. Invoked(dev[e], command) = "FAULT" => dev[e] = "FAULT"
        BY <2>2, <3>1, TakenIs DEF Begins
      <4>3. Told(d)' => Told(d)
        BY <2>1, <4>1, <4>2, NotToldOf
      <4>4. \A name : YetTo(name, d) => YetTo(name, d)'
        BY <4>1, YetToStays
      <4> QED BY <2>1, <4>3, <4>4, FaultStays DEF FaultsInv
    <3>2. CASE ~Taken(dev[e], command)
      <4>1. queue' = Tail(queue) /\ UNCHANGED dev
        BY <1>14, <3>2 DEF Send, Fails
      <4> QED BY <1>10, <2>1, <2>2, <4>1 DEF Told
    <3> QED BY <3>1, <3>2
  <2> QED BY <2>1, <2>3 DEF FaultsInv
<1>15. ASSUME NEW e \in Devices, FaultEvent(e) PROVE FaultsInv'
  <2>1. beam' = "FAULT"
    BY <1>15 DEF FaultEvent
  <2> QED BY <2>1 DEF FaultsInv, FaultInv
<1>16. ASSUME NEW e \in Devices, NEW c \in Commands, SendLate(e, c) PROVE FaultsInv'
  <2>1. /\ Taken(dev[e], c) /\ dev' = [dev EXCEPT ![e] = Invoked(@, c)]
        /\ UNCHANGED <<beam, tasks, queue, ended, command, todo, awaited, news>>
    BY <1>16 DEF SendLate
  <2>2. dev[e] \in States
    BY DEF TypeOK
  <2>3. Invoked(dev[e], c) = "FAULT" => dev[e] = "FAULT"
    BY <2>1, <2>2, TakenIs DEF Begins
  <2>4. ASSUME NEW d \in Devices PROVE FaultInv(d)'
    <3>1. Told(d)' => Told(d)
      BY <2>1, <2>3, NotToldOf
    <3>2. \A name : YetTo(name, d) => YetTo(name, d)'
      BY <2>1, YetToStays
    <3> QED BY <2>1, <3>1, <3>2, FaultStays DEF FaultsInv
  <2> QED BY <2>1, <2>4 DEF FaultsInv
<1>17. ASSUME NEW e \in Devices, NEW c \in Commands, Succeed(e, c) PROVE FaultsInv'
  <2>1. PICK q \in States, ok \in BOOLEAN :
          /\ dev' = [dev EXCEPT ![e] = q] /\ Report(e, c, ok)
          /\ ok => Leads(dev[e], c, q)
          /\ ~ok => (q = "FAULT" => dev[e] = "FAULT")
    BY <1>17, SucceedIs
  <2>2. /\ UNCHANGED <<beam, tasks, ended>>
        /\ news' = IF c = "GoToFault" THEN news \cup {e} ELSE news
    BY <1>17 DEF Succeed
  <2>3. q = "FAULT" => dev[e] = "FAULT" \/ e \in news'
    BY <2>1, <2>2 DEF Leads, Commands
  <2>4. ASSUME NEW d \in Devices PROVE FaultInv(d)'
    <3>1. Told(d)' => Told(d)
      BY <2>1, <2>2, <2>3, NotToldOf
    <3>2. CASE UNCHANGED <<queue, command, todo, awaited>>
      BY <2>2, <3>1, <3>2, FaultStays, YetToStays DEF FaultsInv
    <3>3. CASE ok /\ c = command /\ awaited' = awaited \ {e} /\ UNCHANGED <<queue, command, todo>>
      <4>1. ASSUME Told(d), NEW name \in {"ConfigureScan", "ObsReset"}, command = LastCommand(name)
            PROVE  d # e
        BY <2>1, <3>3, <4>1 DEF Told, LastCommand, Leads
      <4>2. ASSUME Told(d), NEW name \in {"ConfigureScan", "ObsReset"}, YetTo(name, d)
            PROVE  YetTo(name, d)'
        BY <3>3, <4>1, <4>2, YetToStays
      <4> QED BY <2>2, <3>1, <4>2, FaultStays DEF FaultsInv
    <3>4. CASE queue # <<>> /\ queue' = Tail(queue)
      BY <1>10, <2>2, <3>1, <3>4
    <3>5. \/ UNCHANGED <<queue, command, todo, awaited>>
          \/ ok /\ c = command /\ awaited' = awaited \ {e} /\ UNCHANGED <<queue, command, todo>>
          \/ queue # <<>> /\ Fails(todo)
      BY <2>1, <2>2, ReportIs
    <3> QED BY <3>2, <3>3, <3>4, <3>5 DEF Fails
  <2> QED BY <2>2, <2>4 DEF FaultsInv
<1>18. ASSUME NEW e \in Devices, NEW c \in Commands, Fail(e, c) PROVE FaultsInv'
  <2>1. Report(e, c, FALSE) /\ UNCHANGED <<beam, tasks, ended>>
    BY <1>18 DEF Fail
  <2>2. ASSUME NEW d \in Devices PROVE FaultInv(d)'
    <3>1. Told(d)' => Told(d)
      BY <1>18 DEF Fail, Told, TypeOK
    <3>2. CASE UNCHANGED <<queue, command, todo, awaited>>
      BY <2>1, <3>1, <3>2, FaultStays, YetToStays DEF FaultsInv
    <3>3. CASE queue # <<>> /\ queue' = Tail(queue)
      BY <1>10, <2>1, <3>1, <3>3
    <3> QED BY <2>1, <3>2, <3>3, ReportIs DEF Fails
  <2> QED BY <2>1, <2>2 DEF FaultsInv
<1>19. CASE UNCHANGED vars
  <2>1. UNCHANGED <<beam, tasks, ended, queue, command, todo, awaited, dev, news>>
    BY <1>19 DEF vars, jobVars, devVars
  <2>2. ASSUME NEW d \in Devices PROVE FaultInv(d)'
    BY <2>1, <2>2, FaultStays, YetToStays DEF FaultsInv, Told
  <2> QED BY <2>1, <2>2 DEF FaultsInv
<1> QED
  BY <1>2, <1>3, <1>5, <1>6, <1>7, <1>8, <1>9, <1>11, <1>12, <1>13, <1>14, <1>15, <1>16,
     <1>17, <1>18, <1>19 DEF Next

(* Of all the steps only a callback has BEAM IDLE, READY or SCANNING. *)
LEMMA BeamMoves ==
  ASSUME BaseInv, [Next]_vars, beam' # beam, beam' \in {"IDLE", "READY", "SCANNING"}
  PROVE  Callback
<1>1. CASE ConfigureScan
  BY <1>1 DEF ConfigureScan
<1>2. CASE ConfigureInvoked
  <2>1. beam' \in {beam, "CONFIGURING_IDLE", "CONFIGURING_READY"}
    BY <1>2, Calls DEF ConfigureInvoked
  <2> QED BY <2>1
<1>3. CASE DeconfigureScan \/ Scan \/ EndScan \/ GoToFault
  BY <1>3 DEF DeconfigureScan, Scan, EndScan, GoToFault
<1>4. CASE Abort
  BY <1>4, Calls DEF Abort
<1>5. CASE ObsReset
  BY <1>5, Calls DEF ObsReset
<1>6. CASE TakeTask \/ BeginStep \/ WriteFails \/ JobEnds
  BY <1>6 DEF TakeTask, BeginStep, WriteFails, JobEnds
<1>7. CASE \E d \in Devices : Send(d) \/ FaultEvent(d)
  BY <1>7 DEF Send, FaultEvent
<1>8. CASE \E d \in Devices, c \in Commands : SendLate(d, c) \/ Succeed(d, c) \/ Fail(d, c)
  BY <1>8 DEF SendLate, Succeed, Fail
<1>9. CASE UNCHANGED vars
  BY <1>9 DEF vars
<1> QED
  BY <1>1, <1>2, <1>3, <1>4, <1>5, <1>6, <1>7, <1>8, <1>9 DEF Next

LEMMA NotHidden ==
  ASSUME BaseInv, FaultsInv, [Next]_vars, beam' # beam, beam' \in {"IDLE", "READY", "SCANNING"},
         NEW d \in Devices, dev[d] = "FAULT", d \notin news
  PROVE  \E i \in 1 .. Len(tasks) : tasks[i].name = "ObsReset"
<1>1. Callback
  BY BeamMoves
<1>2. ended \in BeamCommands /\ beam' = Becomes(ended) /\ beam \in States /\ beam # "EMPTY"
  BY <1>1, CallbackIs DEF Callback, BaseInv, TypeOK, FaultsInv
<1>3. Told(d) /\ FaultInv(d)
  BY DEF Told, FaultsInv
<1>4. ended = "ObsReset" /\ beam = "RESETTING"
  <2>1. beam \in {"FAULT", "RESETTING", "ABORTING", "ABORTED", "IDLE", "CONFIGURING_IDLE"}
    BY <1>3 DEF FaultInv
  <2>2. ended # "ConfigureScan" \/ beam \notin {"IDLE", "CONFIGURING_IDLE"}
    BY <1>3 DEF FaultInv
  <2> QED BY <1>2, <2>1, <2>2, BecomesIs DEF BeamCommands
<1>5. InTasks("ObsReset")
  BY <1>3, <1>4 DEF FaultInv
<1> QED BY <1>5 DEF InTasks

LEMMA StartsWell == Init => BaseInv /\ FaultsInv
<1> SUFFICES ASSUME Init
             PROVE  BaseInv /\ FaultsInv
  OBVIOUS
<1>1. TypeOK
  <2>1. /\ dev \in [Devices -> States] /\ running \in [Devices -> SUBSET Commands]
    BY DEF Init, States
  <2>2. tasks \in Seq(JobType) /\ queue \in Seq(JobType)
    BY EmptySeq DEF Init
  <2>3. events \in 0 .. MaxEvents
    BY BoundsAssumption DEF Init
  <2> QED BY <2>1, <2>2, <2>3 DEF Init, TypeOK, States
<1>2. JobInv /\ CurrentInv
  BY EmptySeq DEF Init, JobInv, CurrentInv
<1>3. FaultsInv
  BY DEF Init, FaultsInv, FaultInv, Told
<1> QED BY <1>1, <1>2, <1>3 DEF BaseInv

(* The variables keep to their types: BEAM takes only states of its        *)
(* machine, EMPTY never among them, and every sequence of steps in a queue *)
(* is a job's.                                                             *)
THEOREM TypeCorrect == Spec => []TypeOK
<1>1. BaseInv /\ FaultsInv /\ [Next]_vars => (BaseInv /\ FaultsInv)'
  <2> SUFFICES ASSUME BaseInv, FaultsInv, [Next]_vars
               PROVE  (BaseInv /\ FaultsInv)'
    OBVIOUS
  <2>1. beam # "EMPTY"
    BY DEF FaultsInv
  <2> QED BY <2>1, BaseStep, FaultStep
<1>2. BaseInv => TypeOK
  BY DEF BaseInv
<1> QED BY <1>1, <1>2, StartsWell, PTL DEF Spec

(* However commands, failures and the news of them fall together, the      *)
(* completion callbacks (beam_component_manager.py:878-1139) do not put    *)
(* BEAM into IDLE, READY or SCANNING over a sub-device whose fault it was  *)
(* told of, unless another ObsReset waits.                                 *)
THEOREM NoFaultHidden == Spec => FaultNotHidden
<1>1. BaseInv /\ FaultsInv /\ [Next]_vars => (BaseInv /\ FaultsInv)'
  <2> SUFFICES ASSUME BaseInv, FaultsInv, [Next]_vars
               PROVE  (BaseInv /\ FaultsInv)'
    OBVIOUS
  <2>1. beam # "EMPTY"
    BY DEF FaultsInv
  <2> QED BY <2>1, BaseStep, FaultStep
<1>2. BaseInv /\ FaultsInv /\ [Next]_vars =>
        [(beam' # beam /\ beam' \in {"IDLE", "READY", "SCANNING"})
           => \A d \in Devices : dev[d] = "FAULT" =>
                d \in news \/ \E i \in 1 .. Len(tasks) : tasks[i].name = "ObsReset"]_vars
  BY NotHidden
<1> QED BY <1>1, <1>2, StartsWell, PTL DEF Spec, FaultNotHidden

-----------------------------------------------------------------------------
(* As long as no job has failed.                                           *)

(* The job of the task thread: in the executor, or ended. *)
InQueue(name) == \E i \in 1 .. Len(queue) : queue[i].name = name
Held(name) == InQueue(name) \/ ended = name
Pending(name) == InTasks(name) \/ Held(name)

(* A sub-device executes the current command if it is awaited, and nothing *)
(* else.                                                                   *)
SendInv ==
  /\ late = {} /\ news = {} /\ todo \cap awaited = {}
  /\ \A d \in Devices : running[d] = IF d \in awaited THEN {command} ELSE {}
  /\ command = "Scan" => \A d \in awaited : dev[d] = "READY"
  /\ command = "EndScan" => \A d \in awaited : dev[d] = "SCANNING"

(* Which jobs are on their way tells the state of BEAM. *)
OrderInv ==
  /\ beam # "FAULT" /\ ~Pending("GoToFault")
  /\ Pending("Abort") => beam = "ABORTING"
  /\ \A i \in 1 .. Len(tasks) : tasks[i].name = "Abort" => i = Len(tasks)
  /\ Held("Abort") => tasks = <<>>
  /\ beam = "ABORTED" => tasks = <<>> /\ ~AtWork
  /\ Pending("ObsReset") => beam \in {"RESETTING", "ABORTING"}
  /\ \A i \in 1 .. Len(tasks) : tasks[i].name = "ObsReset" => i = 1 /\ ~AtWork
  /\ Pending("ConfigureScan") => beam \in {"CONFIGURING_IDLE", "CONFIGURING_READY", "ABORTING"}
  /\ \A i, k \in 1 .. Len(tasks) :
       tasks[i].name = "ConfigureScan" /\ tasks[k].name = "ConfigureScan" => i = k
  /\ Held("ConfigureScan") => ~InTasks("ConfigureScan")

(* The state in which a job that ends well leaves every sub-device: it has *)
(* that state already, or the job has yet to come to it.                   *)
Lasting == {"ConfigureScan", "DeconfigureScan", "Scan", "EndScan", "ObsReset"}
Leaves(name) == CASE name \in {"ConfigureScan", "EndScan"} -> "READY"
                  [] name = "Scan" -> "SCANNING"
                  [] OTHER -> "EMPTY"
DoneInv ==
  /\ \A i \in 1 .. Len(tasks) : tasks[i].name = "ObsReset" =>
       \A d \in Devices : dev[d] = "EMPTY" \/ ComesTo(tasks[i], d)
  /\ \A i \in 1 .. Len(queue) : queue[i].name \in Lasting =>
       \A d \in Devices : dev[d] = Leaves(queue[i].name) \/ AtHand(i, d)
  /\ ended \in Lasting => \A d \in Devices : dev[d] = Leaves(ended)

(* A configuration comes to the clients of the ring buffers after SMRB. *)
BufferInv ==
  queue # <<>> /\ Job.name = "ConfigureScan" =>
    /\ Begun(Job) = 1 => "smrb" \in todo \cup awaited \/ dev["smrb"] = "IDLE"
    /\ Begun(Job) = 2 => dev["smrb"] = "IDLE"

(* SMRB is configured before its clients, and deconfigured after them. *)
RingInv == (\E d \in Clients : Using(d)) => dev["smrb"] \notin {"EMPTY", "RESOURCING_EMPTY"}

(* The state that the sub-devices have with BEAM when no job is at work;   *)
(* then some jobs cannot but fail at their first sub-device.               *)
Matched == {"IDLE", "CONFIGURING_IDLE", "READY", "SCANNING"}
Match == CASE beam \in {"IDLE", "CONFIGURING_IDLE"} -> "EMPTY"
           [] OTHER -> beam
Hopeless(name) ==
  \/ name = "DeconfigureScan" /\ beam = "SCANNING"
  \/ name \in {"Scan", "EndScan"} /\ beam \in {"IDLE", "CONFIGURING_IDLE"}

(* No sub-device has been sent a command of the job at work. *)
Unsent ==
  /\ awaited = {}
  /\ Begun(Job) > 0 => todo = Plan(Job.name)[Begun(Job)].devices
  /\ Begun(Job) \in {0, 1} \/ (Begun(Job) = 2 /\ Job.name = "Scan")

AgreeInv ==
  beam \in Matched =>
    /\ ~AtWork => \A d \in Devices : dev[d] = Match
    /\ \A i \in 1 .. Len(queue) : Hopeless(queue[i].name) =>
         (\A d \in Devices : dev[d] = Match) /\ (i = 1 => Unsent)
    /\ ~Hopeless(ended)

WorkInv == SendInv /\ OrderInv /\ DoneInv /\ BufferInv /\ RingInv /\ AgreeInv

IInv == BaseInv /\ FaultsInv /\ (clean => WorkInv)

-----------------------------------------------------------------------------
(* What can happen then.                                                   *)

Sent(e) ==
  /\ e \in todo /\ Begins(dev[e], command, dev'[e])
  /\ dev' = [dev EXCEPT ![e] = dev'[e]]
  /\ running' = [running EXCEPT ![e] = @ \cup {command}]
  /\ todo' = todo \ {e} /\ awaited' = awaited \cup {e}
  /\ UNCHANGED <<beam, tasks, queue, ended, command, late, news, clean>>

Served(e) ==
  /\ e \in awaited /\ Leads(dev[e], command, dev'[e])
  /\ dev' = [dev EXCEPT ![e] = dev'[e]]
  /\ running' = [running EXCEPT ![e] = @ \ {command}]
  /\ awaited' = awaited \ {e}
  /\ UNCHANGED <<beam, tasks, queue, ended, command, todo, late, news, clean>>

Calling == ConfigureInvoked \/ DeconfigureScan \/ Scan \/ EndScan \/ Abort \/ ObsReset
Working == ConfigureScan \/ BeginStep \/ JobEnds \/ (\E e \in Devices : Sent(e) \/ Served(e))
CleanNext == Calling \/ Working \/ TakeTask \/ Callback

LEMMA Cleanly ==
  ASSUME BaseInv, clean => WorkInv, [Next]_vars, clean'
  PROVE  clean /\ (CleanNext \/ UNCHANGED vars)
<1> USE DEF BaseInv
<1>1. CASE ConfigureScan \/ ConfigureInvoked \/ DeconfigureScan \/ Scan \/ EndScan \/ Abort \/ ObsReset
  BY <1>1 DEF ConfigureScan, ConfigureInvoked, DeconfigureScan, Scan, EndScan, Abort, ObsReset, Call,
              CleanNext, Calling, Working
<1>2. CASE GoToFault \/ WriteFails
  BY <1>2 DEF GoToFault, WriteFails, Fails
<1>3. CASE TakeTask \/ BeginStep \/ JobEnds \/ Callback
  BY <1>3 DEF TakeTask, BeginStep, JobEnds, Callback, CleanNext, Working
<1>4. ASSUME NEW e \in Devices, Send(e) PROVE clean /\ Sent(e)
  <2>1. e \in todo /\ UNCHANGED <<beam, tasks, ended, news>>
    BY <1>4 DEF Send
  <2>2. Taken(dev[e], command)
    BY <1>4 DEF Send, Fails
  <2>3. /\ dev' = [dev EXCEPT ![e] = Invoked(dev[e], command)]
        /\ running' = [running EXCEPT ![e] = @ \cup {command}]
        /\ todo' = todo \ {e} /\ awaited' = awaited \cup {e}
        /\ UNCHANGED <<queue, command, late, clean>>
    BY <1>4, <2>2 DEF Send
  <2>4. dev[e] \in States /\ command \in Commands
    BY <2>1, AtStage DEF TypeOK
  <2>5. dev'[e] = Invoked(dev[e], command)
    BY <2>3 DEF TypeOK
  <2>6. Begins(dev[e], command, dev'[e])
    BY <2>2, <2>4, <2>5, TakenIs
  <2> QED BY <2>1, <2>3, <2>5, <2>6 DEF Sent
<1>5. ASSUME NEW e \in Devices, FaultEvent(e) PROVE FALSE
  <2>1. clean /\ e \in news
    BY <1>5 DEF FaultEvent, jobVars
  <2> QED BY <2>1 DEF WorkInv, SendInv
<1>6. ASSUME NEW e \in Devices, NEW c \in Commands, SendLate(e, c) PROVE FALSE
  <2>1. clean /\ <<e, c>> \in late
    BY <1>6 DEF SendLate
  <2> QED BY <2>1 DEF WorkInv, SendInv
<1>7. ASSUME NEW e \in Devices, NEW c \in Commands, c \in running[e], clean
      PROVE  e \in awaited /\ c = command /\ c # "GoToFault"
  <2>1. e \in awaited /\ c = command
    BY <1>7 DEF WorkInv, SendInv
  <2>2. command # "GoToFault"
    <3>1. queue # <<>> /\ StageOf(Job.name, Begun(Job), command, Plan(Job.name)[Begun(Job)].devices)
      BY <2>1, AtStage
    <3>2. Job = queue[1] /\ 1 \in 1 .. Len(queue)
      BY <3>1, QueueIs
    <3>3. Job.name # "GoToFault"
      BY <1>7, <3>2 DEF WorkInv, OrderInv, Pending, Held, InQueue
    <3> QED BY <3>1, <3>3 DEF StageOf
  <2> QED BY <2>1, <2>2
<1>8. ASSUME NEW e \in Devices, NEW c \in Commands, Succeed(e, c) PROVE clean /\ Served(e)
  <2>1. PICK q \in States, ok \in BOOLEAN :
          /\ dev' = [dev EXCEPT ![e] = q] /\ Report(e, c, ok)
          /\ ok => Leads(dev[e], c, q)
    BY <1>8, SucceedIs
  <2>2. /\ c \in running[e] /\ running' = [running EXCEPT ![e] = @ \ {c}]
        /\ news' = IF c = "GoToFault" THEN news \cup {e} ELSE news
        /\ UNCHANGED <<beam, tasks, ended>>
    BY <1>8 DEF Succeed
  <2>3. \/ UNCHANGED clean /\ ~(e \in awaited /\ c = command)
        \/ /\ e \in awaited /\ c = command /\ ok
           /\ awaited' = awaited \ {e} /\ UNCHANGED <<queue, command, todo, late, clean>>
    BY <2>1, <2>2, ReportIs DEF Fails
  <2>4. clean /\ e \in awaited /\ c = command /\ c # "GoToFault"
    BY <1>7, <2>2, <2>3
  <2>5. dev'[e] = q
    BY <2>1 DEF TypeOK
  <2> QED BY <2>1, <2>2, <2>3, <2>4, <2>5 DEF Served
<1>9. ASSUME NEW e \in Devices, NEW c \in Commands, Fail(e, c) PROVE FALSE
  <2>1. c \in running[e] /\ Report(e, c, FALSE) /\ UNCHANGED <<tasks, ended>>
    BY <1>9 DEF Fail
  <2>2. UNCHANGED clean /\ ~(e \in awaited /\ c = command)
    BY <2>1, ReportIs DEF Fails
  <2> QED BY <1>7, <2>1, <2>2
<1>10. CASE UNCHANGED vars
  BY <1>10 DEF vars, jobVars
<1> QED
  BY <1>1, <1>2, <1>3, <1>4, <1>5, <1>6, <1>8, <1>9, <1>10 DEF Next, CleanNext, Working

(* The job of the task thread stays its job until its callback. *)
LEMMA SomeJobIs ==
  ASSUME NEW q \in Seq(JobType), NEW e \in BeamCommands \cup {"none"}
  PROVE  (e # "none" \/ \E i \in 1 .. Len(q) : q[i].name # "ValidateConfigureScan")
           <=> \E n \in BeamCommands : (\E i \in 1 .. Len(q) : q[i].name = n) \/ e = n
<1>1. \A i \in 1 .. Len(q) : q[i].name \in BeamCommands \cup {"ValidateConfigureScan"}
  <2>1. \A i \in 1 .. Len(q) : q[i] \in JobType
    BY ElementOfSeq
  <2> QED BY <2>1 DEF JobType
<1>2. "ValidateConfigureScan" \notin BeamCommands /\ "none" \notin BeamCommands
  BY DEF BeamCommands
<1> QED BY <1>1, <1>2

LEMMA AtWorkIs ==
  ASSUME BaseInv
  PROVE  AtWork <=> \E n \in BeamCommands : Held(n)
<1>1. queue \in Seq(JobType) /\ ended \in BeamCommands \cup {"none"}
  BY DEF BaseInv, TypeOK
<1> QED BY <1>1, SomeJobIs DEF AtWork, Held, InQueue

LEMMA AtWorkStays ==
  ASSUME BaseInv, BaseInv', \A n \in BeamCommands : Held(n)' <=> Held(n)
  PROVE  AtWork' <=> AtWork
<1>1. queue' \in Seq(JobType) /\ ended' \in BeamCommands \cup {"none"}
  BY DEF BaseInv, TypeOK
<1>2. AtWork' <=> \E n \in BeamCommands : Held(n)'
  BY <1>1, SomeJobIs DEF AtWork, Held, InQueue
<1> QED BY <1>2, AtWorkIs

LEMMA HeldAlone ==
  ASSUME BaseInv, NEW m \in BeamCommands, NEW n \in BeamCommands, Held(m), Held(n)
  PROVE  m = n
<1>1. "ValidateConfigureScan" \notin BeamCommands /\ "none" \notin BeamCommands
  BY DEF BeamCommands
<1>2. CASE ended # "none"
  <2>1. \A k \in BeamCommands : ~InQueue(k)
    BY <1>1, <1>2 DEF BaseInv, JobInv, InQueue, Validation
  <2> QED BY <2>1 DEF Held
<1>3. CASE ended = "none"
  <2>1. InQueue(m) /\ InQueue(n)
    BY <1>1, <1>3 DEF Held
  <2> QED BY <1>1, <2>1 DEF BaseInv, JobInv, InQueue, Validation
<1> QED BY <1>2, <1>3

LEMMA HeldStays ==
  ASSUME BaseInv, Calling \/ Working
  PROVE  \A n \in BeamCommands : Held(n)' <=> Held(n)
<1> USE DEF BaseInv
<1>1. "ValidateConfigureScan" \notin BeamCommands /\ "none" \notin BeamCommands
  BY DEF BeamCommands
<1>2. CASE UNCHANGED <<queue, ended>>
  BY <1>2 DEF Held, InQueue
<1>3. CASE ConfigureScan
  <2>1. /\ JobOf("ValidateConfigureScan") \in JobType /\ queue \in Seq(JobType)
        /\ JobOf("ValidateConfigureScan").name = "ValidateConfigureScan"
    BY JobOfIs DEF JobNames, TypeOK
  <2>2. queue' = Append(queue, JobOf("ValidateConfigureScan")) /\ ended' = ended
    BY <1>3 DEF ConfigureScan
  <2>3. \A n \in BeamCommands : InQueue(n)' <=> InQueue(n)
    BY <1>1, <2>1, <2>2, AppendIs DEF InQueue
  <2> QED BY <2>2, <2>3 DEF Held
<1>4. CASE BeginStep
  <2>1. /\ Len(queue') = Len(queue) /\ ended' = ended
        /\ \A i \in 1 .. Len(queue) : queue'[i].name = queue[i].name
    BY <1>4, BeginStepIs, OnwardIs DEF BeginStep
  <2> QED BY <2>1 DEF Held, InQueue
<1>5. CASE JobEnds
  <2>1. queue # <<>> /\ queue' = Tail(queue)
    BY <1>5 DEF JobEnds, StepOver
  <2>2. /\ Len(queue) \in Nat /\ Job = queue[1] /\ 1 \in 1 .. Len(queue)
        /\ Len(queue') = Len(queue) - 1
        /\ \A i \in 1 .. Len(queue') : i + 1 \in 1 .. Len(queue) /\ queue'[i] = queue[i + 1]
    BY <2>1, QueueIs
  <2>3. ASSUME NEW i \in 1 .. Len(queue), i # 1
        PROVE  i - 1 \in 1 .. Len(queue') /\ queue'[i - 1] = queue[i]
    <3>1. i - 1 \in 1 .. Len(queue') /\ (i - 1) + 1 = i
      BY ONLY <2>2, <2>3
    <3> QED BY <2>2, <3>1
  <2>4. ASSUME NEW n \in BeamCommands PROVE InQueue(n) <=> InQueue(n)' \/ Job.name = n
    BY <2>2, <2>3 DEF InQueue
  <2>5. CASE Validation(Job)
    <3>1. ended' = ended
      BY <1>5, <2>5 DEF JobEnds, Validation
    <3> QED BY <1>1, <2>4, <2>5, <3>1 DEF Held, Validation
  <2>6. CASE ~Validation(Job)
    <3>1. ended' = Job.name
      BY <1>5, <2>6 DEF JobEnds, Validation
    <3>2. ended = "none"
      BY <2>2, <2>6 DEF JobInv
    <3> QED BY <1>1, <2>4, <3>1, <3>2 DEF Held
  <2> QED BY <2>5, <2>6
<1>6. CASE Calling
  BY <1>2, <1>6 DEF Calling, ConfigureInvoked, DeconfigureScan, Scan, EndScan, Abort, ObsReset, Call
<1>7. CASE \E e \in Devices : Sent(e) \/ Served(e)
  BY <1>2, <1>7 DEF Sent, Served
<1> QED BY <1>3, <1>4, <1>5, <1>6, <1>7 DEF Working

LEMMA HeldTaken ==
  ASSUME BaseInv, TakeTask
  PROVE  /\ ~AtWork /\ \A n \in BeamCommands : ~Held(n)
         /\ \A n \in BeamCommands : Held(n)' <=> n = tasks[1].name
<1> USE DEF BaseInv
<1>1. ~AtWork /\ tasks # <<>> /\ queue' = Append(queue, Head(tasks)) /\ ended' = ended
  BY DEF TakeTask
<1>2. \A n \in BeamCommands : ~Held(n)
  BY <1>1, AtWorkIs
<1>3. Head(tasks) \in JobType /\ Head(tasks) = tasks[1] /\ queue \in Seq(JobType)
  BY <1>1, HeadTailProperties DEF TypeOK
<1>4. \A n \in BeamCommands : InQueue(n)' <=> InQueue(n) \/ n = tasks[1].name
  BY <1>1, <1>3, AppendIs DEF InQueue
<1> QED BY <1>1, <1>2, <1>4 DEF Held

LEMMA HeldLast ==
  ASSUME BaseInv, Callback
  PROVE  /\ ended \in BeamCommands /\ Held(ended)
         /\ ~AtWork' /\ \A n \in BeamCommands : ~Held(n)'
         /\ tasks' = tasks \/ (tasks' = <<>> /\ ended = "Abort")
<1> USE DEF BaseInv
<1>1. "ValidateConfigureScan" \notin BeamCommands /\ "none" \notin BeamCommands
  BY DEF BeamCommands
<1>2. ended \in BeamCommands /\ ended' = "none" /\ UNCHANGED queue
  BY DEF Callback, TypeOK
<1>3. \A i \in 1 .. Len(queue') : queue'[i].name = "ValidateConfigureScan"
  BY <1>1, <1>2 DEF JobInv, Validation
<1>4. ~AtWork' /\ \A n \in BeamCommands : ~Held(n)'
  BY <1>1, <1>2, <1>3 DEF AtWork, Held, InQueue
<1>5. tasks' = tasks \/ (tasks' = <<>> /\ ended = "Abort")
  BY DEF Callback
<1> QED BY <1>2, <1>4, <1>5 DEF Held

-----------------------------------------------------------------------------
(* Which jobs are on their way tells the state of BEAM. *)
LEMMA OrderAppended ==
  ASSUME BaseInv, BaseInv', NEW c \in BeamCommands, OrderInv, tasks' = Append(tasks, JobOf(c)),
         \A n \in BeamCommands : Held(n)' <=> Held(n), UNCHANGED ended,
         \/ beam \in {"READY", "SCANNING"} /\ beam' = beam /\ c \in {"DeconfigureScan", "Scan", "EndScan"}
         \/ beam \in Abortable /\ beam' = "ABORTING" /\ c = "Abort"
         \/ beam = "ABORTED" /\ beam' = "RESETTING" /\ c = "ObsReset"
         \/ /\ beam \in {"IDLE", "READY"} /\ beam' \in {"CONFIGURING_IDLE", "CONFIGURING_READY"}
            /\ c = "ConfigureScan"
  PROVE  OrderInv'
<1>1. JobOf(c) \in JobType /\ JobOf(c).name = c
  BY JobOfIs DEF JobNames
<1>2. /\ Len(tasks) \in Nat /\ Len(tasks') = Len(tasks) + 1 /\ tasks = <<>> <=> Len(tasks) = 0
      /\ \A i \in 1 .. Len(tasks') : \/ i \in 1 .. Len(tasks) /\ tasks'[i].name = tasks[i].name
                                     \/ i = Len(tasks) + 1 /\ tasks'[i].name = c
  BY <1>1, AppendIs DEF BaseInv, TypeOK
<1>3. \A n \in BeamCommands : Pending(n)' => Pending(n) \/ n = c
  BY <1>2 DEF Pending, InTasks
<1>4. AtWork' <=> AtWork
  BY AtWorkStays
<1>5. {"Abort", "ObsReset", "ConfigureScan", "GoToFault"} \subseteq BeamCommands
  BY DEF BeamCommands
<1>6. CASE beam \in {"READY", "SCANNING"} /\ beam' = beam /\ c \in {"DeconfigureScan", "Scan", "EndScan"}
  BY <1>2, <1>3, <1>4, <1>5, <1>6 DEF OrderInv, Pending, InTasks
<1>7. CASE beam \in Abortable /\ beam' = "ABORTING" /\ c = "Abort"
  BY <1>2, <1>3, <1>4, <1>5, <1>7 DEF OrderInv, Pending, InTasks, Abortable
<1>8. CASE beam = "ABORTED" /\ beam' = "RESETTING" /\ c = "ObsReset"
  BY <1>2, <1>3, <1>4, <1>5, <1>8 DEF OrderInv, Pending, InTasks
<1>9. CASE /\ beam \in {"IDLE", "READY"} /\ beam' \in {"CONFIGURING_IDLE", "CONFIGURING_READY"}
           /\ c = "ConfigureScan"
  BY <1>2, <1>3, <1>4, <1>5, <1>9 DEF OrderInv, Pending, InTasks
<1> QED BY <1>6, <1>7, <1>8, <1>9

LEMMA OrderStep ==
  ASSUME BaseInv, BaseInv', beam # "EMPTY", OrderInv, CleanNext \/ UNCHANGED vars
  PROVE  OrderInv'
<1> USE DEF BaseInv
<1>1. {"Abort", "ObsReset", "ConfigureScan", "GoToFault"} \subseteq BeamCommands
  BY DEF BeamCommands
<1>2. ASSUME UNCHANGED <<beam, tasks>>, \A n \in BeamCommands : Held(n)' <=> Held(n)
      PROVE  OrderInv'
  <2>1. AtWork' <=> AtWork
    BY <1>2, AtWorkStays
  <2>2. \A n \in BeamCommands : /\ Pending(n)' <=> Pending(n)
                                /\ InTasks(n)' <=> InTasks(n)
    BY <1>2 DEF Pending, InTasks
  <2> QED BY <1>1, <1>2, <2>1, <2>2 DEF OrderInv
<1>3. CASE Working
  <2>1. UNCHANGED <<beam, tasks>>
    BY <1>3 DEF Working, ConfigureScan, BeginStep, JobEnds, Sent, Served
  <2> QED BY <1>2, <1>3, <2>1, HeldStays
<1>4. CASE UNCHANGED vars
  <2>1. UNCHANGED <<beam, tasks, queue, ended>>
    BY <1>4 DEF vars, jobVars
  <2> QED BY <1>2, <2>1 DEF Held, InQueue
<1>5. CASE Calling
  <2>1. \A n \in BeamCommands : Held(n)' <=> Held(n)
    BY <1>5, HeldStays
  <2>2. CASE ConfigureInvoked
    <3>1. UNCHANGED ended
      BY <2>2 DEF ConfigureInvoked
    <3>2. CASE Allowed(beam, "configure_invoked")
      <4>1. /\ beam \in {"IDLE", "READY"} /\ beam' \in {"CONFIGURING_IDLE", "CONFIGURING_READY"}
            /\ tasks' = Append(tasks, JobOf("ConfigureScan"))
        BY <2>2, <3>2, Calls DEF ConfigureInvoked
      <4> QED BY <2>1, <3>1, <4>1, OrderAppended, <1>1
    <3>3. CASE ~Allowed(beam, "configure_invoked")
      BY <1>2, <2>1, <2>2, <3>3 DEF ConfigureInvoked
    <3> QED BY <3>2, <3>3
  <2>3. CASE DeconfigureScan
    BY <2>1, <2>3, OrderAppended DEF DeconfigureScan, Call, BeamCommands
  <2>4. CASE Scan
    BY <2>1, <2>4, OrderAppended DEF Scan, Call, BeamCommands
  <2>5. CASE EndScan
    BY <2>1, <2>5, OrderAppended DEF EndScan, Call, BeamCommands
  <2>6. CASE Abort
    <3>1. beam \in Abortable /\ beam' = "ABORTING"
      BY <2>6, Calls DEF Abort
    <3> QED BY <2>1, <2>6, <3>1, <1>1, OrderAppended DEF Abort, Call
  <2>7. CASE ObsReset
    <3>1. beam = "ABORTED" /\ beam' = "RESETTING"
      BY <2>7, Calls DEF ObsReset, OrderInv
    <3> QED BY <2>1, <2>7, <3>1, <1>1, OrderAppended DEF ObsReset, Call
  <2> QED BY <1>5, <2>2, <2>3, <2>4, <2>5, <2>6, <2>7 DEF Calling
<1>6. CASE TakeTask
  <2>1. /\ ~AtWork /\ \A n \in BeamCommands : Held(n)' <=> n = tasks[1].name
    BY <1>6, HeldTaken
  <2>2. tasks # <<>> /\ tasks' = Tail(tasks) /\ UNCHANGED beam
    BY <1>6 DEF TakeTask
  <2>3. /\ Len(tasks) \in Nat /\ 1 \in 1 .. Len(tasks) /\ Len(tasks') = Len(tasks) - 1
        /\ \A i \in 1 .. Len(tasks') : i + 1 \in 1 .. Len(tasks) /\ tasks'[i] = tasks[i + 1]
    <3>1. /\ Len(tasks) \in Nat /\ 1 \in 1 .. Len(tasks) /\ Len(tasks') = Len(tasks) - 1
          /\ \A i \in 1 .. Len(tasks') : tasks'[i] = tasks[i + 1]
      BY <2>2, HeadTailProperties, EmptySeq DEF TypeOK
    <3> QED BY <3>1
  <2>4. \A n \in BeamCommands : /\ InTasks(n)' => InTasks(n)
                                /\ Pending(n)' => Pending(n)
    <3>1. ASSUME NEW n \in BeamCommands, InTasks(n)' PROVE InTasks(n)
      <4>1. PICK i \in 1 .. Len(tasks') : tasks'[i].name = n
        BY <3>1 DEF InTasks
      <4> QED BY <2>3, <4>1 DEF InTasks
    <3>2. ASSUME NEW n \in BeamCommands, Held(n)' PROVE InTasks(n)
      <4>1. tasks[1].name = n
        BY <2>1, <3>2
      <4> QED BY <2>3, <4>1 DEF InTasks
    <3> QED BY <3>1, <3>2 DEF Pending
  <2>5. \A i \in 1 .. Len(tasks') : tasks'[i].name # "ObsReset"
    <3>1. ASSUME NEW i \in 1 .. Len(tasks') PROVE tasks[i + 1].name # "ObsReset"
      <4>1. i + 1 \in 1 .. Len(tasks) /\ i + 1 # 1
        BY <2>3
      <4> QED BY <4>1 DEF OrderInv
    <3> QED BY <2>3, <3>1
  <2>6. Held("Abort")' => tasks' = <<>>
    <3>1. ASSUME tasks[1].name = "Abort" PROVE Len(tasks') = 0
      <4>1. 1 = Len(tasks)
        BY <2>3, <3>1 DEF OrderInv
      <4>2. Len(tasks') = Len(tasks) - 1 /\ Len(tasks) \in Nat
        BY <2>3
      <4> QED BY ONLY <4>1, <4>2
    <3>2. tasks' \in Seq(JobType)
      BY DEF TypeOK
    <3> QED BY <1>1, <2>1, <3>1, <3>2, EmptySeq
  <2>7. Held("ConfigureScan")' => ~InTasks("ConfigureScan")'
    <3>1. ASSUME tasks[1].name = "ConfigureScan", NEW i \in 1 .. Len(tasks'),
                 tasks[i + 1].name = "ConfigureScan"
          PROVE  FALSE
      <4>1. 1 = i + 1
        BY <2>3, <3>1 DEF OrderInv
      <4> QED BY <4>1
    <3> QED BY <1>1, <2>1, <2>3, <3>1 DEF InTasks
  <2>8. \A i, k \in 1 .. Len(tasks') :
          tasks'[i].name = "ConfigureScan" /\ tasks'[k].name = "ConfigureScan" => i = k
    <3>1. ASSUME NEW i \in 1 .. Len(tasks'), NEW k \in 1 .. Len(tasks'),
                 tasks'[i].name = "ConfigureScan", tasks'[k].name = "ConfigureScan"
          PROVE  i = k
      <4>1. /\ i + 1 \in 1 .. Len(tasks) /\ tasks[i + 1].name = "ConfigureScan"
            /\ k + 1 \in 1 .. Len(tasks) /\ tasks[k + 1].name = "ConfigureScan"
        BY <2>3, <3>1
      <4>2. i + 1 = k + 1
        BY <4>1 DEF OrderInv
      <4> QED BY <4>2
    <3> QED BY <3>1
  <2>9. \A i \in 1 .. Len(tasks') : tasks'[i].name = "Abort" => i = Len(tasks')
    <3>1. ASSUME NEW i \in 1 .. Len(tasks'), tasks[i + 1].name = "Abort" PROVE i = Len(tasks')
      <4>1. i + 1 = Len(tasks)
        BY <2>3, <3>1 DEF OrderInv
      <4> QED BY <2>3, <4>1
    <3> QED BY <2>3, <3>1
  <2>10. beam' # "ABORTED"
    BY <2>2 DEF OrderInv
  <2>11. /\ ~Pending("GoToFault")' /\ (Pending("Abort")' => beam = "ABORTING")
         /\ (Pending("ObsReset")' => beam \in {"RESETTING", "ABORTING"})
         /\ (Pending("ConfigureScan")' => beam \in {"CONFIGURING_IDLE", "CONFIGURING_READY", "ABORTING"})
    BY <1>1, <2>4 DEF OrderInv
  <2>12. beam' # "FAULT" /\ beam' = beam
    BY <2>2 DEF OrderInv
  <2> QED BY <2>5, <2>6, <2>7, <2>8, <2>9, <2>10, <2>11, <2>12 DEF OrderInv
<1>7. CASE Callback
  <2>1. /\ ended \in BeamCommands /\ Held(ended) /\ ~AtWork' /\ \A n \in BeamCommands : ~Held(n)'
        /\ tasks' = tasks \/ (tasks' = <<>> /\ ended = "Abort")
    BY <1>7, HeldLast
  <2>2. beam' = Becomes(ended) /\ beam \in States
    BY <1>7, CallbackIs DEF TypeOK
  <2>3. AtWork
    BY <2>1, AtWorkIs
  <2>4. ended = "Abort" => tasks' = <<>>
    BY <2>1 DEF OrderInv
  <2>5. \A i \in 1 .. Len(tasks') : tasks' = tasks /\ tasks[i].name # "ObsReset"
    <3>1. tasks' = <<>> => Len(tasks') = 0
      BY EmptySeq
    <3> QED BY <2>1, <2>3, <3>1 DEF OrderInv
  <2>6. \A n \in BeamCommands : /\ InTasks(n)' => InTasks(n) /\ n # "ObsReset" /\ tasks' # <<>>
                                /\ Pending(n)' => InTasks(n)'
    <3>1. tasks' = <<>> => Len(tasks') = 0
      BY EmptySeq
    <3> QED BY <2>1, <2>5, <3>1 DEF InTasks, Pending
  <2>7. beam' # "FAULT"
    BY <2>1, <2>2, BecomesIs, <1>1 DEF OrderInv, Pending, BeamCommands
  <2>8. Pending("Abort")' => beam' = "ABORTING"
    <3>1. ASSUME Pending("Abort")' PROVE beam' = "ABORTING"
      <4>1. InTasks("Abort") /\ tasks' # <<>>
        BY <1>1, <2>6, <3>1
      <4>2. beam = "ABORTING" /\ ended # "Abort" /\ ended # "GoToFault"
        BY <1>1, <2>1, <2>4, <4>1 DEF OrderInv, Pending
      <4> QED BY <2>1, <2>2, <4>2, BecomesIs DEF BeamCommands
    <3> QED BY <3>1
  <2>9. beam' = "ABORTED" => tasks' = <<>> /\ ~AtWork'
    <3>1. ASSUME beam' = "ABORTED" PROVE ended = "Abort"
      <4>1. beam # "ABORTED"
        BY <2>3 DEF OrderInv
      <4> QED BY <2>1, <2>2, <3>1, <4>1, BecomesIs DEF BeamCommands
    <3> QED BY <2>1, <2>4, <3>1
  <2>10. Pending("ConfigureScan")'
           => beam' \in {"CONFIGURING_IDLE", "CONFIGURING_READY", "ABORTING"}
    <3>1. ASSUME Pending("ConfigureScan")'
          PROVE  beam' \in {"CONFIGURING_IDLE", "CONFIGURING_READY", "ABORTING"}
      <4>1. InTasks("ConfigureScan") /\ tasks' # <<>>
        BY <1>1, <2>6, <3>1
      <4>2. /\ beam \in {"CONFIGURING_IDLE", "CONFIGURING_READY", "ABORTING"}
            /\ ended # "Abort" /\ ended # "GoToFault" /\ ended # "ConfigureScan"
        BY <1>1, <2>1, <2>4, <4>1 DEF OrderInv, Pending
      <4> QED BY <2>1, <2>2, <4>2, BecomesIs DEF BeamCommands
    <3> QED BY <3>1
  <2>11. ~Pending("GoToFault")'
    BY <1>1, <2>6 DEF OrderInv, Pending
  <2>12. ~Pending("ObsReset")'
    BY <1>1, <2>6
  <2> QED BY <1>1, <2>1, <2>5, <2>7, <2>8, <2>9, <2>10, <2>11, <2>12 DEF OrderInv
<1> QED BY <1>3, <1>4, <1>5, <1>6, <1>7 DEF CleanNext

-----------------------------------------------------------------------------
(* The commands that the sub-devices execute. *)
LEMMA SendStep ==
  ASSUME BaseInv, SendInv, CleanNext \/ UNCHANGED vars
  PROVE  SendInv'
<1> USE DEF BaseInv
<1>1. ASSUME UNCHANGED <<command, todo, awaited, late, devVars>> PROVE SendInv'
  BY <1>1 DEF SendInv, devVars
<1>2. CASE Calling \/ TakeTask \/ Callback \/ ConfigureScan \/ UNCHANGED vars
  BY <1>1, <1>2 DEF Calling, ConfigureInvoked, DeconfigureScan, Scan, EndScan, Abort, ObsReset, Call,
                    TakeTask, Callback, ConfigureScan, vars, jobVars
<1>3. CASE BeginStep \/ JobEnds
  <2>1. awaited = {} /\ awaited' = {} /\ UNCHANGED <<late, dev, running, news>>
    BY <1>3 DEF BeginStep, JobEnds, StepOver, devVars
  <2> QED BY <2>1 DEF SendInv
<1>4. ASSUME NEW e \in Devices, Sent(e) PROVE SendInv'
  <2>1. /\ e \in todo /\ e \notin awaited /\ Begins(dev[e], command, dev'[e])
        /\ dev' = [dev EXCEPT ![e] = dev'[e]] /\ running' = [running EXCEPT ![e] = @ \cup {command}]
        /\ todo' = todo \ {e} /\ awaited' = awaited \cup {e}
        /\ UNCHANGED <<command, late, news>>
    BY <1>4 DEF Sent, SendInv
  <2>2. ASSUME NEW d \in Devices PROVE running'[d] = IF d \in awaited' THEN {command'} ELSE {}
    BY <2>1 DEF SendInv, TypeOK
  <2>3. /\ command = "Scan" => dev'[e] = "READY"
        /\ command = "EndScan" => dev'[e] = "SCANNING"
    BY <2>1 DEF Begins
  <2>4. \A d \in Devices : d # e => dev'[d] = dev[d]
    BY <2>1 DEF TypeOK
  <2>5. \A d \in awaited' : d \in Devices /\ (d = e \/ d \in awaited)
    BY <2>1 DEF TypeOK
  <2> QED BY <2>1, <2>2, <2>3, <2>4, <2>5 DEF SendInv
<1>5. ASSUME NEW e \in Devices, Served(e) PROVE SendInv'
  <2>1. /\ e \in awaited /\ dev' = [dev EXCEPT ![e] = dev'[e]]
        /\ running' = [running EXCEPT ![e] = @ \ {command}]
        /\ awaited' = awaited \ {e} /\ UNCHANGED <<command, todo, late, news>>
    BY <1>5 DEF Served
  <2>2. ASSUME NEW d \in Devices PROVE running'[d] = IF d \in awaited' THEN {command'} ELSE {}
    BY <2>1 DEF SendInv, TypeOK
  <2>3. \A d \in awaited' : d \in awaited /\ dev'[d] = dev[d]
    BY <2>1 DEF TypeOK
  <2> QED BY <2>1, <2>2, <2>3 DEF SendInv
<1> QED BY <1>2, <1>3, <1>4, <1>5 DEF CleanNext, Working

(* A validation leaves the sub-devices as they are; any other command is   *)
(* of the job of the task thread.                                          *)
LEMMA AtDevice ==
  ASSUME BaseInv, SendInv, OrderInv, NEW e \in Devices, Sent(e) \/ Served(e)
  PROVE  /\ queue # <<>> /\ Job = queue[1] /\ Job \in JobType /\ 1 \in 1 .. Len(queue) /\ Follows(Job)
         /\ Begun(Job) \in 1 .. Len(Plan(Job.name)) /\ e \in Plan(Job.name)[Begun(Job)].devices
         /\ StageOf(Job.name, Begun(Job), command, Plan(Job.name)[Begun(Job)].devices)
         /\ command \in Commands
         /\ command = "ValidateConfigureScan" => Validation(Job) /\ dev' = dev
         /\ command # "ValidateConfigureScan" =>
              /\ ~Validation(Job) /\ AtWork /\ ended = "none"
              /\ \A i \in 1 .. Len(queue) : i # 1 => Validation(queue[i])
              /\ \A i \in 1 .. Len(tasks) : tasks[i].name # "ObsReset"
         /\ \A d \in Devices : d # e => /\ dev'[d] = dev[d]
                                        /\ d \in todo' \cup awaited' <=> d \in todo \cup awaited
         /\ UNCHANGED <<beam, tasks, queue, ended, command>>
<1> USE DEF BaseInv
<1>1. e \in todo \cup awaited
  BY DEF Sent, Served
<1>2. /\ queue # <<>> /\ Job \in JobType /\ Follows(Job)
      /\ Begun(Job) \in 1 .. Len(Plan(Job.name)) /\ e \in Plan(Job.name)[Begun(Job)].devices
      /\ StageOf(Job.name, Begun(Job), command, Plan(Job.name)[Begun(Job)].devices)
      /\ command \in Commands
  BY <1>1, AtStage
<1>3. Job = queue[1] /\ 1 \in 1 .. Len(queue)
  BY <1>2, QueueIs
<1>4. UNCHANGED <<beam, tasks, queue, ended, command>>
  BY DEF Sent, Served
<1>5. \A d \in Devices : d # e => /\ dev'[d] = dev[d]
                                  /\ d \in todo' \cup awaited' <=> d \in todo \cup awaited
  BY DEF Sent, Served, TypeOK
<1>6. command = "ValidateConfigureScan" => Validation(Job) /\ dev' = dev
  <2>1. ASSUME command = "ValidateConfigureScan" PROVE dev'[e] = dev[e]
    BY <2>1 DEF Sent, Served, Begins, Leads
  <2>2. dev' = [dev EXCEPT ![e] = dev'[e]] /\ dev \in [Devices -> States]
    BY DEF Sent, Served, TypeOK
  <2>3. command = "ValidateConfigureScan" => dev' = dev
    BY <2>1, <2>2
  <2> QED BY <1>2, <2>3 DEF StageOf, Validation
<1>7. command # "ValidateConfigureScan" =>
        /\ ~Validation(Job) /\ AtWork /\ ended = "none"
        /\ \A i \in 1 .. Len(queue) : i # 1 => Validation(queue[i])
        /\ \A i \in 1 .. Len(tasks) : tasks[i].name # "ObsReset"
  <2>1. ASSUME command # "ValidateConfigureScan" PROVE ~Validation(Job)
    BY <1>2, <2>1 DEF StageOf, Validation, Commands
  <2>2. ~Validation(Job) => AtWork /\ ended = "none"
    BY <1>3 DEF AtWork, JobInv, Validation
  <2>3. ~Validation(Job) => \A i \in 1 .. Len(queue) : i # 1 => Validation(queue[i])
    BY <1>3 DEF JobInv
  <2>4. AtWork => \A i \in 1 .. Len(tasks) : tasks[i].name # "ObsReset"
    BY DEF OrderInv
  <2> QED BY <2>1, <2>2, <2>3, <2>4
<1> QED BY <1>2, <1>3, <1>4, <1>5, <1>6, <1>7

-----------------------------------------------------------------------------
(* The state in which a job that ends well leaves the sub-devices. *)
DoneTasks == \A i \in 1 .. Len(tasks) : tasks[i].name = "ObsReset" =>
               \A d \in Devices : dev[d] = "EMPTY" \/ ComesTo(tasks[i], d)
DoneAt(i) == queue[i].name \in Lasting =>
               \A d \in Devices : dev[d] = Leaves(queue[i].name) \/ AtHand(i, d)

LEMMA DoneIs ==
  DoneInv <=> /\ DoneTasks
              /\ \A i \in 1 .. Len(queue) : DoneAt(i)
              /\ ended \in Lasting => \A d \in Devices : dev[d] = Leaves(ended)
  BY DEF DoneInv, DoneTasks, DoneAt

(* A command that does not end the job is not taken, nor executed, by a    *)
(* sub-device in the state in which the job is to leave it; one that does  *)
(* leads it there.                                                         *)
LEMMA LeavesIs ==
  ASSUME NEW name \in Lasting, NEW k, NEW c \in Commands, NEW D, D # {}, StageOf(name, k, c, D),
         NEW s, NEW t,
         c = "Scan" => s = "READY", c = "EndScan" => s = "SCANNING"
  PROVE  /\ Begins(s, c, t) /\ c # LastCommand(name) => s # Leaves(name)
         /\ Leads(s, c, t) /\ c # LastCommand(name) => s # Leaves(name)
         /\ Leads(s, c, t) /\ c = LastCommand(name) => t = Leaves(name)
<1>0. name # "ValidateConfigureScan" /\ name # "GoToFault" /\ name # "Abort"
  BY DEF Lasting
<1>1. CASE c \in {"ValidateConfigureScan", "GoToFault", "Lambda"}
  BY <1>0, <1>1 DEF StageOf
<1>2. CASE c = "ConfigureBeam"
  BY <1>2 DEF StageOf, LastCommand, Leaves, Begins, Leads
<1>3. CASE c = "ConfigureScan"
  BY <1>3 DEF StageOf, LastCommand, Leaves, Begins, Leads
<1>4. CASE c = "DeconfigureScan"
  BY <1>4 DEF StageOf, LastCommand, Leaves, Begins, Leads
<1>5. CASE c = "DeconfigureBeam"
  BY <1>5 DEF StageOf, LastCommand, Leaves, Begins, Leads
<1>6. CASE c = "Scan"
  BY <1>6 DEF StageOf, LastCommand, Leaves, Begins, Leads
<1>7. CASE c = "EndScan"
  BY <1>7 DEF StageOf, LastCommand, Leaves, Begins, Leads
<1>8. CASE c = "Abort"
  <2>1. name = "ObsReset"
    BY <1>0, <1>8 DEF StageOf
  <2> QED BY <1>8, <2>1 DEF LastCommand, Leaves, Begins, Leads, Abortable
<1>9. CASE c = "ObsReset"
  BY <1>9 DEF StageOf, LastCommand, Leaves, Begins, Leads
<1> QED BY <1>1, <1>2, <1>3, <1>4, <1>5, <1>6, <1>7, <1>8, <1>9 DEF Commands

LEMMA DoneDevice ==
  ASSUME BaseInv, SendInv, OrderInv, DoneInv, NEW e \in Devices, Sent(e) \/ Served(e)
  PROVE  DoneInv'
<1>1. /\ queue # <<>> /\ Job = queue[1] /\ 1 \in 1 .. Len(queue)
      /\ e \in Plan(Job.name)[Begun(Job)].devices /\ command \in Commands
      /\ StageOf(Job.name, Begun(Job), command, Plan(Job.name)[Begun(Job)].devices)
      /\ command = "ValidateConfigureScan" => Validation(Job) /\ dev' = dev
      /\ command # "ValidateConfigureScan" =>
           /\ ~Validation(Job) /\ ended = "none"
           /\ \A i \in 1 .. Len(queue) : i # 1 => Validation(queue[i])
           /\ \A i \in 1 .. Len(tasks) : tasks[i].name # "ObsReset"
      /\ \A d \in Devices : d # e => /\ dev'[d] = dev[d]
                                     /\ d \in todo' \cup awaited' <=> d \in todo \cup awaited
      /\ UNCHANGED <<tasks, queue, ended, command>>
  BY AtDevice
<1>2. "ValidateConfigureScan" \notin Lasting /\ "none" \notin Lasting
  BY DEF Lasting
<1>3. CASE command = "ValidateConfigureScan"
  <2>1. DoneTasks'
    BY <1>1, <1>3, DoneIs DEF DoneTasks, ComesTo
  <2>2. ASSUME NEW i \in 1 .. Len(queue) PROVE DoneAt(i)'
    <3>1. CASE i = 1
      BY <1>1, <1>2, <1>3, <3>1 DEF DoneAt, Validation
    <3>2. CASE i # 1
      <4>1. \A d \in Devices : AtHand(i, d)' <=> AtHand(i, d)
        BY <1>1, <3>2 DEF AtHand, ComesTo
      <4> QED BY <1>1, <1>3, <2>2, <4>1, DoneIs DEF DoneAt
    <3> QED BY <3>1, <3>2
  <2>3. ended' \in Lasting => \A d \in Devices : dev'[d] = Leaves(ended')
    BY <1>1, <1>3, DoneIs
  <2> QED BY <1>1, <2>1, <2>2, <2>3 DEF DoneTasks, DoneAt, DoneInv
<1>4. CASE command # "ValidateConfigureScan"
  <2>1. \A i \in 1 .. Len(tasks') : tasks'[i].name # "ObsReset"
    BY <1>1, <1>4
  <2>2. ended' \notin Lasting
    BY <1>1, <1>2, <1>4
  <2>3. ASSUME NEW i \in 1 .. Len(queue), i # 1 PROVE queue'[i].name \notin Lasting
    BY <1>1, <1>2, <1>4, <2>3 DEF Validation
  <2>4. ASSUME Job.name \in Lasting, NEW d \in Devices
        PROVE  dev'[d] = Leaves(Job.name) \/ AtHand(1, d)'
    <3>1. dev[d] = Leaves(Job.name) \/ ComesTo(queue[1], d) \/ IsAt(Job.name, d)
      BY <1>1, <2>4, DoneIs DEF DoneAt, AtHand
    <3>2. CASE ComesTo(queue[1], d)
      BY <1>1, <3>2 DEF AtHand, ComesTo
    <3>3. CASE d # e
      BY <1>1, <3>1, <3>2, <3>3 DEF AtHand, IsAt
    <3>4. CASE d = e /\ ~ComesTo(queue[1], d)
      <4>1. CASE Sent(e)
        <5>1. Begins(dev[e], command, dev'[e]) /\ e \in awaited'
          BY <4>1 DEF Sent
        <5>2. /\ command = "Scan" => dev[e] = "READY"
              /\ command = "EndScan" => dev[e] = "SCANNING"
          BY <5>1 DEF Begins
        <5>3. command # LastCommand(Job.name) => dev[e] # Leaves(Job.name)
          BY <1>1, <2>4, <5>1, <5>2, LeavesIs
        <5> QED BY <1>1, <3>1, <3>4, <5>1, <5>3 DEF AtHand, IsAt
      <4>2. CASE Served(e)
        <5>1. Leads(dev[e], command, dev'[e]) /\ e \in awaited
          BY <4>2 DEF Served
        <5>2. /\ command = "Scan" => dev[e] = "READY"
              /\ command = "EndScan" => dev[e] = "SCANNING"
          BY <5>1 DEF SendInv
        <5>3. /\ command # LastCommand(Job.name) => dev[e] # Leaves(Job.name)
              /\ command = LastCommand(Job.name) => dev'[e] = Leaves(Job.name)
          <6> DEFINE D == Plan(Job.name)[Begun(Job)].devices
          <6>1. /\ D # {} /\ StageOf(Job.name, Begun(Job), command, D) /\ Job.name \in Lasting
                /\ command \in Commands
            BY <1>1, <2>4
          <6> HIDE DEF D
          <6>2. ASSUME command # LastCommand(Job.name) PROVE dev[e] # Leaves(Job.name)
            BY <5>1, <5>2, <6>1, <6>2, LeavesIs
          <6>3. ASSUME command = LastCommand(Job.name) PROVE dev'[e] = Leaves(Job.name)
            BY <5>1, <5>2, <6>1, <6>3, LeavesIs
          <6> QED BY <6>2, <6>3
        <5> QED BY <1>1, <3>1, <3>4, <5>3 DEF IsAt
      <4> QED BY <4>1, <4>2
    <3> QED BY <3>2, <3>3, <3>4
  <2> QED BY <1>1, <2>1, <2>2, <2>3, <2>4 DEF DoneInv
<1> QED BY <1>3, <1>4

LEMMA DoneStep ==
  ASSUME BaseInv, BaseInv', SendInv, OrderInv, DoneInv, CleanNext \/ UNCHANGED vars
  PROVE  DoneInv'
<1> USE DEF BaseInv
<1>1. "ValidateConfigureScan" \notin Lasting /\ "none" \notin Lasting
  BY DEF Lasting
<1>2. CASE Calling \/ UNCHANGED vars
  <2>1. UNCHANGED <<queue, ended, command, todo, awaited, dev>>
    BY <1>2 DEF Calling, ConfigureInvoked, DeconfigureScan, Scan, EndScan, Abort, ObsReset, Call, vars,
                jobVars, devVars
  <2>2. \/ UNCHANGED tasks
        \/ \E c \in BeamCommands : tasks' = Append(tasks, JobOf(c))
    BY <1>2 DEF Calling, ConfigureInvoked, DeconfigureScan, Scan, EndScan, Abort, ObsReset, Call, vars,
                jobVars, BeamCommands
  <2>3. DoneTasks'
    <3>1. CASE UNCHANGED tasks
      BY <2>1, <3>1, DoneIs DEF DoneTasks, ComesTo
    <3>2. ASSUME NEW c \in BeamCommands, tasks' = Append(tasks, JobOf(c)) PROVE DoneTasks'
      <4>1. tasks \in Seq(JobType) /\ JobOf(c) \in JobType /\ JobOf(c).name = c
        BY JobOfIs DEF TypeOK, JobNames
      <4>2. ASSUME NEW i \in 1 .. Len(tasks'), tasks'[i].name = "ObsReset", NEW d \in Devices
            PROVE  dev[d] = "EMPTY" \/ ComesTo(tasks'[i], d)
        <5>1. CASE i \in 1 .. Len(tasks) /\ tasks'[i] = tasks[i]
          BY <4>2, <5>1, DoneIs DEF DoneTasks
        <5>2. CASE tasks'[i] = JobOf(c)
          <6>1. c = "ObsReset"
            BY <4>1, <4>2, <5>2
          <6> QED BY <5>2, <6>1, ResetComes
        <5> QED BY <3>2, <4>1, <5>1, <5>2, AppendIs
      <4> QED BY <2>1, <4>2 DEF DoneTasks, ComesTo
    <3> QED BY <2>2, <3>1, <3>2
  <2>4. \A i \in 1 .. Len(queue) : DoneAt(i)'
    BY <2>1, DoneIs DEF DoneAt, AtHand, ComesTo, IsAt
  <2> QED BY <2>1, <2>3, <2>4, DoneIs DEF DoneTasks, DoneAt, DoneInv
<1>3. CASE ConfigureScan \/ TakeTask
  <2>1. PICK j \in JobType :
          /\ queue' = Append(queue, j) /\ UNCHANGED <<ended, command, todo, awaited, dev>>
          /\ j.name \in Lasting => \A d \in Devices : dev[d] = Leaves(j.name) \/ ComesTo(j, d)
    <3>1. CASE ConfigureScan
      <4>1. LET j == JobOf("ValidateConfigureScan") IN j \in JobType /\ j.name = "ValidateConfigureScan"
        BY JobOfIs DEF JobNames
      <4> QED BY <1>1, <3>1, <4>1 DEF ConfigureScan, devVars
    <3>2. CASE TakeTask
      <4>1. /\ queue' = Append(queue, tasks[1]) /\ UNCHANGED <<ended, command, todo, awaited, dev>>
            /\ tasks[1] \in JobType /\ 1 \in 1 .. Len(tasks)
        BY <3>2, HeadTailProperties, EmptySeq DEF TakeTask, devVars, TypeOK
      <4>2. ASSUME tasks[1].name \in Lasting, NEW d \in Devices
            PROVE  dev[d] = Leaves(tasks[1].name) \/ ComesTo(tasks[1], d)
        <5>1. CASE tasks[1].name = "ObsReset"
          <6>1. dev[d] = "EMPTY" \/ ComesTo(tasks[1], d)
            BY <4>1, <5>1 DEF DoneInv
          <6> QED BY <5>1, <6>1 DEF Leaves
        <5>2. CASE tasks[1].name # "ObsReset"
          <6>1. Follows(tasks[1]) /\ Begun(tasks[1]) = 0
            BY <4>1 DEF JobInv
          <6> QED BY <4>1, <4>2, <5>2, <6>1, FreshComes DEF Lasting
        <5> QED BY <5>1, <5>2
      <4> QED BY <4>1, <4>2
    <3> QED BY <1>3, <3>1, <3>2
  <2>2. DoneTasks'
    <3>1. CASE ConfigureScan
      <4>1. UNCHANGED tasks
        BY <3>1 DEF ConfigureScan
      <4> QED BY <2>1, <4>1, DoneIs DEF DoneTasks, ComesTo
    <3>2. CASE TakeTask
      <4>1. \A i \in 1 .. Len(tasks') : i + 1 \in 1 .. Len(tasks) /\ tasks'[i] = tasks[i + 1]
        <5>1. tasks \in Seq(JobType) /\ tasks # <<>> /\ tasks' = Tail(tasks)
          BY <3>2 DEF TypeOK, TakeTask
        <5>2. /\ Len(tasks) \in Nat /\ Len(tasks') = Len(tasks) - 1
              /\ \A i \in 1 .. Len(tasks') : tasks'[i] = tasks[i + 1]
          BY <5>1, HeadTailProperties
        <5> QED BY <5>2
      <4>2. \A i \in 1 .. Len(tasks') : tasks'[i].name = "ObsReset" =>
              \A d \in Devices : dev[d] = "EMPTY" \/ ComesTo(tasks'[i], d)
        BY <4>1, DoneIs DEF DoneTasks
      <4> QED BY <2>1, <4>2 DEF DoneTasks, ComesTo
    <3> QED BY <1>3, <3>1, <3>2
  <2>3. ASSUME NEW i \in 1 .. Len(queue'), queue'[i].name \in Lasting, NEW d \in Devices
        PROVE  dev'[d] = Leaves(queue'[i].name) \/ AtHand(i, d)'
    <3>1. \/ i \in 1 .. Len(queue) /\ queue'[i] = queue[i]
          \/ queue'[i] = j
      BY <2>1, AppendIs DEF TypeOK
    <3>2. CASE i \in 1 .. Len(queue) /\ queue'[i] = queue[i]
      <4>1. dev[d] = Leaves(queue[i].name) \/ AtHand(i, d)
        BY <2>3, <3>2 DEF DoneInv
      <4> QED BY <2>1, <3>2, <4>1 DEF AtHand, ComesTo, IsAt
    <3>3. CASE queue'[i] = j
      BY <2>1, <2>3, <3>3 DEF AtHand, ComesTo
    <3> QED BY <3>1, <3>2, <3>3
  <2>4. ended' \in Lasting => \A d \in Devices : dev'[d] = Leaves(ended')
    BY <2>1 DEF DoneInv
  <2> QED BY <2>2, <2>3, <2>4 DEF DoneTasks, DoneInv
<1>4. CASE BeginStep
  <2>1. UNCHANGED <<tasks, ended, dev>>
    BY <1>4 DEF BeginStep, devVars
  <2>2. Len(queue') = Len(queue)
    BY <1>4, BeginStepIs
  <2>3. ASSUME NEW i \in 1 .. Len(queue'), queue'[i].name \in Lasting, NEW d \in Devices
        PROVE  dev'[d] = Leaves(queue'[i].name) \/ AtHand(i, d)'
    <3>1. i \in 1 .. Len(queue) /\ queue'[i].name = queue[i].name
      BY <1>4, <2>2, BeginStepIs, OnwardIs
    <3>2. dev[d] = Leaves(queue[i].name) \/ AtHand(i, d)
      BY <2>3, <3>1 DEF DoneInv
    <3>3. AtHand(i, d) => AtHand(i, d)'
      BY <1>4, <3>1, HandBegun
    <3> QED BY <2>1, <3>1, <3>2, <3>3
  <2>4. DoneTasks'
    BY <2>1, DoneIs DEF DoneTasks, ComesTo
  <2>5. ended' \in Lasting => \A d \in Devices : dev'[d] = Leaves(ended')
    BY <2>1 DEF DoneInv
  <2> QED BY <2>3, <2>4, <2>5 DEF DoneTasks, DoneInv
<1>5. CASE JobEnds
  <2>1. /\ queue # <<>> /\ queue' = Tail(queue) /\ UNCHANGED <<tasks, dev>>
        /\ todo = {} /\ awaited = {} /\ Job.steps = <<>>
        /\ ended' = ended \/ ended' = Job.name
    BY <1>5 DEF JobEnds, StepOver, devVars
  <2>2. ASSUME NEW i \in 1 .. Len(queue'), queue'[i].name \in Lasting, NEW d \in Devices
        PROVE  dev'[d] = Leaves(queue'[i].name) \/ AtHand(i, d)'
    <3>1. /\ i + 1 \in 1 .. Len(queue) /\ queue'[i] = queue[i + 1]
          /\ AtHand(i + 1, d) => AtHand(i, d)'
      BY <2>1, HandGone
    <3>2. dev[d] = Leaves(queue[i + 1].name) \/ AtHand(i + 1, d)
      BY <2>2, <3>1 DEF DoneInv
    <3> QED BY <2>1, <3>1, <3>2
  <2>3. ASSUME ended' \in Lasting, NEW d \in Devices PROVE dev'[d] = Leaves(ended')
    <3>1. CASE ended' = ended
      BY <2>1, <2>3, <3>1 DEF DoneInv
    <3>2. CASE ended' = Job.name
      <4>1. Job = queue[1] /\ 1 \in 1 .. Len(queue)
        BY <2>1, QueueIs
      <4>2. dev[d] = Leaves(Job.name) \/ AtHand(1, d)
        BY <2>3, <3>2, <4>1 DEF DoneInv
      <4>3. Len(Job.steps) = 0
        BY <2>1
      <4>4. ~AtHand(1, d)
        BY <2>1, <4>1, <4>3 DEF AtHand, ComesTo, IsAt
      <4> QED BY <2>1, <3>2, <4>2, <4>4
    <3> QED BY <2>1, <3>1, <3>2
  <2>4. DoneTasks'
    BY <2>1, DoneIs DEF DoneTasks, ComesTo
  <2> QED BY <2>2, <2>3, <2>4 DEF DoneTasks, DoneInv
<1>6. CASE Callback
  <2>1. /\ ended' = "none" /\ UNCHANGED <<queue, command, todo, awaited, dev>>
        /\ UNCHANGED tasks \/ tasks' = <<>>
    BY <1>6 DEF Callback, devVars
  <2>2. DoneTasks'
    <3>1. tasks' = <<>> => Len(tasks') = 0
      BY EmptySeq
    <3>2. tasks' = <<>> => DoneTasks'
      BY <3>1 DEF DoneTasks
    <3>3. UNCHANGED tasks => DoneTasks'
      BY <2>1, DoneIs DEF DoneTasks, ComesTo
    <3> QED BY <2>1, <3>2, <3>3
  <2>3. \A i \in 1 .. Len(queue) : DoneAt(i)'
    BY <2>1, DoneIs DEF DoneAt, AtHand, ComesTo, IsAt
  <2> QED BY <1>1, <2>1, <2>2, <2>3 DEF DoneTasks, DoneAt, DoneInv
<1>7. CASE \E e \in Devices : Sent(e) \/ Served(e)
  BY <1>7, DoneDevice
<1> QED BY <1>2, <1>3, <1>4, <1>5, <1>6, <1>7 DEF CleanNext, Working

-----------------------------------------------------------------------------
(* The ring buffers of SMRB and their clients. *)
LEMMA ConfigurePlan ==
  /\ Plan("ConfigureScan")[1].devices = {"smrb"} /\ Plan("ConfigureScan")[1].command = "ConfigureBeam"
  /\ Plan("ConfigureScan")[2].devices = Clients /\ Plan("ConfigureScan")[2].command = "ConfigureBeam"
  /\ "smrb" \notin Clients /\ "smrb" \in Devices /\ Clients \subseteq Devices
  BY Plans, StepIs DEF Clients, Devices

LEMMA BufferStep ==
  ASSUME BaseInv, BaseInv', SendInv, OrderInv, BufferInv, CleanNext \/ UNCHANGED vars
  PROVE  BufferInv'
<1> USE DEF BaseInv
<1>1. ASSUME UNCHANGED <<queue, todo, awaited, dev>> PROVE BufferInv'
  BY <1>1 DEF BufferInv, Job, Begun
<1>2. CASE Calling \/ Callback \/ UNCHANGED vars
  BY <1>1, <1>2 DEF Calling, ConfigureInvoked, DeconfigureScan, Scan, EndScan, Abort, ObsReset, Call,
                    Callback, devVars, vars, jobVars
<1>3. CASE ConfigureScan \/ TakeTask
  <2>1. UNCHANGED <<todo, awaited, dev>>
    BY <1>3 DEF ConfigureScan, TakeTask, devVars
  <2>2. PICK j \in JobType : queue' = Append(queue, j) /\ Begun(j) = 0
    <3>1. CASE ConfigureScan
      BY <3>1, JobOfIs DEF ConfigureScan, JobNames
    <3>2. CASE TakeTask
      <4>1. queue' = Append(queue, tasks[1]) /\ tasks[1] \in JobType /\ 1 \in 1 .. Len(tasks)
        BY <3>2, HeadTailProperties, EmptySeq DEF TakeTask, TypeOK
      <4> QED BY <4>1 DEF JobInv
    <3> QED BY <1>3, <3>1, <3>2
  <2>3. CASE queue = <<>>
    <3>1. Job' = j
      BY <2>2, <2>3 DEF Job
    <3> QED BY <2>2, <3>1 DEF BufferInv, Begun
  <2>4. CASE queue # <<>>
    <3>1. queue \in Seq(JobType) /\ queue' \in Seq(JobType)
      BY DEF TypeOK
    <3>2. Job = queue[1] /\ 1 \in 1 .. Len(queue)
      BY <2>4, QueueIs
    <3>3. queue' # <<>> /\ queue'[1] = queue[1]
      BY <2>2, <3>1, <3>2, AppendIs
    <3>4. Job' = Job
      BY <3>1, <3>2, <3>3 DEF Job
    <3> QED BY <2>1, <2>4, <3>4 DEF BufferInv, Begun
  <2> QED BY <2>3, <2>4
<1>4. CASE BeginStep
  <2>1. /\ queue # <<>> /\ Job \in JobType /\ Follows(Job) /\ Job.steps # <<>>
        /\ Job' = Onward(Job) /\ todo = {} /\ awaited = {} /\ todo' = Head(Job.steps).devices
    BY <1>4, BeginStepIs
  <2>2. /\ Onward(Job).name = Job.name /\ Begun(Onward(Job)) = Begun(Job) + 1 /\ Begun(Job) \in Int
        /\ Job.name \notin {"Abort", "ObsReset"}
              => todo' = Plan(Job.name)[Begun(Onward(Job))].devices
    BY <2>1, OnwardIs, JobTyped
  <2>3. UNCHANGED dev
    BY <1>4 DEF BeginStep, devVars
  <2>4. Begun(Onward(Job)) = 2 => Begun(Job) = 1
    BY ONLY <2>2
  <2>5. ASSUME Job'.name = "ConfigureScan", Begun(Job') = 1 PROVE "smrb" \in todo'
    BY <2>1, <2>2, <2>5, ConfigurePlan
  <2>6. ASSUME Job'.name = "ConfigureScan", Begun(Job') = 2 PROVE dev'["smrb"] = "IDLE"
    BY <2>1, <2>2, <2>3, <2>4, <2>6 DEF BufferInv
  <2> QED BY <2>5, <2>6 DEF BufferInv, Begun
<1>5. CASE JobEnds
  <2>1. queue # <<>> /\ queue' = Tail(queue)
    BY <1>5 DEF JobEnds, StepOver
  <2>2. ASSUME queue' # <<>> PROVE Begun(Job') = 0
    <3>1. queue' \in Seq(JobType)
      BY DEF TypeOK
    <3>2. Job' = queue'[1] /\ 1 \in 1 .. Len(queue')
      BY <2>2, <3>1, HeadTailProperties, EmptySeq DEF Job
    <3>3. 1 + 1 \in 1 .. Len(queue) /\ 1 + 1 > 1 /\ queue'[1] = queue[1 + 1]
      BY <2>1, <3>2, QueueIs
    <3> QED BY <3>2, <3>3 DEF JobInv
  <2> QED BY <2>2 DEF BufferInv, Begun
<1>6. ASSUME NEW e \in Devices, Sent(e) \/ Served(e) PROVE BufferInv'
  <2>1. /\ queue # <<>> /\ UNCHANGED queue /\ Job \in JobType
        /\ e \in Plan(Job.name)[Begun(Job)].devices
        /\ StageOf(Job.name, Begun(Job), command, Plan(Job.name)[Begun(Job)].devices)
        /\ \A d \in Devices : d # e => /\ dev'[d] = dev[d]
                                       /\ d \in todo' \cup awaited' <=> d \in todo \cup awaited
    BY <1>6, AtDevice
  <2>2. UNCHANGED Job
    BY <2>1 DEF Job
  <2>3. CASE e # "smrb"
    <3>1. /\ dev'["smrb"] = dev["smrb"]
          /\ "smrb" \in todo' \cup awaited' <=> "smrb" \in todo \cup awaited
      BY <2>1, <2>3, ConfigurePlan
    <3> QED BY <2>1, <2>2, <3>1 DEF BufferInv, Begun
  <2>4. CASE e = "smrb"
    <3>1. ASSUME Job.name = "ConfigureScan", Begun(Job) = 1
          PROVE  "smrb" \in todo' \cup awaited' \/ dev'["smrb"] = "IDLE"
      <4>1. command = "ConfigureBeam"
        BY <2>1, <3>1, ConfigurePlan DEF BaseInv, CurrentInv
      <4> QED BY <1>6, <2>4, <4>1 DEF Sent, Served, Leads
    <3>2. ~(Job.name = "ConfigureScan" /\ Begun(Job) = 2)
      BY <2>1, <2>4, ConfigurePlan
    <3> QED BY <2>1, <2>2, <3>1, <3>2 DEF BufferInv, Begun
  <2> QED BY <2>3, <2>4
<1> QED BY <1>2, <1>3, <1>4, <1>5, <1>6 DEF CleanNext, Working

LEMMA RingStep ==
  ASSUME BaseInv, SendInv, OrderInv, DoneInv, BufferInv, RingInv, CleanNext \/ UNCHANGED vars
  PROVE  RingInv'
<1> USE DEF BaseInv
<1>1. ASSUME UNCHANGED dev PROVE RingInv'
  BY <1>1 DEF RingInv, Using
<1>2. ASSUME NEW e \in Devices, Sent(e) PROVE RingInv'
  <2>1. Begins(dev[e], command, dev'[e]) /\ command \in Commands
    BY <1>2, AtDevice DEF Sent
  <2>2. \A d \in Devices : d # e => dev'[d] = dev[d]
    BY <1>2, AtDevice
  <2>3. Using(e)' => Using(e)
    BY <2>1 DEF Begins, Using, Abortable, Commands
  <2>4. dev'[e] \in {"EMPTY", "RESOURCING_EMPTY"} => dev[e] \in {"EMPTY", "RESOURCING_EMPTY"}
    BY <2>1 DEF Begins, Commands
  <2>5. \A d \in Clients : d \in Devices /\ (Using(d)' => Using(d))
    BY <2>2, <2>3, ConfigurePlan DEF Using
  <2>6. dev'["smrb"] \in {"EMPTY", "RESOURCING_EMPTY"} => dev["smrb"] \in {"EMPTY", "RESOURCING_EMPTY"}
    BY <2>2, <2>4, ConfigurePlan
  <2> QED BY <2>5, <2>6 DEF RingInv
<1>3. ASSUME NEW e \in Devices, Served(e) PROVE RingInv'
  <2>1. /\ Leads(dev[e], command, dev'[e]) /\ command \in Commands
        /\ queue # <<>> /\ Job = queue[1] /\ 1 \in 1 .. Len(queue) /\ Job \in JobType /\ Follows(Job)
        /\ e \in Plan(Job.name)[Begun(Job)].devices
        /\ StageOf(Job.name, Begun(Job), command, Plan(Job.name)[Begun(Job)].devices)
        /\ \A d \in Devices : d # e => dev'[d] = dev[d]
    BY <1>3, AtDevice DEF Served
  <2>2. CASE e # "smrb"
    <3>1. dev'["smrb"] = dev["smrb"]
      BY <2>1, <2>2, ConfigurePlan
    <3>2. Using(e)' => Using(e) \/ command = "ConfigureBeam"
      BY <2>1 DEF Leads, Using, Commands
    <3>3. CASE command = "ConfigureBeam"
      <4>1. Job.name = "ConfigureScan" /\ Begun(Job) = 2
        BY <2>1, <2>2, <3>3 DEF StageOf
      <4>2. dev["smrb"] = "IDLE"
        BY <2>1, <4>1 DEF BufferInv
      <4> QED BY <3>1, <4>2 DEF RingInv
    <3>4. CASE command # "ConfigureBeam"
      <4>1. \A d \in Clients : d \in Devices /\ (Using(d)' => Using(d))
        BY <2>1, <3>2, <3>4, ConfigurePlan DEF Using
      <4> QED BY <3>1, <4>1 DEF RingInv
    <3> QED BY <3>3, <3>4
  <2>3. CASE e = "smrb"
    <3>1. \A d \in Clients : d \in Devices /\ d # "smrb" /\ dev'[d] = dev[d]
      BY <2>1, <2>3, ConfigurePlan
    <3>2. CASE command \in {"DeconfigureBeam", "ObsReset"}
      <4>1. Job.name \in {"DeconfigureScan", "ObsReset"} /\ Begun(Job) = Len(Plan(Job.name))
            /\ Plan(Job.name)[Begun(Job)].devices = {"smrb"}
        <5>1. CASE command = "DeconfigureBeam"
          <6>1. Job.name = "DeconfigureScan" /\ Begun(Job) = 3
            BY <2>1, <2>3, <5>1, ConfigurePlan DEF StageOf
          <6> QED BY <6>1, Plans, StepIs
        <5>2. CASE command = "ObsReset"
          <6>1. Job.name = "ObsReset" /\ Begun(Job) = 7
            BY <2>1, <2>3, <5>2 DEF StageOf
          <6> QED BY <6>1, Plans, StepIs
        <5> QED BY <3>2, <5>1, <5>2
      <4>2. Len(Job.steps) = 0
        <5>1. /\ Begun(Job) = Len(Plan(Job.name)) - Len(Job.steps)
              /\ Len(Job.steps) \in Nat /\ Len(Plan(Job.name)) \in Nat
          BY <2>1, JobTyped DEF Begun
        <5>2. ASSUME NEW m \in Nat, NEW n \in Nat, m = m - n PROVE n = 0
          BY <5>2
        <5> QED BY <4>1, <5>1, <5>2
      <4>3. \A d \in Clients : ~AtHand(1, d)
        <5>1. todo \cup awaited \subseteq Plan(Job.name)[Begun(Job)].devices
          BY <1>3, AtStage DEF Served
        <5> QED BY <2>1, <3>1, <4>1, <4>2, <5>1 DEF AtHand, ComesTo, IsAt
      <4>4. \A d \in Clients : dev[d] = "EMPTY"
        BY <2>1, <3>1, <4>1, <4>3 DEF DoneInv, Lasting, Leaves
      <4> QED BY <3>1, <4>4 DEF RingInv, Using
    <3>3. CASE command \notin {"DeconfigureBeam", "ObsReset"}
      <4>1. dev'["smrb"] \in {"EMPTY", "RESOURCING_EMPTY"} => dev'["smrb"] = dev["smrb"]
        BY <2>1, <2>3, <3>3 DEF Leads, Commands
      <4> QED BY <3>1, <4>1 DEF RingInv, Using
    <3> QED BY <3>2, <3>3
  <2> QED BY <2>2, <2>3
<1>4. CASE Calling \/ ConfigureScan \/ BeginStep \/ JobEnds \/ TakeTask \/ Callback \/ UNCHANGED vars
  BY <1>1, <1>4 DEF Calling, ConfigureInvoked, DeconfigureScan, Scan, EndScan, Abort, ObsReset, Call,
                    ConfigureScan, BeginStep, JobEnds, TakeTask, Callback, devVars, vars, jobVars
<1> QED BY <1>2, <1>3, <1>4 DEF CleanNext, Working

-----------------------------------------------------------------------------
(* BEAM and its sub-devices agree when no job is at work. *)
MatchDev == \A d \in Devices : dev[d] = Match

LEMMA HopelessJobs ==
  ASSUME NEW name, Hopeless(name)
  PROVE  /\ name \in {"DeconfigureScan", "Scan", "EndScan"} /\ name \in BeamCommands
         /\ name # "ValidateConfigureScan" /\ name # "none"
  BY DEF Hopeless, BeamCommands

(* What the invariant says of the jobs is the same as long as BEAM keeps   *)
(* its state, or goes from IDLE to CONFIGURING_IDLE.                       *)
LEMMA AgreeCalled ==
  ASSUME BaseInv, BaseInv', AgreeInv, UNCHANGED <<queue, ended, todo, awaited, dev>>,
         \/ beam' = beam
         \/ beam = "IDLE" /\ beam' = "CONFIGURING_IDLE"
         \/ beam' \notin Matched
  PROVE  AgreeInv'
<1>1. CASE beam' \notin Matched
  BY <1>1 DEF AgreeInv
<1>2. CASE beam' \in Matched /\ beam' = beam
  <2>1. /\ AtWork' <=> AtWork
        /\ Match' = Match /\ beam \in Matched
        /\ \A i \in 1 .. Len(queue) : Hopeless(queue[i].name)' <=> Hopeless(queue[i].name)
        /\ Hopeless(ended)' <=> Hopeless(ended)
        /\ Unsent' <=> Unsent
    BY <1>2 DEF AtWork, Match, Hopeless, Unsent, Job, Begun
  <2> QED BY <2>1 DEF AgreeInv
<1>3. CASE beam = "IDLE" /\ beam' = "CONFIGURING_IDLE"
  <2>1. /\ AtWork' <=> AtWork
        /\ Match' = Match /\ beam \in Matched
        /\ \A i \in 1 .. Len(queue) : Hopeless(queue[i].name)' <=> Hopeless(queue[i].name)
        /\ Hopeless(ended)' <=> Hopeless(ended)
        /\ Unsent' <=> Unsent
    BY <1>3 DEF AtWork, Match, Matched, Hopeless, Unsent, Job, Begun
  <2> QED BY <2>1 DEF AgreeInv
<1> QED BY <1>1, <1>2, <1>3

(* What a callback makes of BEAM agrees with the sub-devices. *)
LEMMA AgreeCallback ==
  ASSUME BaseInv, beam # "EMPTY", OrderInv, DoneInv, AgreeInv, Callback, beam' \in Matched
  PROVE  UNCHANGED dev /\ MatchDev'
<1> USE DEF BaseInv
<1>1. ended \in BeamCommands /\ Held(ended) /\ UNCHANGED dev /\ beam' = Becomes(ended) /\ beam \in States
  BY HeldLast, CallbackIs DEF Callback, devVars, TypeOK
<1>2. beam \in Matched => ~Hopeless(ended)
  BY DEF AgreeInv
<1>3. ASSUME ended \in Lasting PROVE \A d \in Devices : dev[d] = Leaves(ended)
  BY <1>3 DEF DoneInv
<1>4. CASE ended = "ConfigureScan"
  <2>1. beam \in {"CONFIGURING_IDLE", "CONFIGURING_READY", "ABORTING"}
    BY <1>1, <1>4 DEF OrderInv, Pending, BeamCommands
  <2>2. beam' = "READY"
    BY <1>1, <1>4, <2>1, BecomesIs DEF Matched
  <2>3. \A d \in Devices : dev[d] = "READY"
    BY <1>3, <1>4 DEF Lasting, Leaves
  <2> QED BY <1>1, <2>2, <2>3 DEF MatchDev, Match
<1>5. CASE ended = "DeconfigureScan"
  <2>1. beam' = IF beam = "READY" THEN "IDLE" ELSE beam
    BY <1>1, <1>5, BecomesIs
  <2>2. beam' \in {"IDLE", "CONFIGURING_IDLE"}
    BY <1>2, <1>5, <2>1 DEF Hopeless, Matched
  <2>3. \A d \in Devices : dev[d] = "EMPTY"
    BY <1>3, <1>5 DEF Lasting, Leaves
  <2> QED BY <1>1, <2>2, <2>3 DEF MatchDev, Match
<1>6. CASE ended = "Scan"
  <2>1. beam' = IF beam = "READY" THEN "SCANNING" ELSE beam
    BY <1>1, <1>6, BecomesIs
  <2>2. beam' = "SCANNING"
    BY <1>2, <1>6, <2>1 DEF Hopeless, Matched
  <2>3. \A d \in Devices : dev[d] = "SCANNING"
    BY <1>3, <1>6 DEF Lasting, Leaves
  <2> QED BY <1>1, <2>2, <2>3 DEF MatchDev, Match
<1>7. CASE ended = "EndScan"
  <2>1. beam' = IF beam = "SCANNING" THEN "READY" ELSE beam
    BY <1>1, <1>7, BecomesIs
  <2>2. beam' = "READY"
    BY <1>2, <1>7, <2>1 DEF Hopeless, Matched
  <2>3. \A d \in Devices : dev[d] = "READY"
    BY <1>3, <1>7 DEF Lasting, Leaves
  <2> QED BY <1>1, <2>2, <2>3 DEF MatchDev, Match
<1>8. CASE ended = "Abort"
  <2>1. beam = "ABORTING"
    BY <1>1, <1>8 DEF OrderInv, Pending, BeamCommands
  <2>2. beam' = "ABORTED"
    BY <1>1, <1>8, <2>1, BecomesIs
  <2> QED BY <2>2 DEF Matched
<1>9. CASE ended = "ObsReset"
  <2>1. beam \in {"RESETTING", "ABORTING"}
    BY <1>1, <1>9 DEF OrderInv, Pending, BeamCommands
  <2>2. beam' = "IDLE"
    BY <1>1, <1>9, <2>1, BecomesIs DEF Matched
  <2>3. \A d \in Devices : dev[d] = "EMPTY"
    BY <1>3, <1>9 DEF Lasting, Leaves
  <2> QED BY <1>1, <2>2, <2>3 DEF MatchDev, Match
<1>10. CASE ended = "GoToFault"
  BY <1>1, <1>10 DEF OrderInv, Pending, BeamCommands
<1> QED BY <1>1, <1>4, <1>5, <1>6, <1>7, <1>8, <1>9, <1>10 DEF BeamCommands

(* A job that is hopeless cannot go on past its first sub-device. *)
LEMMA HopelessStuck ==
  ASSUME BaseInv, SendInv, OrderInv, MatchDev, Unsent, Hopeless(Job.name), beam \in Matched,
         NEW e \in Devices, Sent(e) \/ Served(e)
  PROVE  FALSE
<1>1. /\ StageOf(Job.name, Begun(Job), command, Plan(Job.name)[Begun(Job)].devices)
      /\ e \in Plan(Job.name)[Begun(Job)].devices /\ command \in Commands
      /\ Begun(Job) \in 1 .. Len(Plan(Job.name))
  BY AtDevice
<1>2. Sent(e)
  BY DEF Unsent, Served
<1>3. Begins(dev[e], command, dev'[e]) /\ dev[e] = Match
  BY <1>2 DEF Sent, MatchDev
<1>4. Begun(Job) = 1 \/ (Begun(Job) = 2 /\ Job.name = "Scan")
  BY <1>1 DEF Unsent
<1>5. CASE Job.name = "DeconfigureScan"
  <2>1. beam = "SCANNING" /\ Begun(Job) = 1
    BY <1>4, <1>5 DEF Hopeless
  <2>2. command = "DeconfigureScan"
    BY <1>1, <1>5, <2>1 DEF StageOf, Commands
  <2> QED BY <1>3, <2>1, <2>2 DEF Begins, Match
<1>6. CASE Job.name = "Scan"
  <2>1. beam \in {"IDLE", "CONFIGURING_IDLE"}
    BY <1>6 DEF Hopeless
  <2>2. command = "Scan"
    BY <1>1, <1>6 DEF StageOf, Commands
  <2> QED BY <1>3, <2>1, <2>2 DEF Begins, Match
<1>7. CASE Job.name = "EndScan"
  <2>1. beam \in {"IDLE", "CONFIGURING_IDLE"}
    BY <1>7 DEF Hopeless
  <2>2. command = "EndScan"
    BY <1>1, <1>7 DEF StageOf, Commands
  <2> QED BY <1>3, <2>1, <2>2 DEF Begins, Match
<1> QED BY <1>5, <1>6, <1>7, HopelessJobs

(* Only the job of a scan goes past its first step, which is for no        *)
(* sub-device, before it has sent a command.                               *)
LEMMA UnsentOver ==
  ASSUME BaseInv, Unsent, queue # <<>>, Hopeless(Job.name), todo = {}
  PROVE  Begun(Job) = 0 \/ (Begun(Job) = 1 /\ Job.name = "Scan")
<1>1. /\ Plan("DeconfigureScan")[1].devices = Devices /\ Plan("EndScan")[1].devices = {"recv"}
      /\ Plan("Scan")[2].devices = Devices /\ Devices # {}
  BY Plans, StepIs DEF Devices
<1>2. Begun(Job) > 0 => Plan(Job.name)[Begun(Job)].devices = {}
  BY DEF Unsent
<1>3. Begun(Job) \in {0, 1} \/ (Begun(Job) = 2 /\ Job.name = "Scan")
  BY DEF Unsent
<1>4. Job.name \in {"DeconfigureScan", "Scan", "EndScan"}
  BY HopelessJobs
<1> QED BY <1>1, <1>2, <1>3, <1>4

LEMMA UnsentBegins ==
  ASSUME BaseInv, Unsent, Hopeless(Job.name), BeginStep
  PROVE  Unsent'
<1>1. /\ queue # <<>> /\ Job \in JobType /\ Follows(Job) /\ Job.steps # <<>>
      /\ Job' = Onward(Job) /\ todo = {} /\ awaited' = {} /\ todo' = Head(Job.steps).devices
  BY BeginStepIs
<1>2. /\ Onward(Job).name = Job.name /\ Begun(Onward(Job)) = Begun(Job) + 1
      /\ Job.name \notin {"Abort", "ObsReset"}
            => todo' = Plan(Job.name)[Begun(Onward(Job))].devices
  BY <1>1, OnwardIs
<1>3. Begun(Job) = 0 \/ (Begun(Job) = 1 /\ Job.name = "Scan")
  BY <1>1, UnsentOver
<1>4. Job.name \notin {"Abort", "ObsReset"}
  BY HopelessJobs
<1>5. Begun(Job') = 1 \/ (Begun(Job') = 2 /\ Job'.name = "Scan")
  BY <1>1, <1>2, <1>3
<1> QED BY <1>1, <1>2, <1>4, <1>5 DEF Unsent, Begun

LEMMA UnsentEnds ==
  ASSUME BaseInv, Unsent, Hopeless(Job.name), JobEnds
  PROVE  FALSE
<1>1. queue # <<>> /\ todo = {} /\ Job.steps = <<>>
  BY DEF JobEnds, StepOver
<1>2. Begun(Job) = 0 \/ (Begun(Job) = 1 /\ Job.name = "Scan")
  BY <1>1, UnsentOver
<1>3. Job \in JobType
  BY <1>1, QueueIs DEF BaseInv
<1>4. Len(Job.steps) = 0
  BY <1>1
<1>5. Len(Plan(Job.name)) \in Nat
  BY <1>3, JobTyped
<1>6. Begun(Job) = Len(Plan(Job.name))
  BY <1>4, <1>5 DEF Begun
<1>7. Job.name \in {"DeconfigureScan", "Scan", "EndScan"}
  BY HopelessJobs
<1> QED BY <1>2, <1>6, <1>7, Plans

LEMMA AgreeStep ==
  ASSUME BaseInv, BaseInv', beam # "EMPTY", SendInv, OrderInv, DoneInv, AgreeInv,
         CleanNext \/ UNCHANGED vars
  PROVE  AgreeInv'
<1> USE DEF BaseInv
<1>1. CASE Calling
  <2>1. UNCHANGED <<queue, ended, todo, awaited, dev>>
    BY <1>1 DEF Calling, ConfigureInvoked, DeconfigureScan, Scan, EndScan, Abort, ObsReset, Call,
                devVars
  <2>2. CASE ConfigureInvoked
    <3>1. \/ beam' = beam
          \/ beam = "IDLE" /\ beam' = "CONFIGURING_IDLE"
          \/ beam' \notin Matched
      <4>1. CASE Allowed(beam, "configure_invoked")
        <5>1. /\ beam \in {"IDLE", "READY"} /\ beam' = After(beam, "configure_invoked")
          BY <2>2, <4>1, Calls DEF ConfigureInvoked
        <5>2. CASE beam = "IDLE"
          BY <5>1, <5>2, Calls
        <5>3. CASE beam = "READY"
          BY <5>1, <5>3, Calls DEF Matched
        <5> QED BY <5>1, <5>2, <5>3
      <4>2. CASE ~Allowed(beam, "configure_invoked")
        BY <2>2, <4>2 DEF ConfigureInvoked
      <4> QED BY <4>1, <4>2
    <3> QED BY <2>1, <3>1, AgreeCalled
  <2>3. CASE DeconfigureScan \/ Scan \/ EndScan
    BY <2>1, <2>3, AgreeCalled DEF DeconfigureScan, Scan, EndScan
  <2>4. CASE Abort \/ ObsReset
    <3>1. beam' \notin Matched
      BY <2>4, Calls DEF Abort, ObsReset, Matched
    <3> QED BY <2>1, <3>1, AgreeCalled
  <2> QED BY <1>1, <2>2, <2>3, <2>4 DEF Calling
<1>2. CASE UNCHANGED vars
  BY <1>2, AgreeCalled DEF vars, jobVars, devVars
<1>3. CASE Callback
  <2>1. /\ ~AtWork' /\ \A n \in BeamCommands : ~Held(n)'
    BY <1>3, HeldLast
  <2>2. beam' \in Matched => UNCHANGED dev /\ MatchDev'
    BY <1>3, AgreeCallback
  <2>3. ~Hopeless(ended)'
    BY <1>3 DEF Callback, Hopeless
  <2>4. \A i \in 1 .. Len(queue') : queue'[i].name \notin BeamCommands
    BY <2>1 DEF Held, InQueue
  <2>5. \A i \in 1 .. Len(queue') : queue'[i].name \notin {"DeconfigureScan", "Scan", "EndScan"}
    BY <2>4 DEF BeamCommands
  <2>6. \A i \in 1 .. Len(queue') : ~(Hopeless(queue[i].name))'
    BY <2>5 DEF Hopeless
  <2> QED BY <2>1, <2>2, <2>3, <2>6 DEF AgreeInv, MatchDev
<1>4. ASSUME NEW e \in Devices, Sent(e) \/ Served(e) PROVE AgreeInv'
  <2>1. /\ queue # <<>> /\ Job = queue[1] /\ 1 \in 1 .. Len(queue)
        /\ command = "ValidateConfigureScan" => Validation(Job) /\ dev' = dev
        /\ command # "ValidateConfigureScan" =>
             /\ ~Validation(Job) /\ AtWork /\ ended = "none"
             /\ \A i \in 1 .. Len(queue) : i # 1 => Validation(queue[i])
        /\ UNCHANGED <<beam, queue, ended>>
    BY <1>4, AtDevice
  <2>2. /\ AtWork' <=> AtWork
        /\ Match' = Match
        /\ \A n : Hopeless(n)' <=> Hopeless(n)
    BY <2>1 DEF AtWork, Match, Hopeless
  <2>3. ASSUME beam \in Matched, Hopeless(Job.name) PROVE FALSE
    <3>1. MatchDev /\ Unsent
      BY <2>1, <2>3 DEF AgreeInv, MatchDev
    <3> QED BY <1>4, <2>3, <3>1, HopelessStuck
  <2>4. CASE command = "ValidateConfigureScan"
    BY <2>1, <2>2, <2>3, <2>4 DEF AgreeInv
  <2>5. CASE command # "ValidateConfigureScan"
    <3>1. ASSUME beam \in Matched, NEW i \in 1 .. Len(queue), Hopeless(queue[i].name) PROVE FALSE
      BY <2>1, <2>3, <2>5, <3>1, HopelessJobs DEF Validation
    <3> QED BY <2>1, <2>2, <2>5, <3>1 DEF AgreeInv
  <2> QED BY <2>4, <2>5
<1>5. CASE BeginStep
  <2>1. /\ queue # <<>> /\ Job = queue[1] /\ Job \in JobType /\ Follows(Job) /\ Job.steps # <<>>
        /\ 1 \in 1 .. Len(queue) /\ Len(queue') = Len(queue)
        /\ queue'[1] = Onward(Job) /\ \A i \in 1 .. Len(queue) : i # 1 => queue'[i] = queue[i]
    BY <1>5, BeginStepIs
  <2>2. UNCHANGED <<beam, ended, dev>>
    BY <1>5 DEF BeginStep, devVars
  <2>3. \A i \in 1 .. Len(queue) : queue'[i].name = queue[i].name
    BY <2>1, OnwardIs
  <2>4. /\ AtWork' <=> AtWork
        /\ Match' = Match
        /\ \A n : Hopeless(n)' <=> Hopeless(n)
    BY <2>1, <2>2, <2>3 DEF AtWork, Match, Hopeless
  <2>5. ASSUME beam \in Matched, Hopeless(Job.name) PROVE Unsent'
    BY <1>5, <2>1, <2>5, UnsentBegins DEF AgreeInv
  <2> QED BY <2>1, <2>2, <2>3, <2>4, <2>5 DEF AgreeInv
<1>6. CASE ConfigureScan \/ TakeTask
  <2>1. UNCHANGED <<beam, ended, todo, awaited, dev, command>>
    BY <1>6 DEF ConfigureScan, TakeTask, devVars
  <2>2. PICK j \in JobType : /\ queue' = Append(queue, j) /\ Begun(j) = 0
                             /\ j.name = "ValidateConfigureScan" \/ ~AtWork
                             /\ j.name = "ValidateConfigureScan" \/ AtWork'
                             /\ j.name = "ValidateConfigureScan" => (AtWork' <=> AtWork)
    <3>1. CASE ConfigureScan
      <4>1. LET j == JobOf("ValidateConfigureScan") IN
              j \in JobType /\ j.name = "ValidateConfigureScan" /\ Begun(j) = 0
        BY JobOfIs DEF JobNames
      <4>2. AtWork' <=> AtWork
        BY <3>1, HeldStays, AtWorkStays DEF Working
      <4> QED BY <3>1, <4>1, <4>2 DEF ConfigureScan
    <3>2. CASE TakeTask
      <4>1. queue' = Append(queue, tasks[1]) /\ tasks[1] \in JobType /\ 1 \in 1 .. Len(tasks) /\ ~AtWork
        BY <3>2, HeadTailProperties, EmptySeq DEF TakeTask, TypeOK
      <4>2. Begun(tasks[1]) = 0 /\ tasks[1].name # "ValidateConfigureScan"
        BY <4>1 DEF JobInv, Validation
      <4>3. Len(queue) + 1 \in 1 .. Len(queue') /\ queue'[Len(queue) + 1] = tasks[1]
        BY <4>1, AppendIs DEF TypeOK
      <4>4. AtWork'
        BY <4>2, <4>3 DEF AtWork
      <4> QED BY <4>1, <4>2, <4>4
    <3> QED BY <1>6, <3>1, <3>2
  <2>3. \A i \in 1 .. Len(queue') : \/ i \in 1 .. Len(queue) /\ queue'[i] = queue[i]
                                    \/ i = Len(queue) + 1 /\ queue'[i] = j
    BY <2>2, AppendIs DEF TypeOK
  <2>4. Match' = Match /\ \A n : Hopeless(n)' <=> Hopeless(n)
    BY <2>1 DEF Match, Hopeless
  <2>5. ASSUME queue # <<>> PROVE Job' = Job
    <3>1. queue \in Seq(JobType) /\ queue' \in Seq(JobType)
      BY DEF TypeOK
    <3>2. Job = queue[1] /\ 1 \in 1 .. Len(queue)
      BY <2>5, QueueIs
    <3>3. queue' # <<>> /\ queue'[1] = queue[1]
      BY <2>2, <3>1, <3>2, AppendIs
    <3> QED BY <3>1, <3>2, <3>3 DEF Job
  <2>6. ASSUME queue = <<>> PROVE Unsent'
    <3>1. Job' = j /\ awaited = {}
      BY <2>2, <2>6 DEF Job, CurrentInv
    <3>2. (Begun(Job))' = 0
      BY <2>2, <3>1 DEF Begun
    <3> QED BY <2>1, <3>1, <3>2 DEF Unsent
  <2>7. ASSUME beam \in Matched, NEW i \in 1 .. Len(queue'), Hopeless(queue'[i].name)
        PROVE  MatchDev' /\ (i = 1 => Unsent')
    <3>1. CASE i \in 1 .. Len(queue) /\ queue'[i] = queue[i]
      <4>1. MatchDev /\ (i = 1 => Unsent)
        BY <2>7, <3>1 DEF AgreeInv, MatchDev
      <4>2. queue # <<>>
        BY <3>1
      <4>3. Unsent => Unsent'
        BY <2>1, <2>5, <4>2 DEF Unsent, Begun
      <4> QED BY <2>1, <2>4, <4>1, <4>3 DEF MatchDev
    <3>2. CASE i = Len(queue) + 1 /\ queue'[i] = j
      <4>1. j.name # "ValidateConfigureScan"
        BY <2>7, <3>2, HopelessJobs
      <4>2. MatchDev
        BY <2>2, <2>7, <4>1 DEF AgreeInv, MatchDev
      <4>3. i = 1 => queue = <<>>
        BY <3>2, EmptySeq DEF TypeOK
      <4> QED BY <2>1, <2>4, <2>6, <4>2, <4>3 DEF MatchDev
    <3> QED BY <2>3, <3>1, <3>2
  <2>8. ASSUME beam \in Matched, ~AtWork' PROVE MatchDev'
    <3>1. ~AtWork
      BY <2>2, <2>8
    <3> QED BY <2>1, <2>4, <2>8, <3>1 DEF AgreeInv, MatchDev
  <2>9. beam \in Matched => ~Hopeless(ended)
    BY DEF AgreeInv
  <2> QED BY <2>1, <2>4, <2>7, <2>8, <2>9 DEF AgreeInv, MatchDev
<1>7. CASE JobEnds
  <2>1. /\ queue # <<>> /\ queue' = Tail(queue) /\ awaited = {} /\ UNCHANGED <<beam, awaited, dev>>
        /\ IF Validation(Job) THEN ended' = ended ELSE ended' = Job.name
    BY <1>7 DEF JobEnds, StepOver, devVars, Validation
  <2>2. Job = queue[1] /\ 1 \in 1 .. Len(queue) /\ queue' \in Seq(JobType)
    BY <2>1, QueueIs DEF TypeOK
  <2>3. ASSUME NEW i \in 1 .. Len(queue')
        PROVE  /\ i + 1 \in 1 .. Len(queue) /\ i + 1 > 1 /\ queue'[i] = queue[i + 1]
    BY <2>1, QueueIs
  <2>4. /\ AtWork' <=> AtWork
        /\ Match' = Match
        /\ \A n : Hopeless(n)' <=> Hopeless(n)
    BY <1>7, <2>1, HeldStays, AtWorkStays DEF Working, Match, Hopeless
  <2>5. ASSUME NEW i \in 1 .. Len(queue'), i = 1 PROVE Unsent'
    <3>1. 1 + 1 \in 1 .. Len(queue) /\ 1 + 1 > 1 /\ queue'[1] = queue[1 + 1]
      BY <2>3, <2>5
    <3>2. Job' = queue'[1]
      BY <2>2, <2>5, HeadTailProperties, EmptySeq DEF Job
    <3>3. Begun(Job') = 0
      BY <3>1, <3>2 DEF JobInv
    <3>4. (Begun(Job))' = 0
      BY <3>3 DEF Begun
    <3> QED BY <2>1, <3>4 DEF Unsent
  <2>6. ASSUME beam \in Matched, NEW i \in 1 .. Len(queue'), Hopeless(queue'[i].name) PROVE MatchDev'
    <3>1. MatchDev
      BY <2>3, <2>6 DEF AgreeInv, MatchDev
    <3> QED BY <2>1, <2>4, <3>1 DEF MatchDev
  <2>7. ASSUME beam \in Matched PROVE ~Hopeless(ended')
    <3>1. CASE Validation(Job)
      BY <2>1, <2>7, <3>1 DEF AgreeInv
    <3>2. CASE ~Validation(Job)
      <4>1. ASSUME Hopeless(Job.name) PROVE FALSE
        <5>1. Unsent
          BY <2>2, <2>7, <4>1 DEF AgreeInv
        <5> QED BY <1>7, <4>1, <5>1, UnsentEnds
      <4> QED BY <2>1, <3>2, <4>1
    <3> QED BY <3>1, <3>2
  <2> QED BY <2>1, <2>4, <2>5, <2>6, <2>7 DEF AgreeInv, MatchDev
<1> QED BY <1>1, <1>2, <1>3, <1>4, <1>5, <1>6, <1>7 DEF CleanNext, Working

-----------------------------------------------------------------------------
LEMMA WorkStep ==
  ASSUME BaseInv, BaseInv', beam # "EMPTY", WorkInv, CleanNext \/ UNCHANGED vars
  PROVE  WorkInv'
<1>1. SendInv /\ OrderInv /\ DoneInv /\ BufferInv /\ RingInv /\ AgreeInv
  BY DEF WorkInv
<1>2. SendInv'
  BY <1>1, SendStep
<1>3. OrderInv'
  BY <1>1, OrderStep
<1>4. DoneInv'
  BY <1>1, DoneStep
<1>5. BufferInv'
  BY <1>1, BufferStep
<1>6. RingInv'
  BY <1>1, RingStep
<1>7. AgreeInv'
  BY <1>1, AgreeStep
<1> QED BY <1>2, <1>3, <1>4, <1>5, <1>6, <1>7 DEF WorkInv

LEMMA WorkStarts == Init => WorkInv
<1> SUFFICES ASSUME Init PROVE WorkInv
  OBVIOUS
<1>1. /\ beam = "IDLE" /\ tasks = <<>> /\ queue = <<>> /\ ended = "none" /\ awaited = {} /\ todo = {}
      /\ command = "Lambda" /\ late = {} /\ news = {}
      /\ \A d \in Devices : dev[d] = "EMPTY" /\ running[d] = {}
  BY DEF Init
<1>2. Len(tasks) = 0 /\ Len(queue) = 0
  BY <1>1
<1>3. "none" \notin BeamCommands /\ "none" \notin Lasting /\ ~AtWork
  BY <1>1, <1>2 DEF BeamCommands, Lasting, AtWork
<1>4. \A n \in BeamCommands : ~Pending(n) /\ ~Held(n) /\ ~InTasks(n)
  BY <1>1, <1>2, <1>3 DEF Pending, Held, InQueue, InTasks
<1>5. SendInv
  BY <1>1 DEF SendInv
<1>6. OrderInv
  BY <1>1, <1>2, <1>4 DEF OrderInv, BeamCommands
<1>7. DoneInv /\ BufferInv
  BY <1>1, <1>2, <1>3 DEF DoneInv, BufferInv
<1>8. RingInv
  BY <1>1, ConfigurePlan DEF RingInv, Using
<1>9. AgreeInv
  BY <1>1, <1>2 DEF AgreeInv, Match, Hopeless
<1> QED BY <1>5, <1>6, <1>7, <1>8, <1>9 DEF WorkInv

LEMMA AlwaysIInv == Spec => []IInv
<1>1. Init => IInv
  BY StartsWell, WorkStarts DEF IInv
<1>2. IInv /\ [Next]_vars => IInv'
  <2> SUFFICES ASSUME IInv, [Next]_vars PROVE IInv'
    OBVIOUS
  <2>1. BaseInv /\ FaultsInv /\ (clean => WorkInv) /\ beam # "EMPTY"
    BY DEF IInv, FaultsInv
  <2>2. BaseInv'
    BY <2>1, BaseStep
  <2>3. FaultsInv'
    BY <2>1, FaultStep
  <2>4. ASSUME clean' PROVE WorkInv'
    <3>1. clean /\ (CleanNext \/ UNCHANGED vars)
      BY <2>1, <2>4, Cleanly
    <3> QED BY <2>1, <2>2, <3>1, WorkStep
  <2> QED BY <2>2, <2>3, <2>4 DEF IInv
<1> QED BY <1>1, <1>2, PTL DEF Spec

(* As long as no job has failed, SMRB has its ring buffers whenever RECV,  *)
(* DSP or STAT is set up to use them, in every way up and down             *)
(* (beam_component_manager.py:878 and 936), aborts and resets included.    *)
THEOREM RingBuffers == Spec => []RingBuffersOutliveClients
<1>1. IInv => RingBuffersOutliveClients
  BY DEF IInv, WorkInv, RingInv, RingBuffersOutliveClients
<1> QED BY <1>1, AlwaysIInv, PTL

(* As long as no job has failed, once every command has run its course a   *)
(* BEAM that is IDLE, READY or SCANNING has four sub-devices in that       *)
(* state, whatever was called while other commands were at work.           *)
THEOREM SettlesWell == Spec => []Settled
<1>1. IInv => Settled
  <2> SUFFICES ASSUME IInv, clean, Quiet PROVE AgreeInv /\ ~AtWork
    BY DEF Settled, AgreeInv, Match, Matched
  <2>1. Len(queue) = 0
    BY DEF Quiet
  <2> QED BY <2>1 DEF IInv, WorkInv, Quiet, AtWork
<1> QED BY <1>1, AlwaysIInv, PTL
=============================================================================
