--------------------------- MODULE DeviceCommands ---------------------------
(***************************************************************************)
(* The commands of a sub-device, as its clients see them: in which states  *)
(* one is taken (component/pst_device.py), what it does to the observation *)
(* state at once, and what it does when it ends well (the *_invoked,       *)
(* component_* and *_completed triggers of component/obs_state_model.py).  *)
(***************************************************************************)
EXTENDS ObsStates

Commands == {"ValidateConfigureScan", "ConfigureBeam", "DeconfigureBeam", "ConfigureScan",
             "DeconfigureScan", "Scan", "EndScan", "Abort", "ObsReset", "GoToFault"}

Taken(s, c) ==
  CASE c \in {"ConfigureBeam", "ValidateConfigureScan"} -> s = "EMPTY"
    [] c = "DeconfigureBeam" -> s = "IDLE"
    [] c = "ConfigureScan" -> s \in {"IDLE", "READY"}
    [] c \in {"DeconfigureScan", "Scan"} -> s = "READY"
    [] c = "EndScan" -> s = "SCANNING"
    [] c = "Abort" -> s \in Abortable
    [] c = "ObsReset" -> s \in {"ABORTED", "FAULT"}
    [] c = "GoToFault" -> TRUE

Invoked(s, c) ==
  CASE c = "ConfigureBeam" -> After(s, "assign_invoked")
    [] c = "DeconfigureBeam" -> After(s, "release_invoked")
    [] c = "ConfigureScan" -> After(s, "configure_invoked")
    [] c = "Abort" -> After(s, "abort_invoked")
    [] c = "ObsReset" -> After(s, "obsreset_invoked")
    [] OTHER -> s

Completed(s, c) ==
  CASE c = "ValidateConfigureScan" -> From(s)
    [] c = "ConfigureBeam" -> Then(Then(From(s), "component_resourced"), "assign_completed")
    [] c = "DeconfigureBeam" -> Then(Then(From(s), "component_unresourced"), "release_completed")
    [] c = "ConfigureScan" -> Then(Then(From(s), "component_configured"), "configure_completed")
    [] c = "DeconfigureScan" -> Then(From(s), "component_unconfigured")
    [] c = "Scan" -> Then(From(s), "component_scanning")
    [] c = "EndScan" -> Then(From(s), "component_not_scanning")
    [] c = "Abort" -> Then(Then(From(s), "component_not_scanning"), "abort_completed")
    [] c = "ObsReset" -> Then(Then(Then(From(s), "component_unconfigured"),
                                   "component_unresourced"), "obsreset_completed")
    [] c = "GoToFault" -> Then(From(s), "component_obsfault")
=============================================================================
