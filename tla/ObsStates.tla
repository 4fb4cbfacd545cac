----------------------------- MODULE ObsStates -----------------------------
(***************************************************************************)
(* The state machine of the observation state of a sub-device              *)
(* (component/obs_state_model.py), as a partial function of the state for  *)
(* each trigger.  A trigger the machine does not know in a state is        *)
(* refused: perform_action raises StateModelError, and what the command    *)
(* would have done after it is not done.                                   *)
(***************************************************************************)

States == {"EMPTY", "RESOURCING_EMPTY", "RESOURCING_IDLE", "IDLE", "CONFIGURING_IDLE",
           "CONFIGURING_READY", "READY", "SCANNING", "ABORTING", "ABORTED", "RESETTING", "FAULT"}

To(from, to) == [s \in from |-> to]
Stay(from) == [s \in from |-> s]
Join(f, g) == [s \in DOMAIN f \cup DOMAIN g |-> IF s \in DOMAIN f THEN f[s] ELSE g[s]]

Abortable == {"IDLE", "CONFIGURING_IDLE", "CONFIGURING_READY", "READY", "SCANNING", "RESETTING"}

Resourcing == Join(To({"EMPTY"}, "RESOURCING_EMPTY"), To({"IDLE"}, "RESOURCING_IDLE"))
Resourced == Join(To({"RESOURCING_EMPTY"}, "EMPTY"), To({"RESOURCING_IDLE"}, "IDLE"))

Transition ==
  [component_obsfault     |-> To(States, "FAULT"),
   assign_invoked         |-> Resourcing,
   release_invoked        |-> Resourcing,
   component_resourced    |-> To({"RESOURCING_EMPTY"}, "RESOURCING_IDLE"),
   component_unresourced  |-> Join(To({"RESOURCING_IDLE"}, "RESOURCING_EMPTY"), Stay({"RESETTING"})),
   assign_completed       |-> Resourced,
   release_completed      |-> Resourced,
   configure_invoked      |-> Join(To({"IDLE"}, "CONFIGURING_IDLE"), To({"READY"}, "CONFIGURING_READY")),
   component_configured   |-> Join(To({"CONFIGURING_IDLE"}, "CONFIGURING_READY"), Stay({"ABORTING"})),
   component_unconfigured |-> Join(To({"READY"}, "IDLE"), Stay({"ABORTING", "RESETTING"})),
   configure_completed    |-> Join(To({"CONFIGURING_IDLE"}, "IDLE"), To({"CONFIGURING_READY"}, "READY")),
   component_scanning     |-> Join(To({"READY"}, "SCANNING"), Stay({"ABORTING"})),
   component_not_scanning |-> Join(To({"SCANNING"}, "READY"), Stay({"ABORTING"})),
   abort_invoked          |-> To(Abortable, "ABORTING"),
   abort_completed        |-> To({"ABORTING"}, "ABORTED"),
   obsreset_invoked       |-> To({"ABORTED", "FAULT"}, "RESETTING"),
   obsreset_completed     |-> To({"RESETTING"}, "EMPTY")]

Allowed(s, trigger) == s \in DOMAIN Transition[trigger]
After(s, trigger) == Transition[trigger][s]

(* One trigger after another, up to the first that is refused. *)
From(s) == [state |-> s, ok |-> TRUE]
Then(r, trigger) == IF r.ok /\ Allowed(r.state, trigger)
                    THEN From(After(r.state, trigger))
                    ELSE [state |-> r.state, ok |-> FALSE]
=============================================================================
