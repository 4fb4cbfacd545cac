------------------------------ MODULE SubDevice ------------------------------
(***************************************************************************)
(* What a sub-device promises to its clients, BEAM above all: commands     *)
(* that are at work side by side, each of which takes effect at one        *)
(* moment, when it ends, in the state the device is in by then.  Beam is   *)
(* built on that; ProcessDevice, with its queue, its worker, its threads   *)
(* that abort and its core application, is shown to keep it.               *)
(*                                                                         *)
(* Of commands of the same name only one is told; when one of them ends    *)
(* the others may still be at work, and GoToFault, which has the device    *)
(* fault twice, is then at work until the second.                          *)
(***************************************************************************)
EXTENDS DeviceCommands

VARIABLES
  state,    \* the observation state
  running   \* the commands at work

vars == <<state, running>>

Init == state = "EMPTY" /\ running = {}

Call(c) ==
  /\ Taken(state, c)
  /\ state' = Invoked(state, c) /\ running' = running \cup {c}

Ends(c) == c \in running /\ running' \in {running \ {c}, running}

(* It may end well and yet not, when the device has been aborted or has    *)
(* gone to fault: what the state machine refuses is not done.              *)
Succeed(c) == Ends(c) /\ state' = Completed(state, c).state

Fail(c) == Ends(c) /\ c # "ValidateConfigureScan" /\ state' = "FAULT"

(* The device is left as it is when it is configured already, or with      *)
(* something that makes no sense.                                          *)
Reject(c) == Ends(c) /\ UNCHANGED state

Restart == state' = "EMPTY" /\ running' = {}

Next ==
  \/ Restart
  \/ \E c \in Commands : Call(c) \/ Succeed(c) \/ Fail(c) \/ Reject(c)

Spec == Init /\ [][Next]_vars
=============================================================================
