--------------------------- MODULE MCTaskExecutor ---------------------------
(***************************************************************************)
(* Two small forests for TaskExecutor.  In the first, job J is shaped like *)
(* the jobs of the BEAM device, a sequential task over a command on two    *)
(* devices and one on a single device, and job K is a single command.  In  *)
(* the second, J is a sequential task of a command on no devices and one   *)
(* on one device, and K a parallel task of a lambda and a sequential task. *)
(***************************************************************************)
EXTENDS TaskExecutor, FiniteSets, TLC

CONSTANTS J, J1, J2, J2a, J2b, J3, K, K1, K2, K3

BeamTasks == {J, J2, J2a, J2b, J3, K}
BeamChildren ==
  [t \in BeamTasks |-> CASE t = J  -> <<J2, J3>>
                         [] t = J2 -> <<J2a, J2b>>
                         [] OTHER  -> <<>>]
BeamKind ==
  [t \in BeamTasks |-> CASE t = J  -> "seq"
                         [] t = J2 -> "multi"
                         [] OTHER  -> "device"]

MixedTasks == {J, J1, J2, K, K1, K2, K3}
MixedChildren ==
  [t \in MixedTasks |-> CASE t = J  -> <<J1, J2>>
                          [] t = K  -> <<K1, K2>>
                          [] t = K2 -> <<K3>>
                          [] OTHER  -> <<>>]
MixedKind ==
  [t \in MixedTasks |-> CASE t \in {J, K2} -> "seq"
                          [] t = K -> "par"
                          [] t = J1 -> "multi"
                          [] t = K1 -> "lambda"
                          [] OTHER -> "device"]

(* A sequential task with a sequential subtask. *)
NestedTasks == {J, K, K1}
NestedChildren ==
  [t \in NestedTasks |-> CASE t = J -> <<K>> [] t = K -> <<K1>> [] OTHER -> <<>>]
NestedKind == [t \in NestedTasks |-> IF t = K1 THEN "device" ELSE "seq"]

Symmetry == Permutations(Workers)

MCDevice == [t \in Tasks |-> IF t = J2b THEN "b" ELSE "a"]
MCParent ==
  [c \in Tasks |-> IF \E p \in Tasks : c \in Subtasks(p)
                   THEN CHOOSE p \in Tasks : c \in Subtasks(p)
                   ELSE NoTask]

(* The client of a submitted job is released, unless the executor is       *)
(* stopped or its device thread died: no signal between the threads, and   *)
(* no result that arrives before its command is registered, is lost.       *)
JobReturns ==
  \A j \in Jobs :
    client[j] = "waiting" ~>
      client[j] \in {"returned", "raised"} \/ phase # "running" \/ "dev" \notin alive

(* The loop of the device thread ends only with the executor               *)
(* (DeviceCommandTaskExecutor._process_queue).                             *)
DeviceLoopRuns == phase = "running" => "dev" \in alive

(* A command on several devices is complete only once all the devices have *)
(* completed it (DeviceCommandTask).                                       *)
CompleteOnAllDevices ==
  \A t \in Tasks : Kind[t] = "multi" /\ outcome[t] # "none" =>
    \A d \in Commands(t) : remote[d] \notin {"requested", "running"}

=============================================================================
