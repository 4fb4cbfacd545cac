----------------------------- MODULE TaskShape -----------------------------
(***************************************************************************)
(* The tasks of `job/task.py` as constants: a forest whose roots are the   *)
(* jobs.  A job is built before it is submitted and never changes.         *)
(***************************************************************************)
EXTENDS Integers, Sequences

CONSTANTS Tasks,      \* every task of every job
          NoTask,     \* "no task": the parent of a job, the task of an idle thread
          Kind,       \* the class of a task, and for device commands the number of devices
          Children,   \* its subtasks, in order
          Parent      \* the task it is a subtask of

(* "device" is a DeviceCommandTask with one device, "multi" one with none or
   several, whose children are the one-device tasks it is converted into. *)
Kinds == {"noop", "lambda", "seq", "par", "device", "multi"}

Subtasks(t) == {Children[t][i] : i \in 1 .. Len(Children[t])}
Parallel(t) == Kind[t] \in {"par", "multi"}
Jobs == {t \in Tasks : Parent[t] = NoTask}

(* Of each task, the task and all below it: the least set that holds the   *)
(* task and the subtasks of its members.  Then the one-device commands a   *)
(* task is made of.                                                        *)
Closed(S) == \A t \in S : Subtasks(t) \subseteq S
Within ==
  [t \in Tasks |-> {u \in Tasks : \A S \in SUBSET Tasks : t \in S /\ Closed(S) => u \in S}]
Commands(t) == {u \in Within[t] : Kind[u] = "device"}

ASSUME TreeAssumption ==
  /\ NoTask \notin Tasks
  /\ Kind \in [Tasks -> Kinds]
  /\ Children \in [Tasks -> Seq(Tasks)]
  /\ Parent \in [Tasks -> Tasks \cup {NoTask}]
  /\ \A t, c \in Tasks : c \in Subtasks(t) <=> Parent[c] = t
  /\ \A t \in Tasks : \A i, k \in 1 .. Len(Children[t]) :
        Children[t][i] = Children[t][k] => i = k
  /\ \A t \in Tasks : Kind[t] \in {"noop", "lambda", "device"} => Len(Children[t]) = 0
=============================================================================
