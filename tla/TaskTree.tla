------------------------------ MODULE TaskTree ------------------------------
(***************************************************************************)
(* What the executor of `job/task_executor.py` promises of a tree of       *)
(* tasks, with its queues, threads and devices left out.  A job is the     *)
(* root of a tree.  The subtasks of a sequential task begin in order, each *)
(* after the success of the one before; the subtasks of a parallel task    *)
(* begin in any order while none of them has failed it; a composite task   *)
(* ends well only when all its subtasks did and ends badly only when one   *)
(* of them did.                                                            *)
(***************************************************************************)
EXTENDS TaskShape

VARIABLE status       \* of each task: not begun, begun, or how it ended

TypeOK == status \in [Tasks -> {"pending", "running", "ok", "failed"}]

Init == status = [t \in Tasks |-> "pending"]

(* The parent lets t begin. *)
Due(t) ==
  \/ Parent[t] = NoTask
  \/ /\ Parent[t] # NoTask
     /\ status[Parent[t]] = "running"
     /\ Kind[Parent[t]] = "seq" =>
          \A i \in 1 .. Len(Children[Parent[t]]) :
             Children[Parent[t]][i] = t =>
                \A k \in 1 .. i - 1 : status[Children[Parent[t]][k]] = "ok"

Begin(t) == /\ status[t] = "pending"
            /\ Due(t)
            /\ status' = [status EXCEPT ![t] = "running"]

Succeed(t) == /\ status[t] = "running"
              /\ \A c \in Subtasks(t) : status[c] = "ok"
              /\ status' = [status EXCEPT ![t] = "ok"]

Fail(t) == /\ status[t] = "running"
           /\ Kind[t] \in {"lambda", "device"} \/ \E c \in Subtasks(t) : status[c] = "failed"
           /\ status' = [status EXCEPT ![t] = "failed"]

Next == \E t \in Tasks : Begin(t) \/ Succeed(t) \/ Fail(t)

Spec == Init /\ [][Next]_status

=============================================================================
