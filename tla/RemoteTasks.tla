---------------------------- MODULE RemoteTasks ----------------------------
(***************************************************************************)
(* A task made of commands on several remote devices (util/remote_task.py):*)
(* one thread sends the commands under the lock of the aggregate and then  *)
(* polls until all have ended or the time is out; the changes of status    *)
(* and progress that the devices report come as events, each handled on a  *)
(* thread of its own (device_proxy.py), in any order.                      *)
(*                                                                         *)
(* The devices are external: they answer a command at once, queue, reject  *)
(* or fail it, and may report before the answer is recorded.  Progress is  *)
(* 0, 50 or 100.  The loop over the tasks that works out the status of the *)
(* aggregate is taken for one step: a task that changes meanwhile will     *)
(* have it worked out again.                                               *)
(***************************************************************************)
EXTENDS Integers, FiniteSets, FiniteSetsExt

CONSTANTS
  N,          \* the number of tasks
  MaxEvents   \* bound on the events being handled when a device goes on

ASSUME NAssumption == N \in Nat \ {0}
ASSUME MaxEventsAssumption == MaxEvents \in Nat

VARIABLES
  device,    \* of each device: the status and progress of its command
  status,    \* of each task: the status it knows
  progress,  \* of each task: the progress it knows
  known,     \* the tasks that know the id of their command
  handlers,  \* the threads that handle an event
  lock,      \* whether the lock of the aggregate is held by the sender
  pc, at,    \* where the sender is, and at which task
  answer,    \* how the device answered that task
  aggregate, \* the status of the aggregate
  reported   \* the last call of task_callback, and how often the tasks caused one

deviceVars == <<device, handlers>>
taskVars == <<status, progress, known>>
senderVars == <<lock, pc, at, answer>>
vars == <<deviceVars, taskVars, senderVars, aggregate, reported>>

Tasks == 1 .. N
Ended == {"COMPLETED", "FAILED", "REJECTED", "ABORTED"}
Statuses == {"STAGING", "QUEUED", "IN_PROGRESS"} \cup Ended
Answers == {"OK", "QUEUED", "REJECTED", "FAILED"}
Nothing == "nothing"

Report(s, p, n) == [status |-> s, progress |-> p, updates |-> n]

TypeOK ==
  /\ device \in [Tasks -> [status : Statuses, progress : 0 .. 100]]
  /\ status \in [Tasks -> Statuses] /\ progress \in [Tasks -> 0 .. 100]
  /\ known \subseteq Tasks
  /\ handlers \subseteq [task : Tasks, news : ({"status"} \X Statuses) \cup ({"progress"} \X (0 .. 100)),
                         waits : BOOLEAN]
  /\ lock \in BOOLEAN
  /\ pc \in {"staging", "call", "record", "run", "completed", "rejected", "raised", "timed out"}
  /\ at \in Tasks
  /\ answer \in Answers \cup {Nothing}
  /\ aggregate \in Statuses
  /\ reported \in [status : Statuses, progress : 0 .. 100, updates : 0 .. 1]

Init ==
  /\ device = [t \in Tasks |-> [status |-> "STAGING", progress |-> 0]]
  /\ status = [t \in Tasks |-> "STAGING"] /\ progress = [t \in Tasks |-> 0] /\ known = {}
  /\ handlers = {}
  /\ lock = FALSE /\ pc = "staging" /\ at = 1 /\ answer = Nothing
  /\ aggregate = "STAGING" /\ reported = Report("STAGING", 0, 0)

-----------------------------------------------------------------------------
(* The sender: _execute_task, and __call__ of each task                    *)

Start ==
  /\ pc = "staging"
  /\ lock' = TRUE /\ pc' = "call"
  /\ aggregate' = "IN_PROGRESS" /\ reported' = Report("IN_PROGRESS", 0, 0)
  /\ UNCHANGED <<deviceVars, taskVars, at, answer>>

Notify(t, about, value) == [task |-> t, news |-> <<about, value>>, waits |-> FALSE]

Call ==
  /\ pc = "call"
  /\ \E a \in Answers :
       /\ answer' = a
       /\ device' = CASE a = "OK" -> [device EXCEPT ![at] = [status |-> "COMPLETED", progress |-> 100]]
                      [] a = "QUEUED" -> [device EXCEPT ![at].status = "QUEUED"]
                      [] OTHER -> [device EXCEPT ![at].status = "REJECTED"]
       /\ handlers' = IF a = "QUEUED" THEN handlers \cup {Notify(at, "status", "QUEUED")} ELSE handlers
  /\ pc' = "record"
  /\ UNCHANGED <<taskVars, lock, at, aggregate, reported>>

(* A command that cannot be sent: the exception gives the lock back, and   *)
(* nobody polls.                                                           *)
CallRaises ==
  /\ pc = "call"
  /\ pc' = "raised" /\ lock' = FALSE
  /\ UNCHANGED <<deviceVars, taskVars, at, answer, aggregate, reported>>

(* A rejected command ends the task, and gives the lock back.              *)
(* RejectedLocked, a mistake, keeps it.                                    *)
RejectedLocked == pc' = "rejected" /\ UNCHANGED lock
Rejected == pc' = "rejected" /\ lock' = FALSE

(* An answer that is none of the first three leaves the task as it was.    *)
Record ==
  /\ pc = "record"
  /\ status' = [status EXCEPT ![at] = CASE answer = "OK" -> "COMPLETED"
                                        [] answer = "QUEUED" -> "QUEUED"
                                        [] answer = "REJECTED" -> "REJECTED"
                                        [] OTHER -> @]
  /\ progress' = [progress EXCEPT ![at] = CASE answer = "OK" -> 100
                                            [] answer = "QUEUED" -> 0
                                            [] OTHER -> @]
  /\ known' = IF answer = "QUEUED" THEN known \cup {at} ELSE known
  /\ IF status'[at] = "REJECTED"
     THEN /\ reported' = [reported EXCEPT !.status = "REJECTED"]
          /\ Rejected /\ UNCHANGED at
     ELSE /\ IF at = N THEN lock' = FALSE /\ pc' = "run" /\ UNCHANGED at
                       ELSE pc' = "call" /\ at' = at + 1 /\ UNCHANGED lock
          /\ UNCHANGED reported
  /\ answer' = Nothing
  /\ UNCHANGED <<deviceVars, aggregate>>

(* _run_to_completion *)
RunToCompletion ==
  /\ pc = "run" /\ ~lock
  /\ aggregate \in Ended
  /\ pc' = "completed"
  /\ UNCHANGED <<deviceVars, taskVars, lock, at, answer, aggregate, reported>>

TimeOut ==
  /\ pc = "run"
  /\ pc' = "timed out"
  /\ UNCHANGED <<deviceVars, taskVars, lock, at, answer, aggregate, reported>>

-----------------------------------------------------------------------------
(* The devices *)

Progresses(t) ==
  /\ device[t].status \in {"QUEUED", "IN_PROGRESS"}
  /\ Cardinality(handlers) < MaxEvents
  /\ \/ /\ device[t].status = "QUEUED"
        /\ device' = [device EXCEPT ![t].status = "IN_PROGRESS"]
        /\ handlers' = handlers \cup {Notify(t, "status", "IN_PROGRESS")}
     \/ /\ device[t] = [status |-> "IN_PROGRESS", progress |-> 0]
        /\ device' = [device EXCEPT ![t].progress = 50]
        /\ handlers' = handlers \cup {Notify(t, "progress", 50)}
     \/ /\ device[t].status = "IN_PROGRESS"
        /\ \E s \in {"COMPLETED", "FAILED", "ABORTED"} :
             /\ device' = [device EXCEPT ![t].status = s]
             /\ handlers' = handlers \cup {Notify(t, "status", s)}
  /\ UNCHANGED <<taskVars, senderVars, aggregate, reported>>

-----------------------------------------------------------------------------
(* A thread that handles an event: the task first notes what has changed,  *)
(* if it is about its command, and then has the aggregate worked out.      *)

About(h) ==
  /\ h.task \in known
  /\ h.news # IF h.news[1] = "status" THEN <<"status", status[h.task]>> ELSE <<"progress", progress[h.task]>>

Arrive(h) ==
  /\ h \in handlers /\ ~h.waits
  /\ IF About(h)
     THEN /\ handlers' = (handlers \ {h}) \cup {[h EXCEPT !.waits = TRUE]}
          /\ IF h.news[1] = "status" THEN status' = [status EXCEPT ![h.task] = h.news[2]] /\ UNCHANGED progress
                                     ELSE progress' = [progress EXCEPT ![h.task] = h.news[2]] /\ UNCHANGED status
     ELSE handlers' = handlers \ {h} /\ UNCHANGED <<status, progress>>
  /\ UNCHANGED <<device, known, senderVars, aggregate, reported>>

(* COMPLETED when all tasks are, else what the last task in progress, or   *)
(* the first that is not completed, says.  LastTask and UpdateOwn are      *)
(* mistakes: the aggregate goes by one task; so is Total, not divided.     *)
Unfinished == {t \in Tasks : status[t] # "COMPLETED"}

LastTask == status[N]

Overall ==
  LET first == Min(Unfinished)
  IN IF Unfinished = {} THEN "COMPLETED"
     ELSE IF \E t \in Tasks : t > first /\ status[t] = "IN_PROGRESS" THEN "IN_PROGRESS"
     ELSE status[first]

SumOf(f) == MapThenSumSet(LAMBDA t : f[t], Tasks)

Total == IF Overall = "COMPLETED" THEN 100 ELSE SumOf(progress)

Average == IF Overall = "COMPLETED" THEN 100 ELSE SumOf(progress) \div N

UpdateOwn(h) ==
  /\ h \in handlers /\ h.waits /\ ~lock
  /\ handlers' = handlers \ {h}
  /\ aggregate' = status[h.task]
  /\ reported' = Report(status[h.task], progress[h.task], 1)
  /\ UNCHANGED <<device, taskVars, senderVars>>

Update(h) ==
  /\ h \in handlers /\ h.waits /\ ~lock
  /\ handlers' = handlers \ {h}
  /\ aggregate' = Overall
  /\ reported' = Report(Overall, Average, 1)
  /\ UNCHANGED <<device, taskVars, senderVars>>

-----------------------------------------------------------------------------

Sender == Start \/ Call \/ CallRaises \/ Record \/ RunToCompletion \/ TimeOut
Next ==
  \/ Sender
  \/ \E t \in Tasks : Progresses(t)
  \/ \E h \in handlers : Arrive(h) \/ Update(h)

Spec == Init /\ [][Next]_vars

(* The threads go on; the devices need not. *)
FairSpec == Spec /\ WF_vars(Sender) /\ WF_vars(\E h \in handlers : Arrive(h) \/ Update(h))

-----------------------------------------------------------------------------
(* Properties *)

(* COMPLETED is reported only when every device has completed its command. *)
CompletedMeansAll ==
  reported.status = "COMPLETED" => \A t \in Tasks : device[t].status = "COMPLETED"

(* Once no event is being handled the last report is what the tasks amount *)
(* to, in whatever order their changes came and overlapped.                *)
ReportsAddUp ==
  (\A h \in handlers : ~h.waits) /\ pc \notin {"call", "record"} /\ reported.updates = 1 =>
    reported.status = Overall /\ reported.progress = Average

(* Neither the sender nor a thread that handles an event waits for ever    *)
(* for the lock: the sender ends, and every event is handled.              *)
NobodyWaitsForEver ==
  /\ <>(pc \in {"completed", "rejected", "raised", "timed out"})
  /\ []<>(\A h \in handlers : ~h.waits)
=============================================================================
