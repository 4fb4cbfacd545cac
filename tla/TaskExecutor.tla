---------------------------- MODULE TaskExecutor ----------------------------
(***************************************************************************)
(* The job executor of PST.LMC: `TaskExecutor` (job/task_executor.py) and  *)
(* the `DeviceCommandTaskExecutor` (job/device_task_executor.py) it feeds. *)
(* Client threads submit jobs and block.  One thread serves the main       *)
(* queue, one the sequential queue, a pool the parallel queue and one the  *)
(* device queue; a handler runs, and waits, in the thread that took its    *)
(* task.  A command that a device queues ends with a change event, which   *)
(* arrives on a thread of its own.                                         *)
(*                                                                         *)
(* A task stands for its TaskContext.  `outcome` is what that context      *)
(* signalled, `inner` what the context the handler waits on signalled: the *)
(* ParallelTaskContext of a parallel task, the DeviceCommandTaskContext of *)
(* a device command.                                                       *)
(***************************************************************************)
EXTENDS TaskShape

CONSTANTS Workers,          \* the threads of the parallel pool
          Devices,
          Device,           \* the device a one-device command is sent to
          SubscribeMayFail, \* whether subscribing to a device may raise
          FailureParses,    \* whether the text of a failure may be valid JSON
          MayStop           \* whether the owner may stop the executor

ASSUME ThreadAssumption ==
  /\ Workers \cap {"main", "seq", "dev"} = {}
  /\ NoTask \notin Workers \cup {"main", "seq"}
  /\ Device \in [Tasks -> Devices]
  /\ SubscribeMayFail \in BOOLEAN /\ MayStop \in BOOLEAN
  /\ FailureParses \subseteq BOOLEAN /\ FALSE \in FailureParses

Threads == {"main", "seq"} \cup Workers
SeqQueueSize == 1

VARIABLES
  client,     \* of each job: "idle", "waiting" in submit_job, "returned" or "raised"
  mainQ, seqQ, parQ, devQ,  \* the four queues
  running,    \* the task each thread is handling
  stage,      \* of each task: how far it got
  pos,        \* of each sequential task: how many subtasks it has submitted
  outcome, inner,           \* "none", "ok" or "failed"
  devTask,    \* the task the device thread is handling
  locked,     \* the device executor's lock is held across a call to a device
  reply,      \* what that call returned
  subscribed, \* _result_subscriptions
  cmdMap,     \* _task_context_map: the commands whose result is awaited
  remote,     \* of each one-device command: its life at the device
  events,     \* results on their way: [task, parses as JSON]
  phase,      \* "running", "stopping", "stopping device", "stopped"
  alive       \* the threads that have not left their loop, "dev" among them

vars == <<client, mainQ, seqQ, parQ, devQ, running, stage, pos, outcome, inner,
          devTask, locked, reply, subscribed, cmdMap, remote, events, phase, alive>>
queues == <<mainQ, seqQ, parQ, devQ>>
device == <<devTask, locked, reply, subscribed, cmdMap, remote, events>>
lifetime == <<phase, alive>>

Outcomes == {"none", "ok", "failed"}

ClientTypeOK == client \in [Jobs -> {"idle", "waiting", "returned", "raised"}]
QueueTypeOK ==
  mainQ \in Seq(Tasks) /\ seqQ \in Seq(Tasks) /\ parQ \in Seq(Tasks) /\ devQ \in Seq(Tasks)
TaskTypeOK ==
  /\ stage \in [Tasks -> {"new", "queued", "taken", "skipped", "routed", "waiting"}]
  /\ pos \in [Tasks -> Nat] /\ \A t \in Tasks : pos[t] <= Len(Children[t])
  /\ outcome \in [Tasks -> Outcomes] /\ inner \in [Tasks -> Outcomes]
ThreadTypeOK ==
  /\ running \in [Threads -> Tasks \cup {NoTask}]
  /\ phase \in {"running", "stopping", "stopping device", "stopped"}
  /\ alive \subseteq Threads \cup {"dev"}
DeviceTypeOK ==
  /\ devTask \in Tasks \cup {NoTask}
  /\ locked \in BOOLEAN
  /\ reply \in {"none", "ok", "queued", "rejected", "raised"}
  /\ subscribed \subseteq Devices
  /\ cmdMap \subseteq Tasks
  /\ remote \in [Tasks -> {"none", "requested", "running", "ok", "failed"}]
  /\ events \subseteq [task : Tasks, parses : BOOLEAN]
TypeOK == ClientTypeOK /\ QueueTypeOK /\ TaskTypeOK /\ ThreadTypeOK /\ DeviceTypeOK

Init ==
  /\ client = [j \in Jobs |-> "idle"]
  /\ mainQ = <<>> /\ seqQ = <<>> /\ parQ = <<>> /\ devQ = <<>>
  /\ running = [th \in Threads |-> NoTask]
  /\ stage = [t \in Tasks |-> "new"]
  /\ pos = [t \in Tasks |-> 0]
  /\ outcome = [t \in Tasks |-> "none"] /\ inner = [t \in Tasks |-> "none"]
  /\ devTask = NoTask /\ locked = FALSE /\ reply = "none"
  /\ subscribed = {} /\ cmdMap = {} /\ events = {}
  /\ remote = [t \in Tasks |-> "none"]
  /\ phase = "running" /\ alive = Threads \cup {"dev"}

-----------------------------------------------------------------------------
(* Clients: submit_job puts a JobContext on the main queue and waits.      *)

Submit(j) ==
  /\ client[j] = "idle"
  /\ client' = [client EXCEPT ![j] = "waiting"]
  /\ mainQ' = Append(mainQ, j)
  /\ stage' = [stage EXCEPT ![j] = "queued"]
  /\ UNCHANGED <<seqQ, parQ, devQ, running, pos, outcome, inner, device, lifetime>>

Return(j) ==
  /\ client[j] = "waiting" /\ outcome[j] # "none"
  /\ client' = [client EXCEPT ![j] = IF outcome[j] = "ok" THEN "returned" ELSE "raised"]
  /\ UNCHANGED <<queues, running, stage, pos, outcome, inner, device, lifetime>>

-----------------------------------------------------------------------------
(* The loops.  A thread that returns to the test of its loop after the stop *)
(* event is set leaves; one already waiting on its queue may take an item. *)

Idle(th) == th \in alive /\ running[th] = NoTask

Take(th, t, to) ==
  /\ Idle(th)
  /\ running' = [running EXCEPT ![th] = t]
  /\ stage' = [stage EXCEPT ![t] = to]

MainTake ==
  /\ mainQ # <<>> /\ Take("main", Head(mainQ), "routed")
  /\ mainQ' = Tail(mainQ)
  /\ UNCHANGED <<client, seqQ, parQ, devQ, pos, outcome, inner, device, lifetime>>

SeqTake ==
  /\ seqQ # <<>> /\ Take("seq", Head(seqQ), "routed")
  /\ seqQ' = Tail(seqQ)
  /\ UNCHANGED <<client, mainQ, parQ, devQ, pos, outcome, inner, device, lifetime>>

WorkerTake(w) ==
  /\ parQ # <<>> /\ Take(w, Head(parQ), "taken")
  /\ parQ' = Tail(parQ)
  /\ UNCHANGED <<client, mainQ, seqQ, devQ, pos, outcome, inner, device, lifetime>>

(* What a thread does on reaching the test of its loop. *)
BackToLoop(th) ==
  /\ running' = [running EXCEPT ![th] = NoTask]
  /\ alive' = IF phase = "running" THEN alive ELSE alive \ {th}

Leave(th) == \* the get() timed out and the stop event is set
  /\ phase # "running" /\ Idle(th)
  /\ alive' = alive \ {th}
  /\ UNCHANGED <<client, queues, running, stage, pos, outcome, inner, device, phase>>

(* The main and the sequential thread are done with a task once it signalled. *)
Done(th) ==
  /\ running[th] # NoTask /\ outcome[running[th]] # "none"
  /\ BackToLoop(th)
  /\ UNCHANGED <<client, queues, stage, pos, outcome, inner, device, phase>>

(* _handle_parallel_subtask: a subtask whose parent already failed is dropped ... *)
WorkerSkip(w) ==
  LET t == running[w] IN
  /\ t # NoTask /\ stage[t] = "taken" /\ inner[Parent[t]] = "failed"
  /\ stage' = [stage EXCEPT ![t] = "skipped"]
  /\ BackToLoop(w)
  /\ UNCHANGED <<client, queues, pos, outcome, inner, device, phase>>

(* A mistake the properties catch: the subtask is routed whatever became of its parent. *)
WorkerRouteAnyway(w) ==
  LET t == running[w] IN
  /\ t # NoTask /\ stage[t] = "taken"
  /\ stage' = [stage EXCEPT ![t] = "routed"]
  /\ UNCHANGED <<client, queues, running, pos, outcome, inner, device, lifetime>>

WorkerRoute(w) ==
  LET t == running[w] IN
  /\ t # NoTask /\ stage[t] = "taken" /\ inner[Parent[t]] # "failed"
  /\ stage' = [stage EXCEPT ![t] = "routed"]
  /\ UNCHANGED <<client, queues, running, pos, outcome, inner, device, lifetime>>

(* A mistake: one subtask to end well is enough. *)
JoinedOnFirst(t) == IF inner[Parent[t]] = "failed" THEN "failed" ELSE outcome[t]

(* ... and under the parallel lock the parent learns how the subtask ended. *)
Joined(t) ==
  LET p == Parent[t] IN
  IF inner[p] = "failed" \/ outcome[t] = "failed" THEN "failed"
  ELSE IF \A c \in Subtasks(p) : outcome[c] = "ok" THEN "ok" ELSE inner[p]

WorkerDone(w) ==
  LET t == running[w] IN
  /\ t # NoTask /\ outcome[t] # "none"
  /\ inner' = [inner EXCEPT ![Parent[t]] = Joined(t)]
  /\ BackToLoop(w)
  /\ UNCHANGED <<client, queues, stage, pos, outcome, device, phase>>

-----------------------------------------------------------------------------
(* The handlers _route_task calls, one action per step between two waits.  *)

Routed(t, kinds) == stage[t] = "routed" /\ Kind[t] \in kinds /\ outcome[t] = "none"

Signal(t, how) ==
  /\ outcome' = [outcome EXCEPT ![t] = how]
  /\ UNCHANGED <<client, queues, running, stage, pos, inner, device, lifetime>>

(* A no-op, and a device command without devices. *)
HandleNoop(t) ==
  /\ Routed(t, {"noop", "multi"}) /\ Len(Children[t]) = 0
  /\ Signal(t, "ok")

HandleLambda(t) ==
  /\ Routed(t, {"lambda"})
  /\ \E how \in {"ok", "failed"} : Signal(t, how)

(* _handle_sequential_task: the subtask last submitted, and its outcome. *)
LastOutcome(t) == IF pos[t] = 0 THEN "ok" ELSE outcome[Children[t][pos[t]]]

SequentialSubmit(t) ==
  /\ Routed(t, {"seq"}) /\ LastOutcome(t) = "ok" /\ pos[t] < Len(Children[t])
  /\ Len(seqQ) < SeqQueueSize
  /\ LET c == Children[t][pos[t] + 1] IN
     /\ seqQ' = Append(seqQ, c)
     /\ stage' = [stage EXCEPT ![c] = "queued"]
  /\ pos' = [pos EXCEPT ![t] = @ + 1]
  /\ UNCHANGED <<client, mainQ, parQ, devQ, running, outcome, inner, device, lifetime>>

(* A mistake: the loop advances past the last subtask. *)
SequentialEndAdvances(t) ==
  /\ Routed(t, {"seq"}) /\ LastOutcome(t) # "none"
  /\ LastOutcome(t) = "ok" => pos[t] = Len(Children[t])
  /\ outcome' = [outcome EXCEPT ![t] = LastOutcome(t)]
  /\ pos' = [pos EXCEPT ![t] = @ + 1]
  /\ UNCHANGED <<client, queues, running, stage, inner, device, lifetime>>

SequentialEnd(t) ==
  /\ Routed(t, {"seq"}) /\ LastOutcome(t) # "none"
  /\ LastOutcome(t) = "ok" => pos[t] = Len(Children[t])
  /\ Signal(t, LastOutcome(t))

(* _handle_parallel_task, which also serves a command on several devices: *)
(* all the subtasks are put on the queue under the parallel lock.         *)
HandleParallel(t) ==
  /\ Routed(t, {"par", "multi"})
  /\ Kind[t] = "multi" => Len(Children[t]) # 0
  /\ parQ' = parQ \o Children[t]
  /\ stage' = [u \in Tasks |-> IF u = t THEN "waiting"
                               ELSE IF u \in Subtasks(t) THEN "queued" ELSE stage[u]]
  /\ UNCHANGED <<client, mainQ, seqQ, devQ, running, pos, outcome, inner, device, lifetime>>

HandleDevice(t) ==
  /\ Routed(t, {"device"})
  /\ devQ' = Append(devQ, t)
  /\ stage' = [stage EXCEPT ![t] = "waiting"]
  /\ UNCHANGED <<client, mainQ, seqQ, parQ, running, pos, outcome, inner, device, lifetime>>

(* The context the handler waits on has signalled; it is copied. *)
HandlerReturn(t) ==
  /\ stage[t] = "waiting" /\ outcome[t] = "none" /\ inner[t] # "none"
  /\ Signal(t, inner[t])

-----------------------------------------------------------------------------
(* The device thread.                                                      *)

DevTake ==
  /\ "dev" \in alive /\ devTask = NoTask /\ devQ # <<>>
  /\ devTask' = Head(devQ)
  /\ devQ' = Tail(devQ)
  /\ UNCHANGED <<client, mainQ, seqQ, parQ, running, stage, pos, outcome, inner, locked, reply,
                 subscribed, cmdMap, remote, events, lifetime>>

(* _ensure_subscription raises: nothing catches it and the thread ends. *)
SubscribeFails ==
  /\ SubscribeMayFail /\ "dev" \in alive /\ devTask # NoTask /\ remote[devTask] = "none"
  /\ Device[devTask] \notin subscribed
  /\ devTask' = NoTask
  /\ alive' = alive \ {"dev"}
  /\ UNCHANGED <<client, queues, running, stage, pos, outcome, inner, locked, reply,
                 subscribed, cmdMap, remote, events, phase>>

SendCommand ==
  /\ devTask # NoTask /\ remote[devTask] = "none" /\ ~locked
  /\ subscribed' = subscribed \cup {Device[devTask]}
  /\ locked' = TRUE
  /\ remote' = [remote EXCEPT ![devTask] = "requested"]
  /\ UNCHANGED <<client, queues, running, stage, pos, outcome, inner, devTask, reply, cmdMap,
                 events, lifetime>>

(* A mistake: a command the device queued counts as done. *)
HandleReplyQueuedIsDone ==
  /\ devTask # NoTask /\ reply # "none"
  /\ inner' = [inner EXCEPT ![devTask] = IF reply \in {"ok", "queued"} THEN "ok" ELSE "failed"]
  /\ locked' = FALSE /\ reply' = "none" /\ devTask' = NoTask
  /\ alive' = IF phase = "stopping device" THEN alive \ {"dev"} ELSE alive
  /\ UNCHANGED <<client, queues, running, stage, pos, outcome, subscribed, cmdMap, remote, events,
                 phase>>

(* The lock is released with the map holding the command, or its context signalled. *)
HandleReply ==
  /\ devTask # NoTask /\ reply # "none"
  /\ cmdMap' = IF reply = "queued" THEN cmdMap \cup {devTask} ELSE cmdMap
  /\ inner' = IF reply = "queued" THEN inner
              ELSE [inner EXCEPT ![devTask] = IF reply = "ok" THEN "ok" ELSE "failed"]
  /\ locked' = FALSE /\ reply' = "none" /\ devTask' = NoTask
  /\ alive' = IF phase = "stopping device" THEN alive \ {"dev"} ELSE alive
  /\ UNCHANGED <<client, queues, running, stage, pos, outcome, subscribed, remote, events, phase>>

(* Two mistakes: an event is handled without the lock, or its text is not looked at. *)
HandleEventUnlocked(e) ==
  /\ e \in events
  /\ events' = events \ {e}
  /\ cmdMap' = cmdMap \ {e.task}
  /\ inner' = IF e.task \notin cmdMap THEN inner
              ELSE [inner EXCEPT ![e.task] = IF e.parses THEN "ok" ELSE "failed"]
  /\ UNCHANGED <<client, queues, running, stage, pos, outcome, devTask, locked, reply,
                 subscribed, remote, lifetime>>

HandleEventAnyText(e) ==
  /\ e \in events /\ ~locked
  /\ events' = events \ {e}
  /\ cmdMap' = cmdMap \ {e.task}
  /\ inner' = IF e.task \notin cmdMap THEN inner ELSE [inner EXCEPT ![e.task] = "ok"]
  /\ UNCHANGED <<client, queues, running, stage, pos, outcome, devTask, locked, reply,
                 subscribed, remote, lifetime>>

(* _handle_subscription_event, for a command in the map and for any other. *)
HandleEvent(e) ==
  /\ e \in events /\ ~locked
  /\ events' = events \ {e}
  /\ cmdMap' = cmdMap \ {e.task}
  /\ inner' = IF e.task \notin cmdMap THEN inner
              ELSE [inner EXCEPT ![e.task] = IF e.parses THEN "ok" ELSE "failed"]
  /\ UNCHANGED <<client, queues, running, stage, pos, outcome, devTask, locked, reply,
                 subscribed, remote, lifetime>>

-----------------------------------------------------------------------------
(* The devices (external).  A call may raise with the command never        *)
(* received or, as after a time-out, already running.                      *)

DeviceReply ==
  /\ locked /\ reply = "none"
  /\ \E r \in {"ok", "queued", "rejected", "raised"},
        life \in {"ok", "running", "failed"} :
       /\ r = "ok" => life = "ok"
       /\ r = "queued" => life = "running"
       /\ r = "rejected" => life = "failed"
       /\ r = "raised" => life # "ok"
       /\ reply' = r
       /\ remote' = [remote EXCEPT ![devTask] = life]
  /\ UNCHANGED <<client, queues, running, stage, pos, outcome, inner, devTask, locked,
                 subscribed, cmdMap, events, lifetime>>

(* The text of a result is JSON when the command succeeded. *)
DeviceFinish(t) ==
  /\ remote[t] = "running"
  /\ \E how \in {"ok", "failed"}, parses \in BOOLEAN :
       /\ IF how = "ok" THEN parses ELSE parses \in FailureParses
       /\ remote' = [remote EXCEPT ![t] = how]
       /\ events' = events \cup {[task |-> t, parses |-> parses]}
  /\ UNCHANGED <<client, queues, running, stage, pos, outcome, inner, devTask, locked, reply,
                 subscribed, cmdMap, lifetime>>

-----------------------------------------------------------------------------
(* stop(): the three pools are shut down, each waiting for its threads,    *)
(* then the device executor is stopped the same way.                       *)

Stop ==
  /\ MayStop /\ phase = "running"
  /\ phase' = "stopping"
  /\ UNCHANGED <<client, queues, running, stage, pos, outcome, inner, device, alive>>

PoolsStopped ==
  /\ phase = "stopping" /\ alive \cap Threads = {}
  /\ phase' = "stopping device"
  /\ UNCHANGED <<client, queues, running, stage, pos, outcome, inner, device, alive>>

DevLeave ==
  /\ phase = "stopping device" /\ "dev" \in alive /\ devTask = NoTask
  /\ alive' = alive \ {"dev"}
  /\ UNCHANGED <<client, queues, running, stage, pos, outcome, inner, device, phase>>

(* A mistake: stop() sets its events but waits for no thread. *)
StoppedAtOnce ==
  /\ phase \in {"stopping", "stopping device"}
  /\ phase' = "stopped"
  /\ subscribed' = {}
  /\ UNCHANGED <<client, queues, running, stage, pos, outcome, inner, devTask, locked, reply,
                 cmdMap, remote, events, alive>>

Stopped ==
  /\ phase = "stopping device" /\ "dev" \notin alive
  /\ phase' = "stopped"
  /\ subscribed' = {}
  /\ UNCHANGED <<client, queues, running, stage, pos, outcome, inner, devTask, locked, reply,
                 cmdMap, remote, events, alive>>

-----------------------------------------------------------------------------
Progress ==
  \/ \E j \in Jobs : Return(j)
  \/ MainTake \/ SeqTake
  \/ \E th \in {"main", "seq"} : Done(th)
  \/ \E w \in Workers : WorkerTake(w) \/ WorkerSkip(w) \/ WorkerRoute(w) \/ WorkerDone(w)
  \/ \E t \in Tasks : \/ HandleNoop(t) \/ HandleLambda(t)
                      \/ SequentialSubmit(t) \/ SequentialEnd(t)
                      \/ HandleParallel(t) \/ HandleDevice(t) \/ HandlerReturn(t)
                      \/ DeviceFinish(t)
  \/ DevTake \/ SubscribeFails \/ SendCommand \/ DeviceReply \/ HandleReply
  \/ \E e \in events : HandleEvent(e)
  \/ \E th \in Threads : Leave(th)
  \/ PoolsStopped \/ DevLeave \/ Stopped

Next == Progress \/ Stop \/ \E j \in Jobs : Submit(j)

Spec == Init /\ [][Next]_vars

(* Every thread runs when it can, devices answer and events arrive; nobody *)
(* need submit a job or stop the executor.                                 *)
FairSpec == Spec /\ WF_vars(Progress)

-----------------------------------------------------------------------------
(* The tree of tasks this implements.                                      *)

Status(t) == IF outcome[t] # "none" THEN outcome[t]
             ELSE IF stage[t] \in {"routed", "waiting"} THEN "running" ELSE "pending"

Tree == INSTANCE TaskTree WITH status <- [t \in Tasks |-> Status(t)]

(* The executor implements the tree of tasks: the order of the subtasks,   *)
(* what a failure stops and when a composite task ends are as the doc      *)
(* strings of the _handle_ methods say, whatever the threads do.           *)
ImplementsTree == Tree!Spec

(* A task that reported success really was done: each of its subtasks      *)
(* reported success, and a command to a device ran there to a good end.    *)
SuccessSound ==
  \A t \in Tasks : outcome[t] = "ok" =>
    /\ \A c \in Subtasks(t) : outcome[c] = "ok"
    /\ Kind[t] = "device" => remote[t] = "ok"

(* A device is sent a command of one step of a sequential task only when   *)
(* every command of the earlier steps has ended well at its own device,    *)
(* not merely been sent: the BEAM device relies on it to release the ring  *)
(* buffer's clients before the ring buffer (_handle_sequential_task).      *)
StepsInOrder ==
  \A p \in Tasks : Kind[p] = "seq" =>
    \A i, k \in 1 .. Len(Children[p]) : i < k =>
      \A later \in Commands(Children[p][k]), earlier \in Commands(Children[p][i]) :
        remote[later] # "none" => remote[earlier] = "ok"

(* submit_job calls the success callback only if all the commands of the   *)
(* job, however deep, succeeded on their devices; it raises only if some   *)
(* lambda or command of the job failed.                                    *)
JobVerdict ==
  \A j \in Jobs :
    /\ client[j] = "returned" => \A d \in Commands(j) : remote[d] = "ok"
    /\ client[j] = "raised" =>
         \E t \in Within[j] : \/ Kind[t] = "device" /\ inner[t] = "failed"
                              \/ Kind[t] = "lambda" /\ outcome[t] = "failed"

(* Once stop() has returned no command is sent to a device: the device     *)
(* executor is the last to be stopped (TaskExecutor.stop).                 *)
NothingSentOnceStopped ==
  [][phase = "stopped" =>
       \A t \in Tasks : remote'[t] = "requested" => remote[t] = "requested"]_vars

============================================================================
