------------------------- MODULE TaskExecutorProofs -------------------------
(***************************************************************************)
(* For every forest of jobs, every number of workers and every behaviour   *)
(* of the devices: TaskExecutor is type correct, a success it reports is   *)
(* real, the steps of a job reach the devices in order, clients are told   *)
(* what happened, nothing is sent once it has stopped, and it implements   *)
(* TaskTree.                                                               *)
(*                                                                         *)
(* The inductive invariant ties each composite task to its subtasks: a     *)
(* queue holds distinct tasks still to begin, of the kind that goes there; *)
(* a sequential task has submitted a prefix of its subtasks, all of them   *)
(* successful but the last; a parallel task knows of its subtasks what     *)
(* they signalled; a result on its way from a device tells what happened   *)
(* there.  What holds of a task and passes to its subtasks holds of all    *)
(* the commands below it (WithinClosed): so no induction over the depth of *)
(* a job is needed.                                                        *)
(***************************************************************************)
EXTENDS TaskExecutor, TLAPS

(* A queue from which tasks of the set S are taken to be begun. *)
Holds(q, S, st) ==
  /\ \A i \in 1 .. Len(q) : q[i] \in S /\ st[q[i]] = "queued"
  /\ \A i, k \in 1 .. Len(q) : q[i] = q[k] => i = k

SeqTasks == {t \in Tasks : Parent[t] \in Tasks /\ Kind[Parent[t]] = "seq"}
ParTasks == {t \in Tasks : Parent[t] \in Tasks /\ Parallel(Parent[t])}

QueueInv == /\ Holds(mainQ, Jobs, stage)
            /\ Holds(seqQ, SeqTasks, stage)
            /\ Holds(parQ, ParTasks, stage)

StageInv ==
  /\ \A j \in Jobs : client[j] = "idle" => stage[j] = "new"
  /\ \A t \in Tasks : outcome[t] # "none" => stage[t] \in {"routed", "waiting"}
  /\ \A t \in Tasks : stage[t] = "waiting" => Kind[t] \in {"par", "multi", "device"}
  /\ \A w \in Workers : running[w] \in Tasks => running[w] \in ParTasks

SeqTaskInv(p) ==
  /\ pos[p] <= Len(Children[p])
  /\ pos[p] # 0 => stage[p] = "routed"
  /\ \A i \in 1 .. Len(Children[p]) :
       /\ i > pos[p] => stage[Children[p][i]] = "new"
       /\ i < pos[p] => outcome[Children[p][i]] = "ok"
  /\ outcome[p] # "none" => outcome[p] = LastOutcome(p)
  /\ outcome[p] = "ok" => pos[p] = Len(Children[p])

ParTaskInv(p) ==
  /\ stage[p] # "waiting" => \A c \in Subtasks(p) : stage[c] = "new"
  /\ inner[p] = "ok" => \A c \in Subtasks(p) : outcome[c] = "ok"
  /\ inner[p] = "failed" => \E c \in Subtasks(p) : outcome[c] = "failed"
  /\ outcome[p] = "ok" => \A c \in Subtasks(p) : outcome[c] = "ok"
  /\ outcome[p] = "failed" => inner[p] = "failed"

TreeInv == /\ \A p \in Tasks : Kind[p] = "seq" => SeqTaskInv(p)
           /\ \A p \in Tasks : Parallel(p) => ParTaskInv(p)

(* Only one-device commands reach the device executor. *)
DeviceKind ==
  /\ \A i \in 1 .. Len(devQ) : Kind[devQ[i]] = "device"
  /\ devTask \in Tasks => Kind[devTask] = "device"
  /\ \A t \in cmdMap : Kind[t] = "device"

CallInv ==
  /\ locked /\ reply = "none" => devTask \in Tasks /\ remote[devTask] = "requested"
  /\ reply # "none" => locked

IInv == TypeOK /\ QueueInv /\ StageInv /\ TreeInv /\ DeviceKind /\ CallInv

(* With results that are JSON only after a success, news of a success is true. *)
NewsInv ==
  /\ reply = "ok" => devTask \in Tasks /\ remote[devTask] = "ok"
  /\ \A e \in events : e.parses => remote[e.task] = "ok"
  /\ \A t \in Tasks : Kind[t] = "device" /\ inner[t] = "ok" => remote[t] = "ok"
  /\ \A t \in Tasks : Kind[t] = "device" /\ outcome[t] = "ok" => remote[t] = "ok"

(* The commands the device executor has not yet answered for.              *)
InHand == {devQ[i] : i \in 1 .. Len(devQ)} \cup ({devTask} \ {NoTask}) \cup cmdMap

(* Each command is handed to the device executor once, by a handler that   *)
(* waits for it, and is in one of its hands until it is answered.          *)
CommandInv ==
  /\ \A t \in InHand : stage[t] = "waiting" /\ inner[t] = "none"
  /\ \A i, k \in 1 .. Len(devQ) : devQ[i] = devQ[k] => i = k
  /\ \A i \in 1 .. Len(devQ) : devQ[i] # devTask /\ devQ[i] \notin cmdMap
  /\ devTask \notin cmdMap
  /\ \A t \in Tasks : remote[t] # "none" => stage[t] = "waiting"
  /\ \A t \in Tasks : Kind[t] = "device" /\ inner[t] # "none" => stage[t] = "waiting"

(* A failure comes from a lambda or a command of the task. *)
Blamed(t) == \E u \in Within[t] : \/ Kind[u] = "device" /\ inner[u] = "failed"
                                  \/ Kind[u] = "lambda" /\ outcome[u] = "failed"
BlameInv == \A t \in Tasks : outcome[t] = "failed" => Blamed(t)

(* A client has been told how its job ended. *)
ToldInv == \A j \in Jobs : /\ client[j] = "returned" => outcome[j] = "ok"
                           /\ client[j] = "raised" => outcome[j] = "failed"

(* stop() ends with the device thread, which leaves nothing half done. *)
StopInv == /\ "dev" \notin alive => devTask = NoTask
           /\ phase = "stopped" => "dev" \notin alive

-----------------------------------------------------------------------------
(* Queues. *)

LEMMA QueueTail ==
  ASSUME NEW q \in Seq(Tasks), q # <<>>, NEW S, NEW Stages, NEW st \in [Tasks -> Stages],
         Holds(q, S, st), NEW to
  PROVE  /\ Head(q) \in Tasks /\ Head(q) \in S /\ st[Head(q)] = "queued"
         /\ Tail(q) \in Seq(Tasks)
         /\ Holds(Tail(q), S, [st EXCEPT ![Head(q)] = to])
<1>1. /\ Len(q) \in Nat /\ Len(q) # 0 /\ Head(q) = q[1] /\ Tail(q) \in Seq(Tasks)
      /\ Len(Tail(q)) = Len(q) - 1
      /\ \A i \in 1 .. Len(q) - 1 : Tail(q)[i] = q[i + 1]
  OBVIOUS
<1>2. \A i \in 1 .. Len(q) : q[i] \in Tasks
  OBVIOUS
<1>3. \A i \in 1 .. Len(q) - 1 : i + 1 \in 1 .. Len(q) /\ i + 1 # 1
  BY <1>1
<1> QED
  BY <1>1, <1>2, <1>3 DEF Holds

LEMMA QueueAppend ==
  ASSUME NEW q \in Seq(Tasks), NEW S, NEW t \in S, t \in Tasks,
         NEW Stages, NEW st \in [Tasks -> Stages], st[t] # "queued", Holds(q, S, st)
  PROVE  /\ Append(q, t) \in Seq(Tasks)
         /\ Holds(Append(q, t), S, [st EXCEPT ![t] = "queued"])
<1>1. /\ Len(Append(q, t)) = Len(q) + 1
      /\ \A i \in 1 .. Len(q) : Append(q, t)[i] = q[i]
      /\ Append(q, t)[Len(q) + 1] = t
  OBVIOUS
<1>2. \A i \in 1 .. Len(q) : q[i] \in Tasks
  OBVIOUS
<1> QED
  BY <1>1, <1>2 DEF Holds

LEMMA QueueConcat ==
  ASSUME NEW q \in Seq(Tasks), NEW s \in Seq(Tasks), NEW S,
         NEW Stages, NEW st \in [Tasks -> Stages], NEW st2 \in [Tasks -> Stages],
         \A i \in 1 .. Len(s) : s[i] \in S /\ st[s[i]] # "queued" /\ st2[s[i]] = "queued",
         \A i, k \in 1 .. Len(s) : s[i] = s[k] => i = k,
         \A t \in Tasks : st[t] = "queued" => st2[t] = "queued",
         Holds(q, S, st)
  PROVE  q \o s \in Seq(Tasks) /\ Holds(q \o s, S, st2)
<1>1. /\ q \o s \in Seq(Tasks) /\ Len(q) \in Nat /\ Len(s) \in Nat
      /\ Len(q \o s) = Len(q) + Len(s)
      /\ \A i \in 1 .. Len(q) + Len(s) :
           (q \o s)[i] = IF i <= Len(q) THEN q[i] ELSE s[i - Len(q)]
  OBVIOUS
<1>2. \A i \in 1 .. Len(q) : q[i] \in Tasks /\ q[i] \in S /\ st[q[i]] = "queued"
  BY DEF Holds
<1>3. \A i \in 1 .. Len(q) + Len(s) : i > Len(q) => i - Len(q) \in 1 .. Len(s)
  BY <1>1
<1>4. \A i \in 1 .. Len(q \o s) : (q \o s)[i] \in S /\ st2[(q \o s)[i]] = "queued"
  BY <1>1, <1>2, <1>3
<1>5. ASSUME NEW i \in 1 .. Len(q \o s), NEW k \in 1 .. Len(q \o s),
             (q \o s)[i] = (q \o s)[k]
      PROVE  i = k
  <2>1. CASE i <= Len(q) /\ k <= Len(q)
    BY <1>1, <1>5, <2>1 DEF Holds
  <2>2. CASE i > Len(q) /\ k > Len(q)
    BY <1>1, <1>3, <1>5, <2>2
  <2>3. CASE i <= Len(q) <=> k > Len(q)
    BY <1>1, <1>2, <1>3, <1>5, <2>3
  <2> QED
    BY <1>1, <2>1, <2>2, <2>3
<1> QED
  BY <1>1, <1>4, <1>5 DEF Holds

(* A queue does not notice what happens to tasks that are not queued. *)
LEMMA QueueFrame ==
  ASSUME NEW q, NEW S, NEW st, NEW st2, Holds(q, S, st),
         \A t \in S : st[t] = "queued" => st2[t] = "queued"
  PROVE  Holds(q, S, st2)
BY DEF Holds

-----------------------------------------------------------------------------
(* Type correctness. *)

LEMMA SubtaskFacts ==
  /\ \A t \in Tasks : Children[t] \in Seq(Tasks) /\ Len(Children[t]) \in Nat
  /\ \A t \in Tasks : \A i \in 1 .. Len(Children[t]) :
       /\ Children[t][i] \in Tasks
       /\ Children[t][i] \in Subtasks(t)
       /\ Parent[Children[t][i]] = t
  /\ \A t \in Tasks : \A c \in Subtasks(t) : c \in Tasks /\ Parent[c] = t
  /\ \A c \in Tasks : Parent[c] \in Tasks => c \in Subtasks(Parent[c])
  /\ Jobs \subseteq Tasks /\ NoTask \notin Tasks
<1>1. \A t \in Tasks : Children[t] \in Seq(Tasks)
  BY TreeAssumption
<1>2. \A t \in Tasks : \A i \in 1 .. Len(Children[t]) :
        Children[t][i] \in Tasks /\ Children[t][i] \in Subtasks(t)
  BY <1>1 DEF Subtasks
<1>3. \A t \in Tasks : \A c \in Subtasks(t) : c \in Tasks
  BY <1>2 DEF Subtasks
<1> QED
  BY <1>1, <1>2, <1>3, TreeAssumption DEF Jobs

LEMMA TypeInit == Init => TypeOK
<1> SUFFICES ASSUME Init PROVE TypeOK
  OBVIOUS
<1> USE DEF Init, Outcomes
<1>1. ClientTypeOK
  BY DEF ClientTypeOK
<1>2. QueueTypeOK
  BY DEF QueueTypeOK
<1>3. TaskTypeOK
  BY DEF TaskTypeOK
<1>4. ThreadTypeOK
  BY DEF ThreadTypeOK
<1>5. DeviceTypeOK
  BY DEF DeviceTypeOK
<1> QED
  BY <1>1, <1>2, <1>3, <1>4, <1>5 DEF TypeOK

LEMMA QueueTypes ==
  ASSUME NEW q \in Seq(Tasks)
  PROVE  /\ q # <<>> => Head(q) \in Tasks /\ Tail(q) \in Seq(Tasks)
         /\ \A t \in Tasks : Append(q, t) \in Seq(Tasks) /\ q \o Children[t] \in Seq(Tasks)
BY SubtaskFacts

LEMMA NextSubtask ==
  ASSUME TaskTypeOK, NEW t \in Tasks, pos[t] < Len(Children[t])
  PROVE  /\ pos[t] \in Nat
         /\ pos[t] + 1 \in 1 .. Len(Children[t])
         /\ Children[t][pos[t] + 1] \in Tasks
<1>1. pos[t] \in Nat
  BY DEF TaskTypeOK
<1> QED
  BY <1>1, SubtaskFacts

LEMMA TypeStep == TypeOK /\ [Next]_vars => TypeOK'
<1> SUFFICES ASSUME TypeOK, [Next]_vars PROVE TypeOK'
  OBVIOUS
<1> USE DEF TypeOK, ClientTypeOK, QueueTypeOK, TaskTypeOK, ThreadTypeOK, DeviceTypeOK,
            queues, device, lifetime, Outcomes
<1>1. ASSUME NEW j \in Jobs, Return(j) PROVE TypeOK'
  BY <1>1 DEF Return
<1>2. CASE MainTake
  <2>1. Head(mainQ) \in Tasks /\ Tail(mainQ) \in Seq(Tasks)
    BY ONLY <1>2, QueueTypeOK, QueueTypes DEF MainTake, QueueTypeOK
  <2> QED BY <1>2, <2>1 DEF MainTake, Take, Idle
<1>3. CASE SeqTake
  <2>1. Head(seqQ) \in Tasks /\ Tail(seqQ) \in Seq(Tasks)
    BY ONLY <1>3, QueueTypeOK, QueueTypes DEF SeqTake, QueueTypeOK
  <2> QED BY <1>3, <2>1 DEF SeqTake, Take, Idle
<1>4. ASSUME NEW th \in {"main", "seq"}, Done(th) PROVE TypeOK'
  BY <1>4 DEF Done, BackToLoop
<1>5. ASSUME NEW w \in Workers, WorkerTake(w) PROVE TypeOK'
  <2>1. Head(parQ) \in Tasks /\ Tail(parQ) \in Seq(Tasks)
    BY ONLY <1>5, QueueTypeOK, QueueTypes DEF WorkerTake, QueueTypeOK
  <2> QED BY <1>5, <2>1 DEF WorkerTake, Take, Idle
<1>6. ASSUME NEW w \in Workers, WorkerSkip(w) PROVE TypeOK'
  BY <1>6 DEF WorkerSkip, BackToLoop
<1>7. ASSUME NEW w \in Workers, WorkerRoute(w) PROVE TypeOK'
  BY <1>7 DEF WorkerRoute
<1>8. ASSUME NEW w \in Workers, WorkerDone(w) PROVE TypeOK'
  <2>1. running[w] \in Tasks
    BY <1>8, ThreadAssumption DEF WorkerDone, Threads
  <2>2. Parent[running[w]] \in Tasks => Joined(running[w]) \in {"none", "ok", "failed"}
    BY <2>1 DEF Joined
  <2> QED BY <1>8, <2>2, ZenonT(60) DEF WorkerDone, BackToLoop
<1>9. ASSUME NEW t \in Tasks, HandleNoop(t) PROVE TypeOK'
  BY <1>9 DEF HandleNoop, Signal
<1>10. ASSUME NEW t \in Tasks, HandleLambda(t) PROVE TypeOK'
  <2> PICK how \in {"ok", "failed"} : Signal(t, how)
    BY ONLY <1>10 DEF HandleLambda
  <2> QED BY DEF Signal
<1>11. ASSUME NEW t \in Tasks, SequentialSubmit(t) PROVE TypeOK'
  <2> DEFINE c == Children[t][pos[t] + 1]
  <2>1. c \in Tasks /\ pos[t] + 1 \in Nat /\ pos[t] + 1 <= Len(Children[t])
    BY ONLY <1>11, NextSubtask, t \in Tasks, TaskTypeOK DEF SequentialSubmit
  <2>2. Append(seqQ, c) \in Seq(Tasks)
    BY ONLY <2>1, QueueTypes, QueueTypeOK DEF QueueTypeOK
  <2>3. /\ seqQ' = Append(seqQ, c) /\ stage' = [stage EXCEPT ![c] = "queued"]
        /\ pos' = [pos EXCEPT ![t] = pos[t] + 1]
        /\ UNCHANGED <<client, mainQ, parQ, devQ, running, outcome, inner, device, lifetime>>
    BY ONLY <1>11 DEF SequentialSubmit
  <2> HIDE DEF c
  <2> QED BY <2>1, <2>2, <2>3
<1>12. ASSUME NEW t \in Tasks, SequentialEnd(t) PROVE TypeOK'
  <2>1. CASE pos[t] = 0
    BY <1>12, <2>1 DEF SequentialEnd, LastOutcome, Signal
  <2>2. CASE pos[t] # 0
    <3>1. Signal(t, outcome[Children[t][pos[t]]]) /\ outcome[Children[t][pos[t]]] # "none"
      BY <1>12, <2>2 DEF SequentialEnd, LastOutcome
    <3>2. Children[t][pos[t]] \in Tasks
      <4>1. pos[t] \in 1 .. Len(Children[t])
        BY ONLY <2>2, TaskTypeOK, SubtaskFacts, t \in Tasks DEF TaskTypeOK
      <4> QED BY ONLY <4>1, SubtaskFacts, t \in Tasks
    <3> HIDE DEF LastOutcome
    <3> QED BY <3>1, <3>2 DEF Signal
  <2> QED BY <2>1, <2>2
<1>13. ASSUME NEW t \in Tasks, HandleParallel(t) PROVE TypeOK'
  <2>1. parQ \o Children[t] \in Seq(Tasks)
    BY ONLY QueueTypes, QueueTypeOK, t \in Tasks DEF QueueTypeOK
  <2> QED BY <1>13, <2>1 DEF HandleParallel
<1>14. ASSUME NEW t \in Tasks, HandleDevice(t) PROVE TypeOK'
  <2>1. Append(devQ, t) \in Seq(Tasks)
    BY ONLY QueueTypes, QueueTypeOK, t \in Tasks DEF QueueTypeOK
  <2> QED BY <1>14, <2>1 DEF HandleDevice
<1>15. ASSUME NEW t \in Tasks, HandlerReturn(t) PROVE TypeOK'
  BY <1>15 DEF HandlerReturn, Signal
<1>16. ASSUME NEW t \in Tasks, DeviceFinish(t) PROVE TypeOK'
  <2> PICK how \in {"ok", "failed"}, parses \in BOOLEAN :
         /\ remote' = [remote EXCEPT ![t] = how]
         /\ events' = events \cup {[task |-> t, parses |-> parses]}
    BY ONLY <1>16 DEF DeviceFinish
  <2>1. [task |-> t, parses |-> parses] \in [task : Tasks, parses : BOOLEAN]
    BY ONLY t \in Tasks, parses \in BOOLEAN
  <2>2. events' \subseteq [task : Tasks, parses : BOOLEAN]
    BY <2>1
  <2>3. remote' \in [Tasks -> {"none", "requested", "running", "ok", "failed"}]
    OBVIOUS
  <2>4. UNCHANGED <<client, queues, running, stage, pos, outcome, inner, devTask, locked, reply,
                    subscribed, cmdMap, lifetime>>
    BY ONLY <1>16 DEF DeviceFinish
  <2> QED BY <2>2, <2>3, <2>4
<1>17. CASE DevTake
  <2>1. Head(devQ) \in Tasks /\ Tail(devQ) \in Seq(Tasks)
    BY ONLY <1>17, QueueTypeOK, QueueTypes DEF DevTake, QueueTypeOK
  <2> QED BY <1>17, <2>1 DEF DevTake
<1>18. CASE SubscribeFails
  BY <1>18 DEF SubscribeFails
<1>19. CASE SendCommand
  BY <1>19, ThreadAssumption, ZenonT(60) DEF SendCommand
<1>20. CASE DeviceReply
  <2> PICK r \in {"ok", "queued", "rejected", "raised"}, life \in {"ok", "running", "failed"} :
         reply' = r /\ remote' = [remote EXCEPT ![devTask] = life]
    BY ONLY <1>20 DEF DeviceReply
  <2> QED BY <1>20 DEF DeviceReply
<1>21. CASE HandleReply
  BY <1>21 DEF HandleReply
<1>22. ASSUME NEW e \in events, HandleEvent(e) PROVE TypeOK'
  BY <1>22 DEF HandleEvent
<1>23. ASSUME NEW th \in Threads, Leave(th) PROVE TypeOK'
  BY <1>23 DEF Leave
<1>24. CASE PoolsStopped \/ DevLeave \/ Stopped \/ Stop
  BY <1>24, ZenonT(60) DEF PoolsStopped, DevLeave, Stopped, Stop
<1>25. ASSUME NEW j \in Jobs, Submit(j) PROVE TypeOK'
  <2>1. j \in Tasks /\ Append(mainQ, j) \in Seq(Tasks)
    BY ONLY SubtaskFacts, QueueTypes, QueueTypeOK, j \in Jobs DEF QueueTypeOK
  <2> QED BY <1>25, <2>1 DEF Submit
<1>26. CASE UNCHANGED vars
  BY <1>26 DEF vars
<1> QED
  BY <1>1, <1>2, <1>3, <1>4, <1>5, <1>6, <1>7, <1>8, <1>9, <1>10, <1>11, <1>12, <1>13, <1>14,
     <1>15, <1>16, <1>17, <1>18, <1>19, <1>20, <1>21, <1>22, <1>23, <1>24, <1>25, <1>26
  DEF Next, Progress

(* Every variable keeps its type, for any forest of jobs. *)
THEOREM TypeCorrect == Spec => []TypeOK
<1>1. Init => TypeOK
  BY TypeInit
<1>2. TypeOK /\ [Next]_vars => TypeOK'
  BY TypeStep
<1> QED
  BY <1>1, <1>2, PTL DEF Spec

-----------------------------------------------------------------------------
(* How the steps of one task leave the invariants of all composite tasks.  *)

(* t, which is not yet with a handler, is queued, taken or dropped. *)
LEMMA TreeMove ==
  ASSUME TypeOK, TreeInv, NEW t \in Tasks, stage[t] \in {"new", "queued", "taken"},
         stage[t] = "new" => Parent[t] = NoTask,
         NEW to \in {"queued", "taken", "skipped", "routed"},
         stage' = [stage EXCEPT ![t] = to], UNCHANGED <<pos, outcome, inner>>
  PROVE  TreeInv'
<1>1. stage \in [Tasks -> {"new", "queued", "taken", "skipped", "routed", "waiting"}]
  BY DEF TypeOK, TaskTypeOK
<1>2. ASSUME NEW p \in Tasks, Kind[p] = "seq" PROVE SeqTaskInv(p)'
  <2>1. SeqTaskInv(p)
    BY <1>2 DEF TreeInv
  <2>2. \A i \in 1 .. Len(Children[p]) : i > pos[p] => Children[p][i] # t
    BY <2>1, SubtaskFacts DEF SeqTaskInv
  <2> QED BY <1>1, <2>1, <2>2, SubtaskFacts DEF SeqTaskInv, LastOutcome
<1>3. ASSUME NEW p \in Tasks, Parallel(p) PROVE ParTaskInv(p)'
  <2>1. ParTaskInv(p)
    BY <1>3 DEF TreeInv
  <2> QED BY <1>1, <2>1, SubtaskFacts DEF ParTaskInv
<1> QED
  BY <1>2, <1>3 DEF TreeInv

(* t signals how it ended. *)
LEMMA TreeSignal ==
  ASSUME TypeOK, TreeInv, NEW t \in Tasks, outcome[t] = "none", NEW how \in {"ok", "failed"},
         outcome' = [outcome EXCEPT ![t] = how], UNCHANGED <<stage, pos, inner>>,
         Kind[t] = "seq" => how = LastOutcome(t) /\ (how = "ok" => pos[t] = Len(Children[t])),
         Parallel(t) => /\ how = "ok" => \A c \in Subtasks(t) : outcome[c] = "ok"
                        /\ how = "failed" => inner[t] = "failed"
  PROVE  TreeInv'
<1>1. outcome \in [Tasks -> {"none", "ok", "failed"}] /\ pos \in [Tasks -> Nat]
  BY DEF TypeOK, TaskTypeOK, Outcomes
<1>2. ASSUME NEW p \in Tasks, Kind[p] = "seq" PROVE SeqTaskInv(p)'
  <2>1. SeqTaskInv(p)
    BY <1>2 DEF TreeInv
  <2>2. pos[p] # 0 => pos[p] \in 1 .. Len(Children[p]) /\ Children[p][pos[p]] \in Tasks
    BY <1>1, <2>1, SubtaskFacts DEF SeqTaskInv
  <2>3. LastOutcome(p) # "none" => LastOutcome(p)' = LastOutcome(p)
    BY <1>1, <2>2 DEF LastOutcome
  <2>4. /\ outcome'[p] # "none" => outcome'[p] = LastOutcome(p)'
        /\ outcome'[p] = "ok" => pos[p] = Len(Children[p])
    BY <1>1, <1>2, <2>1, <2>3 DEF SeqTaskInv
  <2>5. \A i \in 1 .. Len(Children[p]) : i < pos[p] => outcome'[Children[p][i]] = "ok"
    BY <1>1, <2>1, SubtaskFacts DEF SeqTaskInv
  <2> QED BY <2>1, <2>4, <2>5 DEF SeqTaskInv
<1>3. ASSUME NEW p \in Tasks, Parallel(p) PROVE ParTaskInv(p)'
  <2>1. ParTaskInv(p)
    BY <1>3 DEF TreeInv
  <2> QED BY <1>1, <1>3, <2>1, SubtaskFacts DEF ParTaskInv
<1> QED
  BY <1>2, <1>3 DEF TreeInv

(* The context that the handler of t waits on signals. *)
LEMMA TreeInner ==
  ASSUME TypeOK, TreeInv, NEW t \in Tasks, NEW how \in Outcomes,
         inner' = [inner EXCEPT ![t] = how], UNCHANGED <<stage, pos, outcome>>,
         Parallel(t) => /\ how = "ok" => \A c \in Subtasks(t) : outcome[c] = "ok"
                        /\ how = "failed" => \E c \in Subtasks(t) : outcome[c] = "failed"
                        /\ inner[t] = "failed" => how = "failed"
  PROVE  TreeInv'
<1>1. inner \in [Tasks -> Outcomes]
  BY DEF TypeOK, TaskTypeOK
<1>2. ASSUME NEW p \in Tasks, Kind[p] = "seq" PROVE SeqTaskInv(p)'
  BY <1>2 DEF TreeInv, SeqTaskInv, LastOutcome
<1>3. ASSUME NEW p \in Tasks, Parallel(p) PROVE ParTaskInv(p)'
  <2>1. ParTaskInv(p)
    BY <1>3 DEF TreeInv
  <2> QED BY <1>1, <1>3, <2>1 DEF ParTaskInv
<1> QED
  BY <1>2, <1>3 DEF TreeInv

(* A sequential task submits its next subtask. *)
LEMMA TreeSubmit ==
  ASSUME TypeOK, TreeInv, NEW t \in Tasks, SequentialSubmit(t)
  PROVE  TreeInv' /\ stage[Children[t][pos[t] + 1]] = "new"
<1> DEFINE c == Children[t][pos[t] + 1]
<1>1. /\ outcome \in [Tasks -> Outcomes] /\ pos \in [Tasks -> Nat]
      /\ stage \in [Tasks -> {"new", "queued", "taken", "skipped", "routed", "waiting"}]
  BY DEF TypeOK, TaskTypeOK
<1>2. /\ Kind[t] = "seq" /\ stage[t] = "routed" /\ outcome[t] = "none"
      /\ LastOutcome(t) = "ok" /\ pos[t] < Len(Children[t])
      /\ stage' = [stage EXCEPT ![c] = "queued"]
      /\ pos' = [pos EXCEPT ![t] = pos[t] + 1]
      /\ UNCHANGED <<outcome, inner>>
  BY DEF SequentialSubmit, Routed
<1>3. pos[t] + 1 \in 1 .. Len(Children[t]) /\ c \in Tasks /\ Parent[c] = t
  BY <1>2, NextSubtask, SubtaskFacts DEF TypeOK
<1>4. SeqTaskInv(t)
  BY <1>2 DEF TreeInv
<1>5. stage[c] = "new" /\ c # t
  BY <1>1, <1>2, <1>3, <1>4 DEF SeqTaskInv
<1>6. \A i \in 1 .. Len(Children[t]) : i # pos[t] + 1 => Children[t][i] # c
  BY <1>3, TreeAssumption
<1> HIDE DEF c
<1>7. SeqTaskInv(t)'
  <2>1. pos'[t] = pos[t] + 1 /\ stage'[t] = "routed" /\ outcome'[t] = "none"
    BY <1>1, <1>2, <1>3, <1>5
  <2>2. ASSUME NEW i \in 1 .. Len(Children[t]), i > pos[t] + 1 PROVE stage'[Children[t][i]] = "new"
    BY <1>1, <1>2, <1>4, <1>6, <2>2, SubtaskFacts DEF SeqTaskInv
  <2>3. ASSUME NEW i \in 1 .. Len(Children[t]), i < pos[t] + 1
        PROVE  outcome[Children[t][i]] = "ok"
    BY <1>1, <1>2, <1>4, <2>3 DEF SeqTaskInv, LastOutcome
  <2> QED BY <1>1, <1>2, <2>1, <2>2, <2>3, <1>3 DEF SeqTaskInv
<1>8. ASSUME NEW p \in Tasks, Kind[p] = "seq", p # t PROVE SeqTaskInv(p)'
  <2>1. SeqTaskInv(p)
    BY <1>8 DEF TreeInv
  <2>2. pos'[p] = pos[p] /\ \A i \in 1 .. Len(Children[p]) : Children[p][i] # c
    <3>1. pos'[p] = pos[p]
      BY <1>1, <1>2, <1>8
    <3> QED BY <3>1, <1>3, <1>8, SubtaskFacts
  <2>3. pos[p] # 0 => stage'[p] = "routed"
    BY <1>1, <1>2, <1>5, <2>1 DEF SeqTaskInv
  <2> QED BY <1>1, <1>2, <2>1, <2>2, <2>3, SubtaskFacts, SMTT(30) DEF SeqTaskInv, LastOutcome
<1>9. ASSUME NEW p \in Tasks, Parallel(p) PROVE ParTaskInv(p)'
  <2>1. ParTaskInv(p) /\ p # t
    BY <1>2, <1>9 DEF TreeInv, Parallel
  <2>2. \A u \in Subtasks(p) : u # c
    BY <1>3, <2>1, SubtaskFacts
  <2> QED BY <1>1, <1>2, <1>3, <1>5, <2>1, <2>2, SubtaskFacts DEF ParTaskInv
<1> QED
  BY <1>5, <1>7, <1>8, <1>9 DEF TreeInv, c

(* A parallel task queues all its subtasks. *)
LEMMA TreeFanOut ==
  ASSUME TypeOK, TreeInv, NEW t \in Tasks, HandleParallel(t)
  PROVE  TreeInv' /\ \A c \in Subtasks(t) : stage[c] = "new"
<1>1. stage \in [Tasks -> {"new", "queued", "taken", "skipped", "routed", "waiting"}]
  BY DEF TypeOK, TaskTypeOK
<1>2. /\ Parallel(t) /\ Kind[t] # "seq" /\ stage[t] = "routed" /\ outcome[t] = "none"
      /\ stage' = [u \in Tasks |-> IF u = t THEN "waiting"
                                   ELSE IF u \in Subtasks(t) THEN "queued" ELSE stage[u]]
      /\ UNCHANGED <<pos, outcome, inner>>
  BY DEF HandleParallel, Routed, Parallel
<1>3. \A c \in Subtasks(t) : stage[c] = "new" /\ c \in Tasks
  BY <1>2, SubtaskFacts DEF TreeInv, ParTaskInv
<1>4. ASSUME NEW p \in Tasks, Kind[p] = "seq" PROVE SeqTaskInv(p)'
  <2>1. SeqTaskInv(p) /\ p # t
    BY <1>2, <1>4 DEF TreeInv
  <2>2. \A i \in 1 .. Len(Children[p]) : Children[p][i] \notin Subtasks(t)
    BY <2>1, SubtaskFacts
  <2>3. pos[p] # 0 => stage'[p] = "routed"
    BY <1>2, <1>3, <2>1 DEF SeqTaskInv
  <2>4. \A i \in 1 .. Len(Children[p]) : i > pos[p] => stage'[Children[p][i]] = "new"
    BY <1>1, <1>2, <2>1, <2>2, SubtaskFacts DEF SeqTaskInv
  <2> QED BY <1>2, <2>1, <2>3, <2>4 DEF SeqTaskInv, LastOutcome
<1>5. ASSUME NEW p \in Tasks, Parallel(p) PROVE ParTaskInv(p)'
  <2>1. ParTaskInv(p)
    BY <1>5 DEF TreeInv
  <2>2. ASSUME stage'[p] # "waiting", NEW c \in Subtasks(p) PROVE stage'[c] = "new"
    <3>1. p # t /\ stage[p] # "waiting"
      BY <1>1, <1>2, <1>3, <2>2
    <3>2. c \in Tasks /\ c \notin Subtasks(t) /\ stage[c] = "new"
      BY <2>1, <3>1, SubtaskFacts DEF ParTaskInv
    <3> QED BY <1>2, <3>2
  <2> QED BY <1>2, <2>1, <2>2 DEF ParTaskInv
<1> QED
  BY <1>3, <1>4, <1>5 DEF TreeInv

(* A one-device command is handed to the device executor. *)
LEMMA TreeDevice ==
  ASSUME TypeOK, TreeInv, NEW t \in Tasks, HandleDevice(t)
  PROVE  TreeInv'
<1>1. stage \in [Tasks -> {"new", "queued", "taken", "skipped", "routed", "waiting"}]
  BY DEF TypeOK, TaskTypeOK
<1>2. /\ Kind[t] = "device" /\ stage[t] = "routed"
      /\ stage' = [stage EXCEPT ![t] = "waiting"]
      /\ UNCHANGED <<pos, outcome, inner>>
  BY DEF HandleDevice, Routed
<1>3. ASSUME NEW p \in Tasks, Kind[p] = "seq" PROVE SeqTaskInv(p)'
  <2>1. SeqTaskInv(p) /\ p # t
    BY <1>2, <1>3 DEF TreeInv
  <2>2. \A i \in 1 .. Len(Children[p]) : i > pos[p] => Children[p][i] # t
    BY <1>2, <2>1 DEF SeqTaskInv
  <2> QED BY <1>1, <1>2, <2>1, <2>2, SubtaskFacts DEF SeqTaskInv, LastOutcome
<1>4. ASSUME NEW p \in Tasks, Parallel(p) PROVE ParTaskInv(p)'
  <2>1. ParTaskInv(p) /\ p # t
    BY <1>2, <1>4 DEF TreeInv, Parallel
  <2> QED BY <1>1, <1>2, <2>1, SubtaskFacts DEF ParTaskInv
<1> QED
  BY <1>3, <1>4 DEF TreeInv

-----------------------------------------------------------------------------
(* The inductive invariant. *)

CoreInv == QueueInv /\ StageInv /\ TreeInv
core == <<client, mainQ, seqQ, parQ, running, stage, pos, outcome, inner>>
DeviceInv == DeviceKind /\ CallInv

LEMMA CoreFrame == CoreInv /\ UNCHANGED core => CoreInv'
BY DEF CoreInv, core, QueueInv, Holds, StageInv, TreeInv, SeqTaskInv, ParTaskInv, LastOutcome

LEMMA DeviceFrame == DeviceInv /\ UNCHANGED <<devQ, device>> => DeviceInv'
BY DEF DeviceInv, DeviceKind, CallInv, device

LEMMA InvInit == Init => IInv
<1> SUFFICES ASSUME Init PROVE IInv
  OBVIOUS
<1>1. TypeOK
  BY TypeInit
<1>2. QueueInv
  BY DEF Init, QueueInv, Holds
<1>3. StageInv
  BY SubtaskFacts, ThreadAssumption DEF Init, StageInv, Threads
<1>4. ASSUME NEW p \in Tasks PROVE SeqTaskInv(p) /\ ParTaskInv(p)
  BY SubtaskFacts DEF Init, SeqTaskInv, ParTaskInv, LastOutcome
<1>5. DeviceKind /\ CallInv
  BY SubtaskFacts DEF Init, DeviceKind, CallInv
<1> QED
  BY <1>1, <1>2, <1>3, <1>4, <1>5 DEF IInv, TreeInv

(* A thread takes the head of a queue. *)
LEMMA TakeStep ==
  ASSUME TypeOK, CoreInv, NEW th \in Threads, NEW t \in Tasks, NEW to \in {"taken", "routed"},
         stage[t] = "queued", Take(th, t, to), UNCHANGED <<client, pos, outcome, inner>>,
         th \in Workers => t \in ParTasks
  PROVE  StageInv' /\ TreeInv'
<1>1. /\ stage \in [Tasks -> {"new", "queued", "taken", "skipped", "routed", "waiting"}]
      /\ running \in [Threads -> Tasks \cup {NoTask}]
  BY DEF TypeOK, TaskTypeOK, ThreadTypeOK
<1>2. /\ stage' = [stage EXCEPT ![t] = to]
      /\ running' = [running EXCEPT ![th] = t]
  BY DEF Take
<1>3. TreeInv'
  BY <1>2, TreeMove DEF CoreInv
<1>4. StageInv'
  <2>1. StageInv
    BY DEF CoreInv
  <2>2. \A j \in Jobs : client'[j] = "idle" => stage'[j] = "new"
    BY <1>1, <1>2, <2>1, SubtaskFacts DEF StageInv
  <2>3. \A u \in Tasks : outcome'[u] # "none" => stage'[u] \in {"routed", "waiting"}
    BY <1>1, <1>2, <2>1 DEF StageInv
  <2>4. \A u \in Tasks : stage'[u] = "waiting" => Kind[u] \in {"par", "multi", "device"}
    BY <1>1, <1>2, <2>1 DEF StageInv
  <2>5. \A w \in Workers : running'[w] \in Tasks => running'[w] \in ParTasks
    BY <1>1, <1>2, <2>1 DEF StageInv, Threads
  <2> QED BY <2>2, <2>3, <2>4, <2>5 DEF StageInv
<1> QED
  BY <1>3, <1>4

(* A handler signals its task. *)
LEMMA SignalStep ==
  ASSUME TypeOK, CoreInv, NEW t \in Tasks, NEW how \in {"ok", "failed"},
         stage[t] \in {"routed", "waiting"}, outcome[t] = "none", Signal(t, how),
         Kind[t] = "seq" => how = LastOutcome(t) /\ (how = "ok" => pos[t] = Len(Children[t])),
         Parallel(t) => /\ how = "ok" => \A c \in Subtasks(t) : outcome[c] = "ok"
                        /\ how = "failed" => inner[t] = "failed"
  PROVE  CoreInv'
<1>1. /\ outcome \in [Tasks -> Outcomes]
      /\ outcome' = [outcome EXCEPT ![t] = how]
      /\ UNCHANGED <<client, mainQ, seqQ, parQ, running, stage, pos, inner>>
  BY DEF TypeOK, TaskTypeOK, Signal, queues
<1>2. TreeInv'
  BY <1>1, TreeSignal DEF CoreInv
<1>3. QueueInv'
  BY <1>1 DEF CoreInv, QueueInv, Holds
<1>4. StageInv'
  BY <1>1 DEF CoreInv, StageInv
<1> QED
  BY <1>2, <1>3, <1>4 DEF CoreInv

LEMMA CoreStep == TypeOK /\ CoreInv /\ DeviceInv /\ [Next]_vars => CoreInv'
<1> SUFFICES ASSUME TypeOK, CoreInv, DeviceInv, [Next]_vars PROVE CoreInv'
  OBVIOUS
<1> USE DEF queues, device, lifetime
<1>a. /\ stage \in [Tasks -> {"new", "queued", "taken", "skipped", "routed", "waiting"}]
      /\ outcome \in [Tasks -> Outcomes] /\ inner \in [Tasks -> Outcomes]
      /\ pos \in [Tasks -> Nat]
      /\ running \in [Threads -> Tasks \cup {NoTask}]
      /\ mainQ \in Seq(Tasks) /\ seqQ \in Seq(Tasks) /\ parQ \in Seq(Tasks)
  BY DEF TypeOK, TaskTypeOK, ThreadTypeOK, QueueTypeOK
<1>b. QueueInv /\ StageInv /\ TreeInv
  BY DEF CoreInv
<1>c. /\ \A t \in Jobs : t \notin SeqTasks /\ t \notin ParTasks
      /\ \A t \in SeqTasks : t \in Tasks /\ t \notin ParTasks
      /\ \A t \in ParTasks : t \in Tasks
      /\ Jobs \subseteq Tasks
  BY SubtaskFacts DEF Jobs, SeqTasks, ParTasks, Parallel
<1>1. ASSUME NEW j \in Jobs, Return(j) PROVE CoreInv'
  <2>1. \A k \in Jobs : client'[k] = "idle" => client[k] = "idle"
    BY <1>1 DEF Return, TypeOK, ClientTypeOK
  <2>2. UNCHANGED <<mainQ, seqQ, parQ, running, stage, pos, outcome, inner>>
    BY <1>1 DEF Return
  <2>3. StageInv'
    BY <1>b, <2>1, <2>2 DEF StageInv
  <2> QED BY <1>b, <2>2, <2>3 DEF CoreInv, QueueInv, Holds, TreeInv, SeqTaskInv, ParTaskInv,
                                 LastOutcome
<1>2. CASE MainTake
  <2>1. /\ mainQ # <<>> /\ Take("main", Head(mainQ), "routed") /\ mainQ' = Tail(mainQ)
        /\ UNCHANGED <<client, seqQ, parQ, pos, outcome, inner>>
        /\ stage' = [stage EXCEPT ![Head(mainQ)] = "routed"]
    BY <1>2 DEF MainTake, Take
  <2>2. /\ Head(mainQ) \in Tasks /\ Head(mainQ) \in Jobs /\ stage[Head(mainQ)] = "queued"
        /\ Holds(mainQ', Jobs, stage')
    BY <1>a, <1>b, <2>1, QueueTail DEF QueueInv
  <2>3. Holds(seqQ', SeqTasks, stage') /\ Holds(parQ', ParTasks, stage')
    BY <1>a, <1>b, <1>c, <2>1, <2>2, QueueFrame DEF QueueInv
  <2>4. StageInv' /\ TreeInv'
    BY <2>1, <2>2, TakeStep, ThreadAssumption DEF Threads
  <2> QED BY <2>2, <2>3, <2>4 DEF CoreInv, QueueInv
<1>3. CASE SeqTake
  <2>1. /\ seqQ # <<>> /\ Take("seq", Head(seqQ), "routed") /\ seqQ' = Tail(seqQ)
        /\ UNCHANGED <<client, mainQ, parQ, pos, outcome, inner>>
        /\ stage' = [stage EXCEPT ![Head(seqQ)] = "routed"]
    BY <1>3 DEF SeqTake, Take
  <2>2. /\ Head(seqQ) \in Tasks /\ Head(seqQ) \in SeqTasks /\ stage[Head(seqQ)] = "queued"
        /\ Holds(seqQ', SeqTasks, stage')
    BY <1>a, <1>b, <2>1, QueueTail DEF QueueInv
  <2>3. Holds(mainQ', Jobs, stage') /\ Holds(parQ', ParTasks, stage')
    BY <1>a, <1>b, <1>c, <2>1, <2>2, QueueFrame DEF QueueInv
  <2>4. StageInv' /\ TreeInv'
    BY <2>1, <2>2, TakeStep, ThreadAssumption DEF Threads
  <2> QED BY <2>2, <2>3, <2>4 DEF CoreInv, QueueInv
<1>4. ASSUME NEW th \in {"main", "seq"}, Done(th) PROVE CoreInv'
  <2>1. /\ running' = [running EXCEPT ![th] = NoTask]
        /\ UNCHANGED <<client, mainQ, seqQ, parQ, stage, pos, outcome, inner>>
    BY <1>4 DEF Done, BackToLoop
  <2>2. StageInv'
    BY <1>a, <1>b, <2>1, SubtaskFacts DEF StageInv, Threads
  <2> QED BY <1>b, <2>1, <2>2 DEF CoreInv, QueueInv, Holds, TreeInv, SeqTaskInv, ParTaskInv,
                                 LastOutcome
<1>5. ASSUME NEW w \in Workers, WorkerTake(w) PROVE CoreInv'
  <2>1. /\ parQ # <<>> /\ Take(w, Head(parQ), "taken") /\ parQ' = Tail(parQ)
        /\ UNCHANGED <<client, mainQ, seqQ, pos, outcome, inner>>
        /\ stage' = [stage EXCEPT ![Head(parQ)] = "taken"]
    BY <1>5 DEF WorkerTake, Take
  <2>2. /\ Head(parQ) \in Tasks /\ Head(parQ) \in ParTasks /\ stage[Head(parQ)] = "queued"
        /\ Holds(parQ', ParTasks, stage')
    BY <1>a, <1>b, <2>1, QueueTail DEF QueueInv
  <2>3. Holds(mainQ', Jobs, stage') /\ Holds(seqQ', SeqTasks, stage')
    BY <1>a, <1>b, <1>c, <2>1, <2>2, QueueFrame DEF QueueInv
  <2>4. StageInv' /\ TreeInv'
    BY <2>1, <2>2, TakeStep DEF Threads
  <2> QED BY <2>2, <2>3, <2>4 DEF CoreInv, QueueInv
<1>6. ASSUME NEW w \in Workers, NEW to \in {"skipped", "routed"}, running[w] \in Tasks,
             stage[running[w]] = "taken", stage' = [stage EXCEPT ![running[w]] = to],
             running' \in {running, [running EXCEPT ![w] = NoTask]},
             UNCHANGED <<client, mainQ, seqQ, parQ, pos, outcome, inner>>
      PROVE  CoreInv'
  <2> DEFINE t == running[w]
  <2>1. TreeInv'
    BY <1>b, <1>6, TreeMove
  <2>2. QueueInv'
    <3>1. \A u \in Tasks : stage[u] = "queued" => stage'[u] = "queued"
      BY <1>a, <1>6
    <3>2. UNCHANGED <<mainQ, seqQ, parQ>>
      BY <1>6
    <3> QED BY <1>b, <1>c, <3>1, <3>2, QueueFrame DEF QueueInv
  <2>3. \A j \in Jobs : client'[j] = "idle" => stage'[j] = "new"
    BY <1>a, <1>b, <1>c, <1>6 DEF StageInv
  <2>4. /\ \A u \in Tasks : outcome'[u] # "none" => stage'[u] \in {"routed", "waiting"}
        /\ \A u \in Tasks : stage'[u] = "waiting" => Kind[u] \in {"par", "multi", "device"}
    BY <1>a, <1>b, <1>6 DEF StageInv
  <2>5. \A v \in Workers : running'[v] \in Tasks => running'[v] \in ParTasks
    <3>1. ASSUME NEW v \in Workers, running'[v] \in Tasks PROVE running'[v] = running[v]
      BY <1>a, <1>6, <3>1, SubtaskFacts DEF Threads
    <3> QED BY <1>b, <3>1 DEF StageInv
  <2> QED BY <2>1, <2>2, <2>3, <2>4, <2>5 DEF CoreInv, StageInv
<1>7. ASSUME NEW w \in Workers, WorkerSkip(w) \/ WorkerRoute(w) PROVE CoreInv'
  <2>1. running[w] \in Tasks /\ stage[running[w]] = "taken"
    BY <1>a, <1>7 DEF WorkerSkip, WorkerRoute, Threads
  <2>2. CASE WorkerSkip(w)
    BY <1>6, <2>1, <2>2 DEF WorkerSkip, BackToLoop
  <2>3. CASE WorkerRoute(w)
    BY <1>6, <2>1, <2>3 DEF WorkerRoute
  <2> QED BY <1>7, <2>2, <2>3
<1>8. ASSUME NEW w \in Workers, WorkerDone(w) PROVE CoreInv'
  <2> DEFINE t == running[w]
             p == Parent[t]
  <2>1. t \in Tasks /\ t \in ParTasks
    BY <1>a, <1>b, <1>8 DEF WorkerDone, StageInv, Threads
  <2>2. p \in Tasks /\ Parallel(p) /\ t \in Subtasks(p)
    BY <2>1, SubtaskFacts DEF ParTasks
  <2>3. /\ inner' = [inner EXCEPT ![p] = Joined(t)] /\ outcome[t] # "none"
        /\ running' = [running EXCEPT ![w] = NoTask]
        /\ UNCHANGED <<client, mainQ, seqQ, parQ, stage, pos, outcome>>
    BY <1>8 DEF WorkerDone, BackToLoop
  <2>4. ParTaskInv(p)
    BY <1>b, <2>2 DEF TreeInv
  <2>5. /\ Joined(t) \in Outcomes
        /\ Joined(t) = "ok" => \A c \in Subtasks(p) : outcome[c] = "ok"
        /\ Joined(t) = "failed" => \E c \in Subtasks(p) : outcome[c] = "failed"
        /\ inner[p] = "failed" => Joined(t) = "failed"
    BY <1>a, <2>2, <2>4 DEF Joined, ParTaskInv, Outcomes
  <2> HIDE DEF p, t
  <2>6. TreeInv'
    BY <1>b, <2>2, <2>3, <2>5, TreeInner
  <2>7. StageInv'
    BY <1>a, <1>b, <2>3, SubtaskFacts DEF StageInv, Threads
  <2> QED BY <1>b, <2>3, <2>6, <2>7 DEF CoreInv, QueueInv, Holds
<1>9. ASSUME NEW t \in Tasks, HandleNoop(t) \/ HandleLambda(t) PROVE CoreInv'
  <2>1. PICK how \in {"ok", "failed"} : Signal(t, how) /\ (Parallel(t) => how = "ok")
    BY <1>9 DEF HandleNoop, HandleLambda, Routed, Parallel
  <2>2. /\ Kind[t] # "seq" /\ stage[t] = "routed" /\ outcome[t] = "none"
        /\ Parallel(t) => Subtasks(t) = {}
    BY <1>9, SubtaskFacts DEF HandleNoop, HandleLambda, Routed, Parallel, Subtasks
  <2> QED BY <2>1, <2>2, SignalStep
<1>10. ASSUME NEW t \in Tasks, SequentialSubmit(t) PROVE CoreInv'
  <2> DEFINE c == Children[t][pos[t] + 1]
  <2>1. /\ Kind[t] = "seq" /\ pos[t] < Len(Children[t])
        /\ seqQ' = Append(seqQ, c) /\ stage' = [stage EXCEPT ![c] = "queued"]
        /\ UNCHANGED <<client, mainQ, parQ, running, outcome, inner>>
    BY <1>10 DEF SequentialSubmit, Routed
  <2>2. c \in Tasks /\ c \in SeqTasks
    BY <2>1, NextSubtask, SubtaskFacts DEF TypeOK, SeqTasks
  <2>3. TreeInv' /\ stage[c] = "new"
    BY <1>b, <1>10, TreeSubmit
  <2> HIDE DEF c
  <2>4. Holds(seqQ', SeqTasks, stage')
    BY <1>a, <1>b, <2>1, <2>2, <2>3, QueueAppend DEF QueueInv
  <2>5. \A u \in Tasks : stage[u] = "queued" => stage'[u] = "queued"
    BY <1>a, <2>1, <2>2
  <2>6. Holds(mainQ', Jobs, stage') /\ Holds(parQ', ParTasks, stage')
    BY <1>b, <1>c, <2>1, <2>5, QueueFrame DEF QueueInv
  <2>7. StageInv'
    BY <1>a, <1>b, <1>c, <2>1, <2>2, <2>3 DEF StageInv
  <2> QED BY <2>3, <2>4, <2>6, <2>7 DEF CoreInv, QueueInv
<1>11. ASSUME NEW t \in Tasks, SequentialEnd(t) PROVE CoreInv'
  <2>1. /\ Kind[t] = "seq" /\ stage[t] = "routed" /\ outcome[t] = "none"
        /\ Signal(t, LastOutcome(t)) /\ LastOutcome(t) # "none"
        /\ LastOutcome(t) = "ok" => pos[t] = Len(Children[t])
    BY <1>11 DEF SequentialEnd, Routed
  <2>2. LastOutcome(t) \in {"ok", "failed"}
    <3>1. pos[t] # 0 => Children[t][pos[t]] \in Tasks
      <4>1. pos[t] # 0 => pos[t] \in 1 .. Len(Children[t])
        BY SubtaskFacts DEF TypeOK, TaskTypeOK
      <4> QED BY <4>1, SubtaskFacts
    <3> QED BY <1>a, <2>1, <3>1 DEF LastOutcome, Outcomes
  <2> QED BY <2>1, <2>2, SignalStep DEF Parallel
<1>12. ASSUME NEW t \in Tasks, HandleParallel(t) PROVE CoreInv'
  <2>1. /\ Parallel(t) /\ stage[t] = "routed"
        /\ stage' = [u \in Tasks |-> IF u = t THEN "waiting"
                                     ELSE IF u \in Subtasks(t) THEN "queued" ELSE stage[u]]
        /\ parQ' = parQ \o Children[t]
        /\ UNCHANGED <<client, mainQ, seqQ, running, outcome, inner>>
    BY <1>12 DEF HandleParallel, Routed, Parallel
  <2>2. TreeInv' /\ \A c \in Subtasks(t) : stage[c] = "new"
    BY <1>b, <1>12, TreeFanOut
  <2>3. t \notin Subtasks(t) /\ \A c \in Subtasks(t) : c \in Tasks /\ c \in ParTasks
    BY <2>1, <2>2, SubtaskFacts DEF ParTasks
  <2>4. \A u \in Tasks : stage[u] = "queued" => stage'[u] = "queued"
    BY <2>1, <2>2
  <2>5. Holds(parQ', ParTasks, stage')
    <3>1. \A i \in 1 .. Len(Children[t]) : /\ Children[t][i] \in ParTasks
                                          /\ stage[Children[t][i]] # "queued"
                                          /\ stage'[Children[t][i]] = "queued"
      BY <2>1, <2>2, <2>3, SubtaskFacts
    <3>2. \A i, k \in 1 .. Len(Children[t]) : Children[t][i] = Children[t][k] => i = k
      BY TreeAssumption
    <3>3. stage' \in [Tasks -> {"new", "queued", "taken", "skipped", "routed", "waiting"}]
      BY <1>a, <2>1
    <3>4. Holds(parQ, ParTasks, stage) /\ Children[t] \in Seq(Tasks)
      BY <1>b, SubtaskFacts DEF QueueInv
    <3>5. Holds(parQ \o Children[t], ParTasks, stage')
      BY <1>a, <2>4, <3>1, <3>2, <3>3, <3>4, QueueConcat
    <3> QED BY <2>1, <3>5
  <2>6. Holds(mainQ', Jobs, stage') /\ Holds(seqQ', SeqTasks, stage')
    BY <1>b, <1>c, <2>1, <2>4, QueueFrame DEF QueueInv
  <2>7. \A j \in Jobs : client'[j] = "idle" => stage'[j] = "new"
    BY <1>b, <1>c, <2>1, <2>3 DEF StageInv
  <2>8. /\ \A u \in Tasks : outcome'[u] # "none" => stage'[u] \in {"routed", "waiting"}
        /\ \A u \in Tasks : stage'[u] = "waiting" => Kind[u] \in {"par", "multi", "device"}
        /\ \A w \in Workers : running'[w] \in Tasks => running'[w] \in ParTasks
    BY <1>b, <2>1, <2>2 DEF StageInv, Parallel
  <2> QED BY <2>2, <2>5, <2>6, <2>7, <2>8 DEF CoreInv, QueueInv, StageInv
<1>13. ASSUME NEW t \in Tasks, HandleDevice(t) PROVE CoreInv'
  <2>1. /\ Kind[t] = "device" /\ stage[t] = "routed"
        /\ stage' = [stage EXCEPT ![t] = "waiting"]
        /\ UNCHANGED <<client, mainQ, seqQ, parQ, running, outcome, inner>>
    BY <1>13 DEF HandleDevice, Routed
  <2>2. TreeInv'
    BY <1>b, <1>13, TreeDevice
  <2>3. \A u \in Tasks : stage[u] = "queued" => stage'[u] = "queued"
    BY <1>a, <2>1
  <2>4. QueueInv'
    BY <1>b, <1>c, <2>1, <2>3, QueueFrame DEF QueueInv
  <2>5. StageInv'
    BY <1>a, <1>b, <1>c, <2>1 DEF StageInv
  <2> QED BY <2>2, <2>4, <2>5 DEF CoreInv
<1>14. ASSUME NEW t \in Tasks, HandlerReturn(t) PROVE CoreInv'
  <2>1. /\ stage[t] = "waiting" /\ outcome[t] = "none" /\ inner[t] \in {"ok", "failed"}
        /\ Signal(t, inner[t])
    BY <1>a, <1>14 DEF HandlerReturn, Outcomes
  <2>2. Kind[t] # "seq" /\ (Parallel(t) => ParTaskInv(t))
    BY <1>b, <2>1 DEF StageInv, TreeInv
  <2> QED BY <2>1, <2>2, SignalStep DEF ParTaskInv
<1>15. CASE HandleReply
  <2>1. UNCHANGED <<client, mainQ, seqQ, parQ, running, stage, pos, outcome>>
    BY <1>15 DEF HandleReply
  <2>2. CASE inner' = inner
    BY <2>1, <2>2, CoreFrame DEF core
  <2>3. CASE inner' # inner
    <3>1. devTask \in Tasks /\ Kind[devTask] = "device"
      BY <1>15 DEF HandleReply, TypeOK, DeviceTypeOK, DeviceInv, DeviceKind
    <3>2. PICK how \in Outcomes : inner' = [inner EXCEPT ![devTask] = how]
      BY <1>15, <2>3 DEF HandleReply, Outcomes
    <3>3. TreeInv'
      BY <1>b, <2>1, <3>1, <3>2, TreeInner DEF Parallel
    <3> QED BY <1>b, <2>1, <3>3 DEF CoreInv, QueueInv, Holds, StageInv
  <2> QED BY <2>2, <2>3
<1>16. ASSUME NEW e \in events, HandleEvent(e) PROVE CoreInv'
  <2>1. UNCHANGED <<client, mainQ, seqQ, parQ, running, stage, pos, outcome>>
    BY <1>16 DEF HandleEvent
  <2>2. CASE e.task \notin cmdMap
    BY <1>16, <2>1, <2>2, CoreFrame DEF core, HandleEvent
  <2>3. CASE e.task \in cmdMap
    <3>1. e.task \in Tasks /\ Kind[e.task] = "device"
      BY <2>3 DEF TypeOK, DeviceTypeOK, DeviceInv, DeviceKind
    <3>2. PICK how \in Outcomes : inner' = [inner EXCEPT ![e.task] = how]
      BY <1>16, <2>3 DEF HandleEvent, Outcomes
    <3>3. TreeInv'
      BY <1>b, <2>1, <3>1, <3>2, TreeInner DEF Parallel
    <3> QED BY <1>b, <2>1, <3>3 DEF CoreInv, QueueInv, Holds, StageInv
  <2> QED BY <2>2, <2>3
<1>17. ASSUME NEW j \in Jobs, Submit(j) PROVE CoreInv'
  <2>1. /\ client[j] = "idle" /\ client' = [client EXCEPT ![j] = "waiting"]
        /\ mainQ' = Append(mainQ, j) /\ stage' = [stage EXCEPT ![j] = "queued"]
        /\ UNCHANGED <<seqQ, parQ, running, pos, outcome, inner>>
    BY <1>17 DEF Submit
  <2>2. j \in Tasks /\ stage[j] = "new" /\ Parent[j] = NoTask
    BY <1>b, <1>c, <2>1 DEF StageInv, Jobs
  <2>3. TreeInv'
    BY <1>b, <2>1, <2>2, TreeMove
  <2>4. Holds(mainQ', Jobs, stage')
    BY <1>a, <1>b, <2>1, <2>2, QueueAppend DEF QueueInv
  <2>5. \A u \in Tasks : stage[u] = "queued" => stage'[u] = "queued"
    BY <1>a, <2>1, <2>2
  <2>6. Holds(seqQ', SeqTasks, stage') /\ Holds(parQ', ParTasks, stage')
    BY <1>b, <1>c, <2>1, <2>5, QueueFrame DEF QueueInv
  <2>7. \A k \in Jobs : client'[k] = "idle" => stage'[k] = "new"
    BY <1>a, <1>b, <1>c, <2>1, <2>2 DEF StageInv, TypeOK, ClientTypeOK
  <2>8. /\ \A u \in Tasks : outcome'[u] # "none" => stage'[u] \in {"routed", "waiting"}
        /\ \A u \in Tasks : stage'[u] = "waiting" => Kind[u] \in {"par", "multi", "device"}
        /\ \A w \in Workers : running'[w] \in Tasks => running'[w] \in ParTasks
    BY <1>a, <1>b, <2>1, <2>2 DEF StageInv
  <2> QED BY <2>3, <2>4, <2>6, <2>7, <2>8 DEF CoreInv, QueueInv, StageInv
<1>18. CASE UNCHANGED core
  BY <1>18, CoreFrame
<1>19. ASSUME \/ \E t \in Tasks : DeviceFinish(t)
              \/ DevTake \/ SubscribeFails \/ SendCommand \/ DeviceReply
              \/ \E th \in Threads : Leave(th)
              \/ PoolsStopped \/ DevLeave \/ Stopped \/ Stop \/ UNCHANGED vars
       PROVE  CoreInv'
  BY <1>18, <1>19 DEF core, DeviceFinish, DevTake, SubscribeFails, SendCommand, DeviceReply, Leave,
                     PoolsStopped, DevLeave, Stopped, Stop, vars
<1> QED
  BY <1>1, <1>2, <1>3, <1>4, <1>5, <1>7, <1>8, <1>9, <1>10, <1>11, <1>12, <1>13, <1>14, <1>15,
     <1>16, <1>17, <1>19
  DEF Next, Progress

LEMMA DeviceStep == TypeOK /\ DeviceInv /\ [Next]_vars => DeviceInv'
<1> SUFFICES ASSUME TypeOK, DeviceInv, [Next]_vars PROVE DeviceInv'
  OBVIOUS
<1>a. /\ devQ \in Seq(Tasks) /\ devTask \in Tasks \cup {NoTask} /\ NoTask \notin Tasks
      /\ remote \in [Tasks -> {"none", "requested", "running", "ok", "failed"}]
  BY TreeAssumption DEF TypeOK, QueueTypeOK, DeviceTypeOK
<1>1. ASSUME NEW t \in Tasks, HandleDevice(t) PROVE DeviceInv'
  <2>1. /\ devQ' = Append(devQ, t) /\ Kind[t] = "device"
        /\ UNCHANGED <<devTask, cmdMap, locked, reply, remote>>
    BY <1>1 DEF HandleDevice, Routed, device
  <2>2. \A i \in 1 .. Len(devQ') : devQ'[i] = t \/ \E k \in 1 .. Len(devQ) : devQ'[i] = devQ[k]
    BY <1>a, <2>1
  <2> QED BY <2>1, <2>2 DEF DeviceInv, DeviceKind, CallInv
<1>2. CASE DevTake
  <2>1. /\ devQ # <<>> /\ devTask = NoTask /\ devTask' = Head(devQ) /\ devQ' = Tail(devQ)
        /\ UNCHANGED <<cmdMap, locked, reply, remote>>
    BY <1>2 DEF DevTake
  <2>2. /\ 1 \in 1 .. Len(devQ) /\ Head(devQ) = devQ[1]
        /\ \A i \in 1 .. Len(Tail(devQ)) :
             i + 1 \in 1 .. Len(devQ) /\ Tail(devQ)[i] = devQ[i + 1]
    BY <1>a, <2>1
  <2> QED BY <1>a, <2>1, <2>2 DEF DeviceInv, DeviceKind, CallInv
<1>3. CASE SubscribeFails
  BY <1>3, <1>a DEF SubscribeFails, queues, DeviceInv, DeviceKind, CallInv
<1>4. CASE SendCommand
  BY <1>4, <1>a DEF SendCommand, queues, DeviceInv, DeviceKind, CallInv
<1>5. CASE DeviceReply
  BY <1>5, <1>a DEF DeviceReply, queues, DeviceInv, DeviceKind, CallInv
<1>6. CASE HandleReply
  BY <1>6, <1>a DEF HandleReply, queues, DeviceInv, DeviceKind, CallInv
<1>7. ASSUME NEW e \in events, HandleEvent(e) PROVE DeviceInv'
  BY <1>7 DEF HandleEvent, queues, DeviceInv, DeviceKind, CallInv
<1>8. ASSUME NEW t \in Tasks, DeviceFinish(t) PROVE DeviceInv'
  BY <1>8, <1>a DEF DeviceFinish, queues, DeviceInv, DeviceKind, CallInv
<1>9. CASE Stopped
  BY <1>9 DEF Stopped, queues, DeviceInv, DeviceKind, CallInv
<1>10. ASSUME \/ \E j \in Jobs : Return(j) \/ Submit(j)
              \/ MainTake \/ SeqTake
              \/ \E th \in Threads : Done(th) \/ Leave(th)
              \/ \E w \in Workers : WorkerTake(w) \/ WorkerSkip(w) \/ WorkerRoute(w) \/ WorkerDone(w)
       PROVE  DeviceInv'
  BY <1>10, DeviceFrame
  DEF Return, Submit, MainTake, SeqTake, Done, Leave, WorkerTake, WorkerSkip, WorkerRoute,
      WorkerDone, queues
<1>11. ASSUME NEW t \in Tasks,
              \/ HandleNoop(t) \/ HandleLambda(t) \/ SequentialSubmit(t) \/ SequentialEnd(t)
              \/ HandleParallel(t) \/ HandlerReturn(t)
       PROVE  DeviceInv'
  BY <1>11, DeviceFrame
  DEF HandleNoop, HandleLambda, SequentialSubmit, SequentialEnd, HandleParallel, HandlerReturn,
      Signal, queues
<1>12. CASE PoolsStopped \/ DevLeave \/ Stop \/ UNCHANGED vars
  BY <1>12, DeviceFrame DEF PoolsStopped, DevLeave, Stop, vars, queues, device
<1> QED
  BY <1>1, <1>2, <1>3, <1>4, <1>5, <1>6, <1>7, <1>8, <1>9, <1>10, <1>11, <1>12
  DEF Next, Progress, Threads

(* IInv is an invariant of the executor. *)
THEOREM Invariance == Spec => []IInv
<1>1. Init => IInv
  BY InvInit
<1>2. IInv /\ [Next]_vars => IInv'
  BY TypeStep, CoreStep, DeviceStep DEF IInv, CoreInv, DeviceInv
<1> QED
  BY <1>1, <1>2, PTL DEF Spec

-----------------------------------------------------------------------------
(* Success is real. *)

(* What the steps have to do with the life of a command at its device. *)
LEMMA RemoteSteps ==
  [Next]_vars =>
    SendCommand \/ DeviceReply \/ (\E u \in Tasks : DeviceFinish(u)) \/ UNCHANGED remote
<1> SUFFICES ASSUME [Next]_vars
             PROVE  SendCommand \/ DeviceReply \/ (\E u \in Tasks : DeviceFinish(u)) \/ UNCHANGED remote
  OBVIOUS
<1> USE DEF device
<1>1. CASE \/ \E j \in Jobs : Return(j) \/ Submit(j)
           \/ MainTake \/ SeqTake
           \/ \E th \in Threads : Done(th) \/ Leave(th)
           \/ \E w \in Workers : WorkerTake(w) \/ WorkerSkip(w) \/ WorkerRoute(w) \/ WorkerDone(w)
  BY <1>1 DEF Return, Submit, MainTake, SeqTake, Done, Leave, WorkerTake, WorkerSkip,
              WorkerRoute, WorkerDone
<1>2. CASE \E u \in Tasks : \/ HandleNoop(u) \/ HandleLambda(u) \/ SequentialSubmit(u)
                            \/ SequentialEnd(u) \/ HandleParallel(u) \/ HandleDevice(u)
                            \/ HandlerReturn(u)
  BY <1>2 DEF HandleNoop, HandleLambda, SequentialSubmit, SequentialEnd, HandleParallel,
              HandleDevice, HandlerReturn, Signal
<1>3. CASE \/ DevTake \/ SubscribeFails \/ HandleReply \/ \E e \in events : HandleEvent(e)
           \/ PoolsStopped \/ DevLeave \/ Stop \/ Stopped \/ UNCHANGED vars
  BY <1>3 DEF DevTake, SubscribeFails, HandleReply, HandleEvent, PoolsStopped, DevLeave, Stop,
              Stopped, vars
<1> QED BY <1>1, <1>2, <1>3 DEF Next, Progress, Threads

(* What a device once did well stays done. *)
LEMMA OkStays ==
  TypeOK /\ CallInv /\ [Next]_vars =>
    \A t \in Tasks : remote[t] = "ok" => remote'[t] = "ok"
<1> SUFFICES ASSUME TypeOK, CallInv, [Next]_vars, NEW t \in Tasks, remote[t] = "ok"
             PROVE  remote'[t] = "ok"
  OBVIOUS
<1>a. remote \in [Tasks -> {"none", "requested", "running", "ok", "failed"}]
  BY DEF TypeOK, DeviceTypeOK
<1>1. CASE SendCommand
  BY <1>1, <1>a DEF SendCommand
<1>2. CASE DeviceReply
  BY <1>2, <1>a DEF DeviceReply, CallInv
<1>3. ASSUME NEW u \in Tasks, DeviceFinish(u) PROVE remote'[t] = "ok"
  BY <1>3, <1>a DEF DeviceFinish
<1>4. CASE UNCHANGED remote
  BY <1>4
<1> QED
  BY <1>1, <1>2, <1>3, <1>4, RemoteSteps

(* Steps that bring no news: no reply, no event and no signal of a device command. *)
LEMMA NewsFrame ==
  ASSUME TypeOK, CallInv, NewsInv, [Next]_vars,
         reply' = "ok" => reply = "ok" /\ devTask' = devTask,
         events' \subseteq events,
         \A t \in Tasks : Kind[t] = "device" =>
            /\ inner'[t] = "ok" => inner[t] = "ok"
            /\ outcome'[t] = "ok" => outcome[t] = "ok" \/ inner[t] = "ok"
  PROVE  NewsInv'
<1>1. \A t \in Tasks : remote[t] = "ok" => remote'[t] = "ok"
  BY OkStays
<1>2. \A e \in events : e.task \in Tasks
  BY DEF TypeOK, DeviceTypeOK
<1>3. reply' = "ok" => devTask' \in Tasks /\ remote'[devTask'] = "ok"
  BY <1>1 DEF NewsInv
<1>4. \A e \in events' : e.parses => remote'[e.task] = "ok"
  BY <1>1, <1>2 DEF NewsInv
<1>5. \A t \in Tasks : Kind[t] = "device" /\ inner'[t] = "ok" => remote'[t] = "ok"
  BY <1>1 DEF NewsInv
<1>6. \A t \in Tasks : Kind[t] = "device" /\ outcome'[t] = "ok" => remote'[t] = "ok"
  BY <1>1 DEF NewsInv
<1> QED
  BY <1>3, <1>4, <1>5, <1>6 DEF NewsInv

LEMMA NewsStep ==
  ASSUME FailureParses = {FALSE}, IInv, NewsInv, [Next]_vars
  PROVE  NewsInv'
<1> USE DEF queues
<1>a. /\ TypeOK /\ CoreInv /\ DeviceInv /\ CallInv /\ DeviceKind
      /\ remote \in [Tasks -> {"none", "requested", "running", "ok", "failed"}]
      /\ inner \in [Tasks -> Outcomes] /\ outcome \in [Tasks -> Outcomes]
      /\ running \in [Threads -> Tasks \cup {NoTask}]
      /\ events \subseteq [task : Tasks, parses : BOOLEAN]
  BY DEF IInv, CoreInv, DeviceInv, TypeOK, DeviceTypeOK, TaskTypeOK, ThreadTypeOK
<1>b. \A t \in Tasks : remote[t] = "ok" => remote'[t] = "ok"
  BY <1>a, OkStays
<1>1. CASE DeviceReply
  <2>1. /\ devTask \in Tasks /\ devTask' = devTask
        /\ reply' = "ok" => remote'[devTask] = "ok"
        /\ UNCHANGED <<inner, outcome, events>>
    BY <1>1, <1>a DEF DeviceReply, CallInv
  <2> QED BY <1>b, <1>a, <2>1 DEF NewsInv
<1>2. ASSUME NEW t \in Tasks, DeviceFinish(t) PROVE NewsInv'
  <2> PICK how \in {"ok", "failed"}, parses \in BOOLEAN :
         /\ IF how = "ok" THEN parses ELSE parses \in FailureParses
         /\ remote' = [remote EXCEPT ![t] = how]
         /\ events' = events \cup {[task |-> t, parses |-> parses]}
    BY <1>2 DEF DeviceFinish
  <2>1. UNCHANGED <<inner, outcome, reply, devTask>>
    BY <1>2 DEF DeviceFinish
  <2>2. \A e \in events' : e.parses => remote'[e.task] = "ok"
    <3>1. ASSUME NEW e \in events, e.parses PROVE remote'[e.task] = "ok"
      BY <1>a, <1>b, <3>1 DEF NewsInv
    <3>2. parses => remote'[t] = "ok"
      BY <1>a
    <3> QED BY <3>1, <3>2
  <2>3. /\ reply' = "ok" => devTask' \in Tasks /\ remote'[devTask'] = "ok"
        /\ \A u \in Tasks : Kind[u] = "device" /\ inner'[u] = "ok" => remote'[u] = "ok"
        /\ \A u \in Tasks : Kind[u] = "device" /\ outcome'[u] = "ok" => remote'[u] = "ok"
    BY <1>b, <2>1 DEF NewsInv
  <2> QED BY <2>2, <2>3 DEF NewsInv
<1>3. CASE HandleReply
  <2>1. /\ reply' = "none" /\ UNCHANGED <<events, outcome, remote>> /\ devTask \in Tasks
        /\ inner' = inner \/ inner' = [inner EXCEPT ![devTask] = IF reply = "ok" THEN "ok" ELSE "failed"]
    BY <1>3, <1>a DEF HandleReply, TypeOK, DeviceTypeOK
  <2>2. \A u \in Tasks : inner'[u] = "ok" => inner[u] = "ok" \/ (u = devTask /\ reply = "ok")
    BY <1>a, <2>1
  <2> QED BY <2>1, <2>2 DEF NewsInv
<1>4. ASSUME NEW e \in events, HandleEvent(e) PROVE NewsInv'
  <2>1. /\ UNCHANGED <<reply, devTask, outcome, remote>> /\ events' \subseteq events
        /\ inner' = inner \/ inner' = [inner EXCEPT ![e.task] = IF e.parses THEN "ok" ELSE "failed"]
    BY <1>4 DEF HandleEvent
  <2>2. \A u \in Tasks : inner'[u] = "ok" => inner[u] = "ok" \/ (u = e.task /\ e.parses)
    BY <1>a, <2>1
  <2> QED BY <2>1, <2>2 DEF NewsInv
<1>5. ASSUME NEW w \in Workers, WorkerDone(w) PROVE NewsInv'
  <2>1. inner' = [inner EXCEPT ![Parent[running[w]]] = Joined(running[w])]
        /\ UNCHANGED <<reply, devTask, events, outcome>>
    BY <1>5 DEF WorkerDone, device
  <2>2. Parallel(Parent[running[w]])
    BY <1>5, <1>a DEF WorkerDone, Threads, CoreInv, StageInv, ParTasks
  <2>3. \A t \in Tasks : Kind[t] = "device" => inner'[t] = inner[t]
    BY <1>a, <2>1, <2>2 DEF Parallel
  <2> QED BY <1>a, <2>1, <2>3, NewsFrame
<1>6. ASSUME NEW t \in Tasks, HandlerReturn(t) PROVE NewsInv'
  <2>1. /\ outcome' = [outcome EXCEPT ![t] = inner[t]]
        /\ UNCHANGED <<reply, devTask, events, inner>>
    BY <1>6 DEF HandlerReturn, Signal, device
  <2> QED BY <1>a, <2>1, NewsFrame
<1>7. ASSUME NEW t \in Tasks, HandleNoop(t) \/ HandleLambda(t) \/ SequentialEnd(t) PROVE NewsInv'
  <2>1. PICK how : Signal(t, how)
    BY <1>7 DEF HandleNoop, HandleLambda, SequentialEnd
  <2>2. /\ outcome' = [outcome EXCEPT ![t] = how] /\ Kind[t] # "device"
        /\ UNCHANGED <<reply, devTask, events, inner>>
    BY <1>7, <2>1 DEF Signal, device, HandleNoop, HandleLambda, SequentialEnd, Routed
  <2> QED BY <1>a, <2>2, NewsFrame
<1>8. CASE DevTake \/ SubscribeFails \/ SendCommand
  <2>1. reply # "ok"
    BY <1>8, <1>a, SubtaskFacts DEF DevTake, SubscribeFails, SendCommand, NewsInv, CallInv
  <2>2. UNCHANGED <<reply, events, inner, outcome>>
    BY <1>8 DEF DevTake, SubscribeFails, SendCommand
  <2> QED BY <1>a, <2>1, <2>2, NewsFrame
<1>9. ASSUME \/ \E j \in Jobs : Return(j) \/ Submit(j)
             \/ MainTake \/ SeqTake
             \/ \E th \in Threads : Done(th) \/ Leave(th)
             \/ \E w \in Workers : WorkerTake(w) \/ WorkerSkip(w) \/ WorkerRoute(w)
             \/ \E t \in Tasks : SequentialSubmit(t) \/ HandleParallel(t) \/ HandleDevice(t)
             \/ PoolsStopped \/ DevLeave \/ Stop \/ Stopped \/ UNCHANGED vars
      PROVE  NewsInv'
  <2>1. UNCHANGED <<reply, devTask, events, inner, outcome>>
    BY <1>9 DEF Return, Submit, MainTake, SeqTake, Done, Leave, WorkerTake, WorkerSkip, WorkerRoute,
                SequentialSubmit, HandleParallel, HandleDevice, PoolsStopped, DevLeave, Stop,
                Stopped, vars, device
  <2> QED BY <1>a, <2>1, NewsFrame
<1> QED
  BY <1>1, <1>2, <1>3, <1>4, <1>5, <1>6, <1>7, <1>8, <1>9 DEF Next, Progress, Threads

(* A leaf cannot report success without its device having succeeded, nor a *)
(* composite task without its subtasks: whatever thread signals and when.  *)
THEOREM SuccessIsReal ==
  ASSUME FailureParses = {FALSE}
  PROVE  Spec => []SuccessSound
<1>1. Init => NewsInv
  BY SubtaskFacts DEF Init, NewsInv
<1>2. IInv /\ NewsInv /\ [Next]_vars => NewsInv'
  BY NewsStep
<1>3. IInv /\ NewsInv => SuccessSound
  <2> SUFFICES ASSUME IInv, NewsInv, NEW t \in Tasks, outcome[t] = "ok"
               PROVE  /\ \A c \in Subtasks(t) : outcome[c] = "ok"
                      /\ Kind[t] = "device" => remote[t] = "ok"
    BY DEF SuccessSound
  <2>1. CASE Kind[t] = "seq"
    <3>1. SeqTaskInv(t) /\ pos[t] \in Nat
      BY <2>1 DEF IInv, TreeInv, TypeOK, TaskTypeOK
    <3>2. ASSUME NEW i \in 1 .. Len(Children[t]) PROVE outcome[Children[t][i]] = "ok"
      BY <3>1, SubtaskFacts, SMTT(30) DEF SeqTaskInv, LastOutcome
    <3> QED BY <2>1, <3>2 DEF Subtasks
  <2>2. CASE Parallel(t)
    BY <2>2 DEF IInv, TreeInv, ParTaskInv, Parallel
  <2>3. CASE Kind[t] \in {"noop", "lambda", "device"}
    BY <2>3, TreeAssumption DEF Subtasks, NewsInv
  <2> QED BY <2>1, <2>2, <2>3, TreeAssumption DEF Parallel, Kinds
<1> QED
  BY <1>1, <1>2, <1>3, Invariance, PTL DEF Spec

-----------------------------------------------------------------------------
(* The commands of a job: in the order of its steps, and answered for.     *)

(* What holds of a task and passes to subtasks holds of all below the task. *)
LEMMA WithinClosed ==
  ASSUME NEW t \in Tasks, NEW S \in SUBSET Tasks, t \in S, Closed(S)
  PROVE  Within[t] \subseteq S
BY DEF Within

LEMMA WithinItself == \A t \in Tasks : t \in Within[t] /\ Within[t] \subseteq Tasks
BY DEF Within

LEMMA WithinSubtask ==
  ASSUME NEW t \in Tasks, NEW c \in Subtasks(t)
  PROVE  Within[c] \subseteq Within[t]
<1>1. c \in Tasks
  BY SubtaskFacts
<1>2. ASSUME NEW u \in Within[c], NEW S \in SUBSET Tasks, t \in S, Closed(S)
      PROVE  u \in S
  <2>1. c \in S
    BY <1>2 DEF Closed
  <2> QED BY <1>1, <1>2, <2>1, WithinClosed
<1> QED
  BY <1>1, <1>2, WithinItself DEF Within

(* A task that waits goes on waiting, and one that signalled has signalled. *)
LEMMA ProgressStays ==
  ASSUME IInv, [Next]_vars
  PROVE  \A t \in Tasks : /\ stage[t] = "waiting" => stage'[t] = "waiting"
                          /\ outcome[t] # "none" => outcome'[t] = outcome[t]
<1> USE DEF queues, device
<1> SUFFICES ASSUME NEW t \in Tasks
             PROVE  /\ stage[t] = "waiting" => stage'[t] = "waiting"
                    /\ outcome[t] # "none" => outcome'[t] = outcome[t]
  OBVIOUS
<1>a. /\ stage \in [Tasks -> {"new", "queued", "taken", "skipped", "routed", "waiting"}]
      /\ outcome \in [Tasks -> Outcomes]
      /\ mainQ \in Seq(Tasks) /\ seqQ \in Seq(Tasks) /\ parQ \in Seq(Tasks)
      /\ TypeOK /\ QueueInv /\ StageInv /\ TreeInv
  BY DEF IInv, TypeOK, TaskTypeOK, QueueTypeOK
<1>1. CASE MainTake
  <2>1. stage[Head(mainQ)] = "queued"
    BY <1>1, <1>a, QueueTail DEF MainTake, QueueInv
  <2> QED BY <1>1, <1>a, <2>1 DEF MainTake, Take
<1>2. CASE SeqTake
  <2>1. stage[Head(seqQ)] = "queued"
    BY <1>2, <1>a, QueueTail DEF SeqTake, QueueInv
  <2> QED BY <1>2, <1>a, <2>1 DEF SeqTake, Take
<1>3. ASSUME NEW w \in Workers, WorkerTake(w)
      PROVE  UNCHANGED outcome /\ (stage[t] = "waiting" => stage'[t] = "waiting")
  <2>1. stage[Head(parQ)] = "queued"
    BY <1>3, <1>a, QueueTail DEF WorkerTake, QueueInv
  <2> QED BY <1>3, <1>a, <2>1 DEF WorkerTake, Take
<1>4. ASSUME NEW w \in Workers, WorkerSkip(w) \/ WorkerRoute(w)
      PROVE  UNCHANGED outcome /\ (stage[t] = "waiting" => stage'[t] = "waiting")
  BY <1>4, <1>a DEF WorkerSkip, WorkerRoute
<1>5. ASSUME NEW u \in Tasks, SequentialSubmit(u)
      PROVE  UNCHANGED outcome /\ (stage[t] = "waiting" => stage'[t] = "waiting")
  <2> DEFINE c == Children[u][pos[u] + 1]
  <2>1. stage[c] = "new" /\ stage' = [stage EXCEPT ![c] = "queued"] /\ UNCHANGED outcome
    BY <1>5, <1>a, TreeSubmit DEF SequentialSubmit
  <2> HIDE DEF c
  <2> QED BY <1>a, <2>1
<1>6. ASSUME NEW u \in Tasks, HandleParallel(u)
      PROVE  UNCHANGED outcome /\ (stage[t] = "waiting" => stage'[t] = "waiting")
  <2>1. \A c \in Subtasks(u) : stage[c] = "new"
    BY <1>6, <1>a, TreeFanOut
  <2> QED BY <1>6, <1>a, <2>1 DEF HandleParallel
<1>7. ASSUME NEW u \in Tasks, HandleDevice(u)
      PROVE  UNCHANGED outcome /\ (stage[t] = "waiting" => stage'[t] = "waiting")
  BY <1>7, <1>a DEF HandleDevice
<1>8. ASSUME NEW j \in Jobs, Submit(j)
      PROVE  UNCHANGED outcome /\ (stage[t] = "waiting" => stage'[t] = "waiting")
  <2>1. stage[j] = "new"
    BY <1>8, <1>a DEF Submit, StageInv
  <2> QED BY <1>8, <1>a, <2>1 DEF Submit
<1>9. ASSUME NEW u \in Tasks, HandleNoop(u) \/ HandleLambda(u) \/ SequentialEnd(u) \/ HandlerReturn(u)
      PROVE  UNCHANGED stage /\ (outcome[t] # "none" => outcome'[t] = outcome[t])
  <2>1. outcome[u] = "none"
    BY <1>9 DEF HandleNoop, HandleLambda, SequentialEnd, HandlerReturn, Routed
  <2>2. PICK how : Signal(u, how)
    BY <1>9 DEF HandleNoop, HandleLambda, SequentialEnd, HandlerReturn
  <2> QED BY <1>a, <2>1, <2>2 DEF Signal
<1>10. ASSUME \/ \E j \in Jobs : Return(j)
              \/ \E th \in Threads : Done(th) \/ Leave(th)
              \/ \E w \in Workers : WorkerDone(w)
              \/ \E u \in Tasks : DeviceFinish(u)
              \/ DevTake \/ SubscribeFails \/ SendCommand \/ DeviceReply \/ HandleReply
              \/ \E e \in events : HandleEvent(e)
              \/ PoolsStopped \/ DevLeave \/ Stopped \/ Stop \/ UNCHANGED vars
       PROVE  UNCHANGED <<stage, outcome>>
  BY <1>10 DEF Return, Done, Leave, WorkerDone, DeviceFinish, DevTake, SubscribeFails, SendCommand,
               DeviceReply, HandleReply, HandleEvent, PoolsStopped, DevLeave, Stopped, Stop, vars
<1> QED
  BY <1>1, <1>2, <1>3, <1>4, <1>5, <1>6, <1>7, <1>8, <1>9, <1>10 DEF Next, Progress, Threads

(* Steps of the executor itself leave the device executor's work alone. *)
LEMMA CommandFrame ==
  ASSUME IInv, CommandInv, [Next]_vars,
         UNCHANGED <<devQ, devTask, cmdMap>>,
         \A t \in Tasks : remote'[t] # "none" => remote[t] # "none" \/ t = devTask,
         \A t \in Tasks : Kind[t] = "device" => inner'[t] = inner[t]
  PROVE  CommandInv'
<1>1. \A t \in Tasks : stage[t] = "waiting" => stage'[t] = "waiting"
  BY ProgressStays
<1>2. \A t \in InHand : t \in Tasks /\ Kind[t] = "device"
  <2>1. devQ \in Seq(Tasks) /\ devTask \in Tasks \cup {NoTask} /\ cmdMap \subseteq Tasks
    BY DEF IInv, TypeOK, QueueTypeOK, DeviceTypeOK
  <2> QED BY <2>1 DEF InHand, IInv, DeviceKind
<1>3. InHand' = InHand
  BY DEF InHand
<1>4. devTask \in Tasks => devTask \in InHand
  BY SubtaskFacts DEF InHand
<1> QED
  BY <1>1, <1>2, <1>3, <1>4 DEF CommandInv

LEMMA CommandStep == IInv /\ CommandInv /\ [Next]_vars => CommandInv'
<1> SUFFICES ASSUME IInv, CommandInv, [Next]_vars PROVE CommandInv'
  OBVIOUS
<1> USE DEF queues
<1>a. /\ devQ \in Seq(Tasks) /\ devTask \in Tasks \cup {NoTask} /\ cmdMap \subseteq Tasks
      /\ NoTask \notin Tasks
      /\ remote \in [Tasks -> {"none", "requested", "running", "ok", "failed"}]
      /\ inner \in [Tasks -> Outcomes] /\ running \in [Threads -> Tasks \cup {NoTask}]
      /\ stage \in [Tasks -> {"new", "queued", "taken", "skipped", "routed", "waiting"}]
  BY TreeAssumption DEF IInv, TypeOK, QueueTypeOK, DeviceTypeOK, TaskTypeOK, ThreadTypeOK
<1>b. \A t \in Tasks : stage[t] = "waiting" => stage'[t] = "waiting"
  BY ProgressStays
<1>c. InHand \subseteq Tasks /\ (\A t \in InHand : Kind[t] = "device")
  BY <1>a DEF InHand, IInv, DeviceKind
<1>1. ASSUME NEW t \in Tasks, HandleDevice(t) PROVE CommandInv'
  <2>1. /\ devQ' = Append(devQ, t) /\ stage[t] = "routed" /\ Kind[t] = "device"
        /\ stage' = [stage EXCEPT ![t] = "waiting"]
        /\ UNCHANGED <<devTask, cmdMap, remote, inner>>
    BY <1>1 DEF HandleDevice, Routed, device
  <2>2. inner[t] = "none" /\ t \notin InHand
    BY <2>1 DEF CommandInv
  <2>3. \A i \in 1 .. Len(devQ') : devQ'[i] = IF i = Len(devQ) + 1 THEN t ELSE devQ[i]
    BY <1>a, <2>1
  <2>4. Len(devQ') = Len(devQ) + 1 /\ Len(devQ) \in Nat
    BY <1>a, <2>1
  <2>5. InHand' = InHand \cup {t}
    BY <2>1, <2>3, <2>4 DEF InHand
  <2>6. \A i \in 1 .. Len(devQ) : devQ[i] # t
    BY <2>2 DEF InHand
  <2>7. devTask # t /\ t \notin cmdMap
    BY <1>a, <2>2 DEF InHand
  <2>8. \A u \in InHand' : stage'[u] = "waiting" /\ inner'[u] = "none"
    BY <1>a, <1>b, <1>c, <2>1, <2>2, <2>5 DEF CommandInv
  <2>9. \A i, k \in 1 .. Len(devQ') : devQ'[i] = devQ'[k] => i = k
    BY <2>3, <2>4, <2>6 DEF CommandInv
  <2>10. \A i \in 1 .. Len(devQ') : devQ'[i] # devTask' /\ devQ'[i] \notin cmdMap'
    BY <2>1, <2>3, <2>4, <2>7 DEF CommandInv
  <2> QED BY <1>b, <2>1, <2>8, <2>9, <2>10 DEF CommandInv
<1>2. CASE DevTake
  <2>1. /\ devQ # <<>> /\ devTask = NoTask /\ devTask' = Head(devQ) /\ devQ' = Tail(devQ)
        /\ UNCHANGED <<cmdMap, stage, remote, inner>>
    BY <1>2 DEF DevTake
  <2>2. /\ 1 \in 1 .. Len(devQ) /\ Head(devQ) = devQ[1]
        /\ \A i \in 1 .. Len(Tail(devQ)) :
             i + 1 \in 1 .. Len(devQ) /\ i + 1 # 1 /\ Tail(devQ)[i] = devQ[i + 1]
    BY <1>a, <2>1
  <2>3. Len(Tail(devQ)) \in Nat
    BY <1>a, <2>1
  <2>4. InHand' \subseteq InHand
    BY <2>1, <2>2 DEF InHand
  <2>5. \A i, k \in 1 .. Len(devQ') : devQ'[i] = devQ'[k] => i = k
    BY <2>1, <2>2, <2>3 DEF CommandInv
  <2>6. \A i \in 1 .. Len(devQ') : devQ'[i] # devTask' /\ devQ'[i] \notin cmdMap'
    BY <2>1, <2>2 DEF CommandInv
  <2>7. devTask' \notin cmdMap'
    BY <2>1, <2>2 DEF CommandInv
  <2> QED BY <2>1, <2>4, <2>5, <2>6, <2>7 DEF CommandInv
<1>3. CASE SubscribeFails
  <2>1. devTask' = NoTask /\ UNCHANGED <<devQ, cmdMap, stage, remote, inner>>
    BY <1>3 DEF SubscribeFails
  <2>2. InHand' \subseteq InHand
    BY <1>a, <2>1 DEF InHand
  <2>3. \A i \in 1 .. Len(devQ) : devQ[i] # NoTask
    BY <1>a
  <2> QED BY <1>a, <2>1, <2>2, <2>3 DEF CommandInv
<1>4. CASE HandleReply
  <2>1. /\ devTask \in Tasks /\ devTask' = NoTask /\ UNCHANGED <<devQ, stage, remote>>
        /\ \/ cmdMap' = cmdMap \cup {devTask} /\ inner' = inner
           \/ /\ cmdMap' = cmdMap
              /\ \E how \in Outcomes : inner' = [inner EXCEPT ![devTask] = how]
    BY <1>4, <1>a DEF HandleReply, Outcomes
  <2>2. devTask \in InHand /\ stage[devTask] = "waiting"
    BY <1>a, <2>1 DEF InHand, CommandInv
  <2>3. InHand' \subseteq InHand /\ (cmdMap' = cmdMap => devTask \notin InHand')
    BY <1>a, <2>1, <2>2 DEF InHand, CommandInv
  <2>4. \A t \in InHand' : inner'[t] = inner[t]
    BY <1>a, <1>c, <2>1, <2>3
  <2>5. \A t \in Tasks : inner'[t] # inner[t] => t = devTask
    BY <1>a, <2>1
  <2>6. /\ \A i \in 1 .. Len(devQ') : devQ'[i] # devTask' /\ devQ'[i] \notin cmdMap'
        /\ devTask' \notin cmdMap'
    BY <1>a, <2>1 DEF CommandInv
  <2> QED BY <2>1, <2>2, <2>3, <2>4, <2>5, <2>6 DEF CommandInv
<1>5. ASSUME NEW e \in events, HandleEvent(e) PROVE CommandInv'
  <2>1. /\ cmdMap' = cmdMap \ {e.task} /\ UNCHANGED <<devQ, devTask, stage, remote>>
        /\ \/ inner' = inner
           \/ e.task \in cmdMap /\ \E how \in Outcomes : inner' = [inner EXCEPT ![e.task] = how]
    BY <1>5 DEF HandleEvent, Outcomes
  <2>2. InHand' \subseteq InHand /\ (e.task \in cmdMap => e.task \notin InHand')
    BY <1>a, <2>1 DEF InHand, CommandInv
  <2>3. e.task \in cmdMap => e.task \in InHand /\ stage[e.task] = "waiting"
    BY DEF InHand, CommandInv
  <2>4. \A t \in InHand' : inner'[t] = inner[t]
    BY <1>a, <1>c, <2>1, <2>2
  <2>5. \A t \in Tasks : inner'[t] # inner[t] => t = e.task /\ e.task \in cmdMap
    BY <1>a, <2>1
  <2> QED BY <2>1, <2>2, <2>3, <2>4, <2>5 DEF CommandInv
<1>6. ASSUME NEW w \in Workers, WorkerDone(w) PROVE CommandInv'
  <2>1. inner' = [inner EXCEPT ![Parent[running[w]]] = Joined(running[w])]
        /\ UNCHANGED <<devQ, devTask, cmdMap, remote>>
    BY <1>6 DEF WorkerDone, device
  <2>2. Parallel(Parent[running[w]])
    BY <1>6, <1>a DEF WorkerDone, Threads, IInv, StageInv, ParTasks
  <2>3. \A t \in Tasks : Kind[t] = "device" => inner'[t] = inner[t]
    BY <1>a, <2>1, <2>2 DEF Parallel
  <2> QED BY <2>1, <2>3, CommandFrame
<1>7. CASE SendCommand \/ DeviceReply \/ \E t \in Tasks : DeviceFinish(t)
  <2>1. /\ UNCHANGED <<devQ, devTask, cmdMap, inner>>
        /\ \A t \in Tasks : remote'[t] # "none" => remote[t] # "none" \/ t = devTask
    BY <1>7, <1>a DEF SendCommand, DeviceReply, DeviceFinish
  <2> QED BY <2>1, CommandFrame
<1>8. ASSUME \/ \E j \in Jobs : Return(j) \/ Submit(j)
             \/ MainTake \/ SeqTake
             \/ \E th \in Threads : Done(th) \/ Leave(th)
             \/ \E w \in Workers : WorkerTake(w) \/ WorkerSkip(w) \/ WorkerRoute(w)
      PROVE  CommandInv'
  <2>1. UNCHANGED <<devQ, devTask, cmdMap, remote, inner>>
    BY <1>8 DEF Return, Submit, MainTake, SeqTake, Done, Leave, WorkerTake, WorkerSkip, WorkerRoute,
                device
  <2> QED BY <2>1, CommandFrame
<1>9. ASSUME \/ \E t \in Tasks : \/ HandleNoop(t) \/ HandleLambda(t) \/ SequentialSubmit(t)
                                 \/ SequentialEnd(t) \/ HandleParallel(t) \/ HandlerReturn(t)
             \/ PoolsStopped \/ DevLeave \/ Stop \/ Stopped \/ UNCHANGED vars
      PROVE  CommandInv'
  <2>1. UNCHANGED <<devQ, devTask, cmdMap, remote, inner>>
    BY <1>9 DEF HandleNoop, HandleLambda, SequentialSubmit, SequentialEnd, HandleParallel,
                HandlerReturn, Signal, PoolsStopped, DevLeave, Stop, Stopped, vars, device
  <2> QED BY <2>1, CommandFrame
<1> QED
  BY <1>1, <1>2, <1>3, <1>4, <1>5, <1>6, <1>7, <1>8, <1>9 DEF Next, Progress, Threads

(* The first answer to a command is the one that stands. *)
LEMMA AnswerStays ==
  ASSUME IInv, CommandInv, [Next]_vars
  PROVE  \A t \in Tasks : Kind[t] = "device" /\ inner[t] # "none" => inner'[t] = inner[t]
<1> USE DEF queues
<1> SUFFICES ASSUME NEW t \in Tasks, Kind[t] = "device", inner[t] # "none"
             PROVE  inner'[t] = inner[t]
  OBVIOUS
<1>a. /\ inner \in [Tasks -> Outcomes] /\ running \in [Threads -> Tasks \cup {NoTask}]
      /\ devTask \in Tasks \cup {NoTask} /\ NoTask \notin Tasks
  BY TreeAssumption DEF IInv, TypeOK, TaskTypeOK, ThreadTypeOK, DeviceTypeOK
<1>b. t # devTask /\ t \notin cmdMap
  BY <1>a DEF CommandInv, InHand
<1>1. CASE HandleReply
  BY <1>1, <1>a, <1>b DEF HandleReply
<1>2. ASSUME NEW e \in events, HandleEvent(e) PROVE inner'[t] = inner[t]
  BY <1>2, <1>a, <1>b DEF HandleEvent
<1>3. ASSUME NEW w \in Workers, WorkerDone(w) PROVE inner'[t] = inner[t]
  <2>1. Parallel(Parent[running[w]])
    BY <1>3, <1>a DEF WorkerDone, Threads, IInv, StageInv, ParTasks
  <2> QED BY <1>3, <1>a, <2>1 DEF WorkerDone, Parallel
<1>4. ASSUME \/ \E j \in Jobs : Return(j) \/ Submit(j)
             \/ MainTake \/ SeqTake
             \/ \E th \in Threads : Done(th) \/ Leave(th)
             \/ \E w \in Workers : WorkerTake(w) \/ WorkerSkip(w) \/ WorkerRoute(w)
      PROVE  UNCHANGED inner
  BY <1>4 DEF Return, Submit, MainTake, SeqTake, Done, Leave, WorkerTake, WorkerSkip, WorkerRoute
<1>5. ASSUME \E u \in Tasks : \/ HandleNoop(u) \/ HandleLambda(u) \/ SequentialSubmit(u)
                              \/ SequentialEnd(u) \/ HandleParallel(u) \/ HandlerReturn(u)
                              \/ HandleDevice(u) \/ DeviceFinish(u)
      PROVE  UNCHANGED inner
  BY <1>5 DEF HandleNoop, HandleLambda, SequentialSubmit, SequentialEnd, HandleParallel,
              HandlerReturn, HandleDevice, DeviceFinish, Signal
<1>6. ASSUME \/ DevTake \/ SubscribeFails \/ SendCommand \/ DeviceReply
             \/ PoolsStopped \/ DevLeave \/ Stop \/ Stopped \/ UNCHANGED vars
      PROVE  UNCHANGED inner
  BY <1>6 DEF DevTake, SubscribeFails, SendCommand, DeviceReply, PoolsStopped, DevLeave, Stop,
              Stopped, vars
<1> QED
  BY <1>1, <1>2, <1>3, <1>4, <1>5, <1>6 DEF Next, Progress, Threads

(* A task fails for the failure of one of its subtasks, or for its own. *)
LEMMA BlameStep == IInv /\ CommandInv /\ BlameInv /\ [Next]_vars => BlameInv'
<1> SUFFICES ASSUME IInv, CommandInv, BlameInv, [Next]_vars, NEW t \in Tasks, outcome'[t] = "failed"
             PROVE  Blamed(t)'
  BY DEF BlameInv
<1> USE DEF queues
<1>a. /\ outcome \in [Tasks -> Outcomes] /\ inner \in [Tasks -> Outcomes]
      /\ pos \in [Tasks -> Nat] /\ StageInv /\ TreeInv
  BY DEF IInv, TypeOK, TaskTypeOK
<1>b. ASSUME Blamed(t) PROVE Blamed(t)'
  <2>1. PICK u \in Within[t] : \/ Kind[u] = "device" /\ inner[u] = "failed"
                               \/ Kind[u] = "lambda" /\ outcome[u] = "failed"
    BY <1>b DEF Blamed
  <2>2. u \in Tasks
    BY WithinItself
  <2>3. \/ Kind[u] = "device" /\ inner'[u] = "failed"
        \/ Kind[u] = "lambda" /\ outcome'[u] = "failed"
    BY <2>1, <2>2, AnswerStays, ProgressStays
  <2> QED BY <2>3 DEF Blamed
<1>c. ASSUME NEW c \in Subtasks(t), outcome[c] = "failed" PROVE Blamed(t)
  <2>1. c \in Tasks /\ Blamed(c)
    BY <1>c, SubtaskFacts DEF BlameInv
  <2> QED BY <2>1, WithinSubtask DEF Blamed
<1>1. CASE outcome[t] # "none"
  <2>1. outcome[t] = "failed"
    BY <1>1, ProgressStays
  <2> QED BY <1>b, <2>1 DEF BlameInv
<1>2. CASE outcome[t] = "none"
  <2>1. ASSUME NEW u \in Tasks, NEW how, Signal(u, how) PROVE u = t /\ how = "failed"
    BY <1>2, <1>a, <2>1 DEF Signal
  <2>2. ASSUME NEW u \in Tasks, HandleNoop(u) PROVE FALSE
    BY <2>1, <2>2 DEF HandleNoop
  <2>3. ASSUME NEW u \in Tasks, HandleLambda(u) PROVE Blamed(t)'
    <3>1. u = t /\ Kind[t] = "lambda"
      BY <2>1, <2>3 DEF HandleLambda, Routed
    <3> QED BY <3>1, WithinItself DEF Blamed
  <2>4. ASSUME NEW u \in Tasks, SequentialEnd(u) PROVE Blamed(t)
    <3>1. u = t /\ Kind[t] = "seq" /\ LastOutcome(t) = "failed"
      BY <2>1, <2>4 DEF SequentialEnd, Routed
    <3>2. pos[t] # 0 /\ outcome[Children[t][pos[t]]] = "failed"
      BY <3>1 DEF LastOutcome
    <3>3. pos[t] \in 1 .. Len(Children[t])
      BY <1>a, <3>1, <3>2, SubtaskFacts DEF TreeInv, SeqTaskInv
    <3> QED BY <1>c, <3>2, <3>3, SubtaskFacts
  <2>5. ASSUME NEW u \in Tasks, HandlerReturn(u) PROVE Blamed(t)
    <3>1. u = t /\ stage[t] = "waiting" /\ inner[t] = "failed"
      BY <2>1, <2>5 DEF HandlerReturn
    <3>2. CASE Parallel(t)
      BY <1>a, <1>c, <3>1, <3>2 DEF TreeInv, ParTaskInv
    <3>3. CASE ~Parallel(t)
      <4>1. Kind[t] = "device"
        BY <1>a, <3>1, <3>3 DEF StageInv, Parallel
      <4> QED BY <3>1, <4>1, WithinItself DEF Blamed
    <3> QED BY <3>2, <3>3
  <2>6. ASSUME \/ \E j \in Jobs : Return(j) \/ Submit(j)
               \/ MainTake \/ SeqTake
               \/ \E th \in Threads : Done(th) \/ Leave(th)
               \/ \E w \in Workers : WorkerTake(w) \/ WorkerSkip(w) \/ WorkerRoute(w) \/ WorkerDone(w)
        PROVE  FALSE
    BY <1>2, <2>6 DEF Return, Submit, MainTake, SeqTake, Done, Leave, WorkerTake, WorkerSkip,
                      WorkerRoute, WorkerDone
  <2>7. ASSUME \/ \E u \in Tasks : \/ SequentialSubmit(u) \/ HandleParallel(u) \/ HandleDevice(u)
                                   \/ DeviceFinish(u)
               \/ DevTake \/ SubscribeFails \/ SendCommand \/ DeviceReply \/ HandleReply
               \/ \E e \in events : HandleEvent(e)
               \/ PoolsStopped \/ DevLeave \/ Stop \/ Stopped \/ UNCHANGED vars
        PROVE  FALSE
    BY <1>2, <2>7 DEF SequentialSubmit, HandleParallel, HandleDevice, DeviceFinish, DevTake,
                      SubscribeFails, SendCommand, DeviceReply, HandleReply, HandleEvent,
                      PoolsStopped, DevLeave, Stop, Stopped, vars
  <2> QED
    BY <1>b, <2>2, <2>3, <2>4, <2>5, <2>6, <2>7 DEF Next, Progress, Threads
<1> QED
  BY <1>1, <1>2

LEMMA ToldStep == IInv /\ ToldInv /\ [Next]_vars => ToldInv'
<1> SUFFICES ASSUME IInv, ToldInv, [Next]_vars, NEW j \in Jobs
             PROVE  /\ client'[j] = "returned" => outcome'[j] = "ok"
                    /\ client'[j] = "raised" => outcome'[j] = "failed"
  BY DEF ToldInv
<1> USE DEF queues, device
<1>a. /\ client \in [Jobs -> {"idle", "waiting", "returned", "raised"}]
      /\ outcome \in [Tasks -> Outcomes] /\ j \in Tasks
  BY SubtaskFacts DEF IInv, TypeOK, ClientTypeOK, TaskTypeOK
<1>b. outcome[j] # "none" => outcome'[j] = outcome[j]
  BY <1>a, ProgressStays
<1>1. ASSUME NEW i \in Jobs, Return(i)
      PROVE  \/ client'[j] = client[j]
             \/ client'[j] = "returned" /\ outcome'[j] = "ok"
             \/ client'[j] = "raised" /\ outcome'[j] = "failed"
  BY <1>1, <1>a DEF Return, Outcomes
<1>2. ASSUME NEW i \in Jobs, Submit(i) PROVE client'[j] = client[j] \/ client'[j] = "waiting"
  BY <1>2, <1>a DEF Submit
<1>3. ASSUME \/ MainTake \/ SeqTake
             \/ \E th \in Threads : Done(th) \/ Leave(th)
             \/ \E w \in Workers : WorkerTake(w) \/ WorkerSkip(w) \/ WorkerRoute(w) \/ WorkerDone(w)
      PROVE  UNCHANGED client
  BY <1>3 DEF MainTake, SeqTake, Done, Leave, WorkerTake, WorkerSkip, WorkerRoute, WorkerDone
<1>4. ASSUME \E u \in Tasks : \/ HandleNoop(u) \/ HandleLambda(u) \/ SequentialSubmit(u)
                              \/ SequentialEnd(u) \/ HandleParallel(u) \/ HandlerReturn(u)
                              \/ HandleDevice(u) \/ DeviceFinish(u)
      PROVE  UNCHANGED client
  BY <1>4 DEF HandleNoop, HandleLambda, SequentialSubmit, SequentialEnd, HandleParallel,
              HandlerReturn, HandleDevice, DeviceFinish, Signal
<1>5. ASSUME \/ DevTake \/ SubscribeFails \/ SendCommand \/ DeviceReply \/ HandleReply
             \/ \E e \in events : HandleEvent(e)
             \/ PoolsStopped \/ DevLeave \/ Stop \/ Stopped \/ UNCHANGED vars
      PROVE  UNCHANGED client
  BY <1>5 DEF DevTake, SubscribeFails, SendCommand, DeviceReply, HandleReply, HandleEvent,
              PoolsStopped, DevLeave, Stop, Stopped, vars
<1>6. client'[j] = client[j] =>
        /\ client'[j] = "returned" => outcome'[j] = "ok"
        /\ client'[j] = "raised" => outcome'[j] = "failed"
  BY <1>b DEF ToldInv
<1> QED
  BY <1>1, <1>2, <1>3, <1>4, <1>5, <1>6 DEF Next, Progress, Threads

(* What the job of a task has come to is settled by the invariants. *)
JobInv == IInv /\ CommandInv /\ BlameInv /\ ToldInv

LEMMA JobInvariance == Spec => []JobInv
<1>1. Init => CommandInv
  BY TreeAssumption DEF Init, CommandInv, InHand
<1>2. Init => BlameInv /\ ToldInv
  BY SubtaskFacts DEF Init, BlameInv, ToldInv
<1>3. JobInv /\ [Next]_vars => CommandInv' /\ BlameInv' /\ ToldInv'
  BY CommandStep, BlameStep, ToldStep DEF JobInv
<1> QED
  BY <1>1, <1>2, <1>3, Invariance, PTL DEF Spec, JobInv

(* All the commands of a task that succeeded did. *)
LEMMA AllSucceeded ==
  ASSUME SuccessSound, NEW t \in Tasks, outcome[t] = "ok"
  PROVE  \A d \in Commands(t) : remote[d] = "ok"
<1> DEFINE S == {u \in Tasks : outcome[u] = "ok"}
<1>1. t \in S /\ S \in SUBSET Tasks
  OBVIOUS
<1>2. Closed(S)
  BY SubtaskFacts DEF Closed, SuccessSound
<1>3. Within[t] \subseteq S
  BY <1>1, <1>2, WithinClosed
<1> QED
  BY <1>3 DEF Commands, SuccessSound

(* A command is sent only from a task that has begun to move. *)
LEMMA SentIsBegun ==
  ASSUME IInv, CommandInv, NEW t \in Tasks, NEW d \in Commands(t), remote[d] # "none"
  PROVE  stage[t] # "new"
<1> DEFINE S == {u \in Tasks : stage[u] # "new" => stage[t] # "new"}
<1>1. t \in S /\ S \in SUBSET Tasks
  OBVIOUS
<1>2. ASSUME NEW p \in S, NEW c \in Subtasks(p), stage[c] # "new"
      PROVE  stage[p] # "new"
  <2>1. PICK i \in 1 .. Len(Children[p]) : c = Children[p][i]
    BY DEF Subtasks
  <2>2. Kind[p] = "seq" => SeqTaskInv(p)
    BY DEF IInv, TreeInv
  <2>3. Parallel(p) => ParTaskInv(p)
    BY DEF IInv, TreeInv
  <2>4. CASE Kind[p] = "seq"
    <3>1. ~(i > pos[p]) /\ pos[p] \in Nat /\ i \in Nat /\ i # 0
      BY <1>2, <2>1, <2>2, <2>4, SubtaskFacts DEF SeqTaskInv, IInv, TypeOK, TaskTypeOK
    <3>2. pos[p] # 0
      BY <3>1
    <3> QED BY <2>2, <2>4, <3>2 DEF SeqTaskInv
  <2>5. CASE Parallel(p)
    BY <1>2, <2>3, <2>5 DEF ParTaskInv
  <2>6. CASE Kind[p] \in {"noop", "lambda", "device"}
    BY <2>1, <2>6, TreeAssumption
  <2> QED BY <2>4, <2>5, <2>6, TreeAssumption DEF Parallel, Kinds
<1>3. Closed(S)
  BY <1>2, SubtaskFacts DEF Closed
<1>4. d \in S
  BY <1>1, <1>3, WithinClosed DEF Commands
<1>5. stage[d] = "waiting"
  BY <1>4 DEF CommandInv
<1> QED
  BY <1>4, <1>5

(* A step of a sequential task reaches the devices only after all commands *)
(* of the steps before it ended well there, however deep the steps are.    *)
THEOREM OrderIsKept ==
  ASSUME FailureParses = {FALSE}
  PROVE  Spec => []StepsInOrder
<1>1. JobInv /\ SuccessSound => StepsInOrder
  <2> SUFFICES ASSUME JobInv, SuccessSound, NEW p \in Tasks, Kind[p] = "seq",
                      NEW i \in 1 .. Len(Children[p]), NEW k \in 1 .. Len(Children[p]), i < k,
                      NEW later \in Commands(Children[p][k]),
                      NEW earlier \in Commands(Children[p][i]), remote[later] # "none"
               PROVE  remote[earlier] = "ok"
    BY DEF StepsInOrder
  <2>1. Children[p][i] \in Tasks /\ Children[p][k] \in Tasks
    BY SubtaskFacts
  <2>2. stage[Children[p][k]] # "new"
    BY <2>1, SentIsBegun DEF JobInv
  <2>3. SeqTaskInv(p) /\ pos[p] \in Nat
    BY DEF JobInv, IInv, TreeInv, TypeOK, TaskTypeOK
  <2>4. ~(k > pos[p])
    BY <2>2, <2>3 DEF SeqTaskInv
  <2>5. i < pos[p]
    BY <2>3, <2>4, SubtaskFacts
  <2>6. outcome[Children[p][i]] = "ok"
    BY <2>3, <2>5 DEF SeqTaskInv
  <2> QED BY <2>1, <2>6, AllSucceeded
<1> QED
  BY <1>1, JobInvariance, SuccessIsReal, PTL

(* The client of a job is told of a success only when every command of the *)
(* job succeeded at its device, and of a failure only when one failed.     *)
THEOREM VerdictIsTrue ==
  ASSUME FailureParses = {FALSE}
  PROVE  Spec => []JobVerdict
<1>1. JobInv /\ SuccessSound => JobVerdict
  <2> SUFFICES ASSUME JobInv, SuccessSound, NEW j \in Jobs
               PROVE  /\ client[j] = "returned" => \A d \in Commands(j) : remote[d] = "ok"
                      /\ client[j] = "raised" => Blamed(j)
    BY DEF JobVerdict, Blamed
  <2>1. j \in Tasks
    BY SubtaskFacts
  <2> QED BY <2>1, AllSucceeded DEF JobInv, ToldInv, BlameInv
<1> QED
  BY <1>1, JobInvariance, SuccessIsReal, PTL

(* The device executor is stopped last, with nothing in its hands. *)
LEMMA StopStep == IInv /\ StopInv /\ [Next]_vars => StopInv'
<1> SUFFICES ASSUME IInv, StopInv, [Next]_vars PROVE StopInv'
  OBVIOUS
<1> USE DEF queues, device, StopInv
<1>a. "dev" \notin Threads /\ {"main", "seq"} \subseteq Threads /\ Workers \subseteq Threads
  BY ThreadAssumption DEF Threads
<1>1. ASSUME \/ \E j \in Jobs : Return(j) \/ Submit(j)
             \/ MainTake \/ SeqTake \/ \E w \in Workers : WorkerTake(w) \/ WorkerRoute(w)
      PROVE  StopInv'
  BY <1>1 DEF Return, Submit, MainTake, SeqTake, WorkerTake, WorkerRoute, lifetime
<1>2. ASSUME NEW th \in Threads, Done(th) \/ WorkerSkip(th) \/ WorkerDone(th) \/ Leave(th)
      PROVE  StopInv'
  BY <1>2, <1>a DEF Done, WorkerSkip, WorkerDone, Leave, BackToLoop
<1>3. ASSUME \E u \in Tasks : \/ HandleNoop(u) \/ HandleLambda(u) \/ SequentialSubmit(u)
                              \/ SequentialEnd(u) \/ HandleParallel(u) \/ HandlerReturn(u)
                              \/ HandleDevice(u) \/ DeviceFinish(u)
      PROVE  StopInv'
  BY <1>3 DEF HandleNoop, HandleLambda, SequentialSubmit, SequentialEnd, HandleParallel,
              HandlerReturn, HandleDevice, DeviceFinish, Signal, lifetime
<1>4. CASE DevTake
  BY <1>4 DEF DevTake, lifetime
<1>5. CASE SubscribeFails \/ HandleReply
  BY <1>5 DEF SubscribeFails, HandleReply
<1>6. ASSUME \/ SendCommand \/ DeviceReply \/ \E e \in events : HandleEvent(e)
             \/ UNCHANGED vars
      PROVE  StopInv'
  BY <1>6 DEF SendCommand, DeviceReply, HandleEvent, lifetime, vars
<1>7. CASE PoolsStopped \/ DevLeave \/ Stop \/ Stopped
  BY <1>7 DEF PoolsStopped, DevLeave, Stop, Stopped
<1> QED
  BY <1>1, <1>2, <1>3, <1>4, <1>5, <1>6, <1>7, <1>a DEF Next, Progress

(* Once stop() has returned no thread sends a command to a device. *)
THEOREM StopIsFinal == Spec => NothingSentOnceStopped
<1>1. Init => StopInv
  BY DEF Init, StopInv
<1>2. IInv /\ StopInv /\ [Next]_vars => StopInv'
  BY StopStep
<1>3. StopInv /\ IInv /\ [Next]_vars =>
        [phase = "stopped" =>
           \A t \in Tasks : remote'[t] = "requested" => remote[t] = "requested"]_vars
  <2> SUFFICES ASSUME StopInv, IInv, [Next]_vars, phase = "stopped",
                      NEW t \in Tasks, remote'[t] = "requested"
               PROVE  remote[t] = "requested"
    OBVIOUS
  <2>a. remote \in [Tasks -> {"none", "requested", "running", "ok", "failed"}]
    BY DEF IInv, TypeOK, DeviceTypeOK
  <2>1. ~SendCommand
    BY DEF StopInv, SendCommand
  <2>2. CASE DeviceReply \/ \E u \in Tasks : DeviceFinish(u)
    BY <2>2, <2>a DEF DeviceReply, DeviceFinish
  <2>3. CASE UNCHANGED remote
    BY <2>3
  <2> QED BY <2>1, <2>2, <2>3, RemoteSteps
<1> QED
  BY <1>1, <1>2, <1>3, Invariance, PTL DEF Spec, NothingSentOnceStopped

-----------------------------------------------------------------------------
(* The executor implements the tree of tasks. *)

St == [t \in Tasks |-> Status(t)]

(* A task becomes visible as begun when it is routed to its handler. *)
LEMMA BeginStep ==
  ASSUME TypeOK, StageInv, NEW t \in Tasks, stage[t] \in {"queued", "taken"},
         stage' = [stage EXCEPT ![t] = "routed"], outcome' = outcome,
         Parent[t] = NoTask \/
           /\ Parent[t] \in Tasks /\ Status(Parent[t]) = "running"
           /\ Kind[Parent[t]] = "seq" =>
                \A i \in 1 .. Len(Children[Parent[t]]) : Children[Parent[t]][i] = t =>
                  \A k \in 1 .. i - 1 : outcome[Children[Parent[t]][k]] = "ok"
  PROVE  Tree!Begin(t)
<1>1. stage \in [Tasks -> {"new", "queued", "taken", "skipped", "routed", "waiting"}]
  BY DEF TypeOK, TaskTypeOK
<1>2. outcome[t] = "none"
  BY DEF StageInv
<1>3. St[t] = "pending" /\ St' = [St EXCEPT ![t] = "running"]
  <2>1. Status(t) = "pending" /\ Status(t)' = "running"
    BY <1>1, <1>2 DEF Status
  <2>2. \A u \in Tasks : u # t => Status(u)' = Status(u)
    BY <1>1 DEF Status
  <2> QED BY <2>1, <2>2 DEF St
<1>4. Tree!Due(t)
  <2>1. CASE Parent[t] = NoTask
    BY <2>1 DEF Tree!Due
  <2>2. CASE Parent[t] \in Tasks
    <3>1. Parent[t] # NoTask
      BY <2>2, SubtaskFacts
    <3>2. \A c \in Tasks : outcome[c] = "ok" => Status(c) = "ok"
      BY DEF Status
    <3>3. \A i \in 1 .. Len(Children[Parent[t]]) : \A k \in 1 .. i - 1 :
             Children[Parent[t]][k] \in Tasks
      BY <2>2, SubtaskFacts
    <3> QED BY <2>2, <3>1, <3>2, <3>3 DEF Tree!Due
  <2> QED BY <2>1, <2>2, TreeAssumption
<1> QED
  BY <1>3, <1>4 DEF Tree!Begin, St

LEMMA EndStep ==
  ASSUME TypeOK, NEW t \in Tasks, stage[t] \in {"routed", "waiting"}, outcome[t] = "none",
         NEW how \in {"ok", "failed"}, Signal(t, how),
         how = "ok" => \A c \in Subtasks(t) : outcome[c] = "ok",
         how = "failed" => \/ Kind[t] \in {"lambda", "device"}
                           \/ \E c \in Subtasks(t) : outcome[c] = "failed"
  PROVE  Tree!Succeed(t) \/ Tree!Fail(t)
<1>1. /\ outcome \in [Tasks -> Outcomes]
      /\ outcome' = [outcome EXCEPT ![t] = how] /\ stage' = stage
  BY DEF TypeOK, TaskTypeOK, Signal
<1>2. St[t] = "running" /\ St' = [St EXCEPT ![t] = how]
  <2>1. Status(t) = "running" /\ Status(t)' = how
    BY <1>1 DEF Status
  <2>2. \A u \in Tasks : u # t => Status(u)' = Status(u)
    BY <1>1 DEF Status
  <2> QED BY <2>1, <2>2 DEF St
<1>3. \A c \in Subtasks(t) : outcome[c] # "none" => St[c] = outcome[c]
  BY SubtaskFacts DEF St, Status
<1>4. Tree!Subtasks(t) = Subtasks(t)
  BY DEF Tree!Subtasks, Subtasks
<1>5. CASE how = "ok"
  BY <1>2, <1>3, <1>4, <1>5 DEF Tree!Succeed, St
<1>6. CASE how = "failed"
  BY <1>2, <1>3, <1>4, <1>6 DEF Tree!Fail, St
<1> QED
  BY <1>5, <1>6

(* The status of a task only depends on its stage and its outcome. *)
LEMMA StutterStep ==
  ASSUME UNCHANGED outcome,
         \A t \in Tasks : stage'[t] \in {"routed", "waiting"} <=> stage[t] \in {"routed", "waiting"}
  PROVE  UNCHANGED St
BY DEF St, Status

LEMMA RefinesStep == IInv /\ [Next]_vars => [Tree!Next]_St
<1> SUFFICES ASSUME IInv, [Next]_vars PROVE [Tree!Next]_St
  OBVIOUS
<1> USE DEF queues, device
<1>a. /\ stage \in [Tasks -> {"new", "queued", "taken", "skipped", "routed", "waiting"}]
      /\ running \in [Threads -> Tasks \cup {NoTask}]
      /\ outcome \in [Tasks -> Outcomes] /\ inner \in [Tasks -> Outcomes]
      /\ pos \in [Tasks -> Nat] /\ NoTask \notin Tasks
      /\ mainQ \in Seq(Tasks) /\ seqQ \in Seq(Tasks) /\ parQ \in Seq(Tasks)
  BY TreeAssumption DEF IInv, TypeOK, TaskTypeOK, ThreadTypeOK, QueueTypeOK
<1>b. TypeOK /\ QueueInv /\ StageInv /\ TreeInv
  BY DEF IInv
<1>c. ASSUME NEW t \in Tasks, Tree!Begin(t) \/ Tree!Succeed(t) \/ Tree!Fail(t)
      PROVE  [Tree!Next]_St
  BY <1>c DEF Tree!Next
<1>1. CASE MainTake
  <2> DEFINE t == Head(mainQ)
  <2>1. /\ mainQ # <<>> /\ stage' = [stage EXCEPT ![t] = "routed"] /\ UNCHANGED outcome
    BY <1>1 DEF MainTake, Take
  <2>2. t \in Tasks /\ t \in Jobs /\ stage[t] = "queued"
    BY <1>a, <1>b, <2>1, QueueTail DEF QueueInv
  <2>3. Parent[t] = NoTask
    BY <2>2 DEF Jobs
  <2> HIDE DEF t
  <2> QED BY <1>b, <1>c, <2>1, <2>2, <2>3, BeginStep
<1>2. CASE SeqTake
  <2> DEFINE t == Head(seqQ)
             p == Parent[t]
  <2>1. /\ seqQ # <<>> /\ stage' = [stage EXCEPT ![t] = "routed"] /\ UNCHANGED outcome
    BY <1>2 DEF SeqTake, Take
  <2>2. t \in Tasks /\ t \in SeqTasks /\ stage[t] = "queued"
    BY <1>a, <1>b, <2>1, QueueTail DEF QueueInv
  <2> HIDE DEF t
  <2>3. p \in Tasks /\ Kind[p] = "seq" /\ t \in Subtasks(p) /\ outcome[t] = "none"
    BY <1>b, <2>2, SubtaskFacts DEF SeqTasks, StageInv
  <2> HIDE DEF p
  <2>4. SeqTaskInv(p)
    BY <1>b, <2>3 DEF TreeInv
  <2>5. PICK i \in 1 .. Len(Children[p]) : Children[p][i] = t
    BY <2>3 DEF Subtasks
  <2>6. i = pos[p]
    <3>1. pos[p] \in Nat /\ Len(Children[p]) \in Nat
      BY <1>a, <2>3, SubtaskFacts
    <3>2. ~(i > pos[p])
      BY <2>2, <2>4, <2>5 DEF SeqTaskInv
    <3>3. ~(i < pos[p])
      BY <2>3, <2>4, <2>5 DEF SeqTaskInv
    <3> QED BY <3>1, <3>2, <3>3
  <2>7. Status(p) = "running"
    <3>1. LastOutcome(p) = "none"
      BY <2>3, <2>5, <2>6 DEF LastOutcome
    <3> QED BY <2>4, <2>6, <3>1 DEF SeqTaskInv, Status
  <2>8. \A m \in 1 .. Len(Children[p]) : Children[p][m] = t =>
          \A k \in 1 .. m - 1 : outcome[Children[p][k]] = "ok"
    <3>1. \A m \in 1 .. Len(Children[p]) : Children[p][m] = t => m = i
      BY <2>3, <2>5, TreeAssumption
    <3>2. \A k \in 1 .. i - 1 : k \in 1 .. Len(Children[p]) /\ k < pos[p]
      BY <2>3, <2>5, <2>6, SubtaskFacts
    <3> QED BY <2>4, <3>1, <3>2 DEF SeqTaskInv
  <2>9. Tree!Begin(t)
    BY <1>b, <2>1, <2>2, <2>3, <2>7, <2>8, BeginStep DEF p
  <2> QED BY <1>c, <2>2, <2>9
<1>3. ASSUME NEW w \in Workers, WorkerRoute(w) PROVE [Tree!Next]_St
  <2> DEFINE t == running[w]
             p == Parent[t]
  <2>1. /\ t \in Tasks /\ stage[t] = "taken" /\ inner[p] # "failed"
        /\ stage' = [stage EXCEPT ![t] = "routed"] /\ UNCHANGED outcome
    BY <1>3, <1>a DEF WorkerRoute, Threads
  <2>2. /\ p \in Tasks /\ Parallel(p) /\ t \in Subtasks(p) /\ outcome[t] = "none"
    BY <1>b, <2>1, SubtaskFacts DEF StageInv, ParTasks
  <2>3. ParTaskInv(p) /\ stage[p] = "waiting"
    BY <1>b, <2>1, <2>2 DEF TreeInv, ParTaskInv
  <2>4. Status(p) = "running"
    BY <1>a, <2>1, <2>2, <2>3 DEF ParTaskInv, Status, Outcomes
  <2>5. Tree!Begin(t)
    BY <1>b, <2>1, <2>2, <2>4, BeginStep DEF Parallel
  <2> QED BY <1>c, <2>1, <2>5
<1>4. ASSUME NEW t \in Tasks, HandleNoop(t) \/ HandleLambda(t) PROVE [Tree!Next]_St
  <2>1. PICK how \in {"ok", "failed"} : Signal(t, how) /\ (how = "failed" => Kind[t] = "lambda")
    BY <1>4 DEF HandleNoop, HandleLambda, Routed
  <2>2. stage[t] = "routed" /\ outcome[t] = "none" /\ Subtasks(t) = {}
    BY <1>4, TreeAssumption DEF HandleNoop, HandleLambda, Routed, Subtasks
  <2>3. Tree!Succeed(t) \/ Tree!Fail(t)
    BY <1>b, <2>1, <2>2, EndStep
  <2> QED BY <1>c, <2>3
<1>5. ASSUME NEW t \in Tasks, SequentialEnd(t) PROVE [Tree!Next]_St
  <2>1. /\ Kind[t] = "seq" /\ stage[t] = "routed" /\ outcome[t] = "none"
        /\ Signal(t, LastOutcome(t)) /\ LastOutcome(t) # "none"
        /\ LastOutcome(t) = "ok" => pos[t] = Len(Children[t])
    BY <1>5 DEF SequentialEnd, Routed
  <2>2. SeqTaskInv(t)
    BY <1>b, <2>1 DEF TreeInv
  <2>3. pos[t] # 0 => pos[t] \in 1 .. Len(Children[t]) /\ Children[t][pos[t]] \in Subtasks(t)
    BY <1>a, <2>2, SubtaskFacts DEF SeqTaskInv
  <2>4. LastOutcome(t) \in {"ok", "failed"}
    BY <1>a, <2>1, <2>3, SubtaskFacts DEF LastOutcome, Outcomes
  <2>5. LastOutcome(t) = "ok" => \A c \in Subtasks(t) : outcome[c] = "ok"
    <3>1. pos[t] \in Nat /\ Len(Children[t]) \in Nat
      BY <1>a, SubtaskFacts
    <3>2. ASSUME LastOutcome(t) = "ok", NEW i \in 1 .. Len(Children[t])
          PROVE  outcome[Children[t][i]] = "ok"
      <4>1. CASE i = pos[t]
        BY <2>1, <3>1, <3>2, <4>1 DEF LastOutcome
      <4>2. CASE i < pos[t]
        BY <2>2, <4>2 DEF SeqTaskInv
      <4> QED BY <2>1, <3>1, <3>2, <4>1, <4>2
    <3> QED BY <3>2 DEF Subtasks
  <2>6. LastOutcome(t) = "failed" => \E c \in Subtasks(t) : outcome[c] = "failed"
    BY <2>3 DEF LastOutcome
  <2>7. Tree!Succeed(t) \/ Tree!Fail(t)
    BY <1>b, <2>1, <2>4, <2>5, <2>6, EndStep
  <2> QED BY <1>c, <2>7
<1>6. ASSUME NEW t \in Tasks, HandlerReturn(t) PROVE [Tree!Next]_St
  <2>1. /\ stage[t] = "waiting" /\ outcome[t] = "none" /\ inner[t] \in {"ok", "failed"}
        /\ Signal(t, inner[t])
    BY <1>a, <1>6 DEF HandlerReturn, Outcomes
  <2>2. Parallel(t) => ParTaskInv(t)
    BY <1>b DEF TreeInv
  <2>3. ~Parallel(t) => Kind[t] = "device" /\ Subtasks(t) = {}
    BY <1>b, <2>1, TreeAssumption DEF StageInv, Parallel, Subtasks
  <2>4. Tree!Succeed(t) \/ Tree!Fail(t)
    BY <1>b, <2>1, <2>2, <2>3, EndStep DEF ParTaskInv
  <2> QED BY <1>c, <2>4
<1>7. ASSUME NEW t \in Tasks, SequentialSubmit(t) PROVE UNCHANGED St
  <2> DEFINE c == Children[t][pos[t] + 1]
  <2>1. stage' = [stage EXCEPT ![c] = "queued"] /\ UNCHANGED outcome
    BY <1>7 DEF SequentialSubmit
  <2>2. stage[c] = "new"
    BY <1>b, <1>7, TreeSubmit
  <2> QED BY <1>a, <2>1, <2>2, StutterStep
<1>8. ASSUME NEW t \in Tasks, HandleParallel(t) PROVE UNCHANGED St
  <2>1. /\ stage[t] = "routed" /\ UNCHANGED outcome
        /\ stage' = [u \in Tasks |-> IF u = t THEN "waiting"
                                     ELSE IF u \in Subtasks(t) THEN "queued" ELSE stage[u]]
    BY <1>8 DEF HandleParallel, Routed
  <2>2. \A c \in Subtasks(t) : stage[c] = "new"
    BY <1>b, <1>8, TreeFanOut
  <2> QED BY <2>1, <2>2, StutterStep
<1>9. ASSUME NEW t \in Tasks, HandleDevice(t) PROVE UNCHANGED St
  BY <1>a, <1>9, StutterStep DEF HandleDevice, Routed
<1>10. ASSUME NEW j \in Jobs, Submit(j) PROVE UNCHANGED St
  <2>1. stage[j] = "new"
    BY <1>b, <1>10 DEF Submit, StageInv
  <2> QED BY <1>a, <1>10, <2>1, StutterStep DEF Submit
<1>11. ASSUME NEW w \in Workers, WorkerTake(w) \/ WorkerSkip(w) PROVE UNCHANGED St
  <2>1. CASE WorkerTake(w)
    <3>1. stage[Head(parQ)] = "queued"
      BY <1>a, <1>b, <2>1, QueueTail DEF QueueInv, WorkerTake
    <3> QED BY <1>a, <2>1, <3>1, StutterStep DEF WorkerTake, Take
  <2>2. CASE WorkerSkip(w)
    BY <1>a, <2>2, StutterStep DEF WorkerSkip
  <2> QED BY <1>11, <2>1, <2>2
<1>12. ASSUME \/ \E j \in Jobs : Return(j)
              \/ \E th \in Threads : Done(th) \/ Leave(th)
              \/ \E w \in Workers : WorkerDone(w)
              \/ \E t \in Tasks : DeviceFinish(t)
              \/ DevTake \/ SubscribeFails \/ SendCommand \/ DeviceReply \/ HandleReply
              \/ \E e \in events : HandleEvent(e)
              \/ PoolsStopped \/ DevLeave \/ Stopped \/ Stop \/ UNCHANGED vars
       PROVE  UNCHANGED St
  <2>1. UNCHANGED <<stage, outcome>>
    BY <1>12 DEF Return, Done, Leave, WorkerDone, DeviceFinish, DevTake, SubscribeFails, SendCommand,
                 DeviceReply, HandleReply, HandleEvent, PoolsStopped, DevLeave, Stopped, Stop, vars
  <2> QED BY <2>1, StutterStep
<1> QED
  BY <1>1, <1>2, <1>3, <1>4, <1>5, <1>6, <1>7, <1>8, <1>9, <1>10, <1>11, <1>12
  DEF Next, Progress, Threads

(* The executor implements the tree of tasks, whatever the forest of jobs, *)
(* the number of workers, the devices' answers and the order of the steps. *)
THEOREM Refinement == Spec => ImplementsTree
<1>1. Init => Tree!Init
  BY DEF Init, Tree!Init, Status
<1>2. IInv /\ [Next]_vars => [Tree!Next]_St
  BY RefinesStep
<1> QED
  BY <1>1, <1>2, Invariance, PTL DEF Spec, ImplementsTree, Tree!Spec, St

==============================================================================
