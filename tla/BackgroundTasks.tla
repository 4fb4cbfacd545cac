-------------------------- MODULE BackgroundTasks --------------------------
(***************************************************************************)
(* The background tasks (util/background_task.py) on which the monitors    *)
(* and the aborts run: tasks with a thread of their own, that act once or  *)
(* again and again, the processor that submits them and keeps them in a    *)
(* list, and its reaper, which removes from that list, while it goes       *)
(* through it, what no longer runs.                                        *)
(*                                                                         *)
(* What makes it hard: the thread of a task, its submitter, who may stop   *)
(* it, and the reaper read and write its state and its reference to the    *)
(* thread in any order; only the single assignments are under a lock.      *)
(*                                                                         *)
(* Bound: the tasks of Tasks, each submitted by a thread of its own, which *)
(* runs it and may then stop it.                                           *)
(***************************************************************************)
EXTENDS Sequences, Naturals, SequencesExt

CONSTANT Tasks

VARIABLES
  kind,       \* of each task, whether it has a frequency
  list,       \* _tasks of the processor
  state,      \* of each task, its RunState
  ref,        \* of each task, whether _thread is set
  completed,  \* of each task, _completed
  thread,     \* of each task, where its thread is
  sub,        \* of each task, where the thread is that submits it
  reaper      \* where the reaper is in the list, and the task it looks at

vars == <<kind, list, state, ref, completed, thread, sub, reaper>>

NoTask == "no task"
RunStates == {"STOPPED", "STARTING", "RUNNING", "STOPPING", "ERRORED"}
ThreadAt == {"none", "up", "check", "act", "finish", "fail", "clear", "done"}
SubmitterAt == {"new", "starting", "thread", "submitted", "join", "joining", "blocked", "joined",
                "cleared", "back"}

TypeOK ==
  /\ kind \in [Tasks -> {"once", "periodic"}]
  /\ list \in Seq(Tasks)
  /\ state \in [Tasks -> RunStates]
  /\ ref \in [Tasks -> BOOLEAN]
  /\ completed \in [Tasks -> BOOLEAN]
  /\ thread \in [Tasks -> ThreadAt]
  /\ sub \in [Tasks -> SubmitterAt]
  /\ reaper \in [i : Nat \ {0}, t : Tasks \cup {NoTask}]

Init ==
  /\ kind \in [Tasks -> {"once", "periodic"}]
  /\ list = <<>>
  /\ state = [t \in Tasks |-> "STOPPED"]
  /\ ref = [t \in Tasks |-> FALSE]
  /\ completed = [t \in Tasks |-> FALSE]
  /\ thread = [t \in Tasks |-> "none"]
  /\ sub = [t \in Tasks |-> "new"]
  /\ reaper = [i |-> 1, t |-> NoTask]

Set(t, s) == state' = [state EXCEPT ![t] = s]
Thread(t, pc) == thread' = [thread EXCEPT ![t] = pc]
Goto(t, pc) == sub' = [sub EXCEPT ![t] = pc]

InRunningState(t) == state[t] \in {"STARTING", "RUNNING"}
Running(t) == ref[t] /\ InRunningState(t)

-----------------------------------------------------------------------------
(* submit_task: the task is in the list before it runs. *)

Submit(t) ==
  /\ sub[t] = "new"
  /\ list' = Append(list, t)
  /\ Goto(t, "starting")
  /\ UNCHANGED <<kind, state, ref, completed, thread, reaper>>

(* run: it refuses a completed task, which a new one is not. *)
RunSets(t) ==
  /\ sub[t] = "starting"
  /\ Set(t, "STARTING")
  /\ Goto(t, "thread")
  /\ UNCHANGED <<kind, list, ref, completed, thread, reaper>>

RunStarts(t) ==
  /\ sub[t] = "thread"
  /\ ref' = [ref EXCEPT ![t] = TRUE]
  /\ Thread(t, "up")
  /\ Goto(t, "submitted")
  /\ UNCHANGED <<kind, list, state, completed, reaper>>

Leave(t) ==
  /\ sub[t] = "submitted"
  /\ Goto(t, "back")
  /\ UNCHANGED <<kind, list, state, ref, completed, thread, reaper>>

-----------------------------------------------------------------------------
(* stop *)

Stop(t) ==
  /\ sub[t] = "submitted"
  /\ IF InRunningState(t)
     THEN Set(t, "STOPPING") /\ Goto(t, "join")
     ELSE UNCHANGED state /\ Goto(t, "back")
  /\ UNCHANGED <<kind, list, ref, completed, thread, reaper>>

JoinLooks(t) ==
  /\ sub[t] = "join"
  /\ IF ref[t] THEN Goto(t, "joining") ELSE Goto(t, "back")
  /\ UNCHANGED <<kind, list, state, ref, completed, thread, reaper>>

(* What it waits for from here on is the thread, whatever becomes of the   *)
(* reference.                                                              *)
JoinReads(t) ==
  /\ sub[t] = "joining" /\ ref[t]
  /\ Goto(t, "blocked")
  /\ UNCHANGED <<kind, list, state, ref, completed, thread, reaper>>

(* JoinsNothing, a mistake, does not wait for the thread.                  *)
JoinsNothing(t) ==
  /\ sub[t] = "blocked"
  /\ Goto(t, "joined")
  /\ UNCHANGED <<kind, list, state, ref, completed, thread, reaper>>

Joins(t) ==
  /\ sub[t] = "blocked" /\ thread[t] = "done"
  /\ Goto(t, "joined")
  /\ UNCHANGED <<kind, list, state, ref, completed, thread, reaper>>

(* The thread has dropped its reference since it was looked at: that       *)
(* raises, and the task counts as errored.                                 *)
JoinFails(t) ==
  /\ sub[t] = "joining" /\ ~ref[t]
  /\ Set(t, "ERRORED")
  /\ Goto(t, "cleared")
  /\ UNCHANGED <<kind, list, ref, completed, thread, reaper>>

JoinSets(t) ==
  /\ sub[t] = "joined"
  /\ IF state[t] = "ERRORED" THEN UNCHANGED state ELSE Set(t, "STOPPED")
  /\ Goto(t, "cleared")
  /\ UNCHANGED <<kind, list, ref, completed, thread, reaper>>

JoinClears(t) ==
  /\ sub[t] = "cleared"
  /\ completed' = [completed EXCEPT ![t] = TRUE]
  /\ ref' = [ref EXCEPT ![t] = FALSE]
  /\ Goto(t, "back")
  /\ UNCHANGED <<kind, list, state, thread, reaper>>

-----------------------------------------------------------------------------
(* The thread of a task. *)

Up(t) ==
  /\ thread[t] = "up"
  /\ Set(t, "RUNNING")
  /\ Thread(t, "check")
  /\ UNCHANGED <<kind, list, ref, completed, sub, reaper>>

Check(t) ==
  /\ thread[t] = "check"
  /\ Thread(t, IF Running(t) THEN "act" ELSE "done")
  /\ UNCHANGED <<kind, list, state, ref, completed, sub, reaper>>

(* The action of a one-shot task returns or raises, that of a periodic     *)
(* task also, and only the raise ends it.                                  *)
Act(t) ==
  /\ thread[t] = "act"
  /\ \E next \in {IF kind[t] = "once" THEN "finish" ELSE "check", "fail"} : Thread(t, next)
  /\ UNCHANGED <<kind, list, state, ref, completed, sub, reaper>>

(* The action of a one-shot task has returned.  FinishLoops, a mistake,    *)
(* goes back to the check.                                                 *)
FinishLoops(t) ==
  /\ thread[t] = "finish"
  /\ Thread(t, "check")
  /\ UNCHANGED <<kind, list, state, ref, completed, sub, reaper>>

Finish(t) ==
  /\ thread[t] = "finish"
  /\ Set(t, "STOPPED")
  /\ Thread(t, "clear")
  /\ UNCHANGED <<kind, list, ref, completed, sub, reaper>>

Fail(t) ==
  /\ thread[t] = "fail"
  /\ Set(t, "ERRORED")
  /\ Thread(t, "clear")
  /\ UNCHANGED <<kind, list, ref, completed, sub, reaper>>

Clear(t) ==
  /\ thread[t] = "clear"
  /\ completed' = [completed EXCEPT ![t] = TRUE]
  /\ ref' = [ref EXCEPT ![t] = FALSE]
  /\ Thread(t, "done")
  /\ UNCHANGED <<kind, list, state, sub, reaper>>

-----------------------------------------------------------------------------
(* The reaper goes through the list by position, ten times a second, and   *)
(* removes from it as it goes.                                             *)

ReapNext ==
  /\ reaper.t = NoTask
  /\ reaper' = IF reaper.i <= Len(list)
               THEN [i |-> reaper.i + 1, t |-> list[reaper.i]]
               ELSE [i |-> 1, t |-> NoTask]
  /\ UNCHANGED <<kind, list, state, ref, completed, thread, sub>>

(* A task is in the list once.                                             *)
Without(t) ==
  IF t \in ToSet(list) THEN RemoveAt(list, CHOOSE i \in DOMAIN list : list[i] = t) ELSE list

(* ReapStopped, a mistake, removes only what is STOPPED.                   *)
ReapStopped ==
  /\ reaper.t # NoTask
  /\ list' = IF state[reaper.t] # "STOPPED" THEN list ELSE Without(reaper.t)
  /\ reaper' = [reaper EXCEPT !.t = NoTask]
  /\ UNCHANGED <<kind, state, ref, completed, thread, sub>>

Reap ==
  /\ reaper.t # NoTask
  /\ list' = IF Running(reaper.t) THEN list ELSE Without(reaper.t)
  /\ reaper' = [reaper EXCEPT !.t = NoTask]
  /\ UNCHANGED <<kind, state, ref, completed, thread, sub>>

-----------------------------------------------------------------------------

SubmitterStep(t) ==
  \/ RunSets(t) \/ RunStarts(t)
  \/ JoinLooks(t) \/ JoinReads(t) \/ Joins(t) \/ JoinFails(t) \/ JoinSets(t) \/ JoinClears(t)
ThreadStep(t) == Up(t) \/ Check(t) \/ Act(t) \/ Finish(t) \/ Fail(t) \/ Clear(t)
ReaperStep == ReapNext \/ Reap

Next ==
  \/ \E t \in Tasks : Submit(t) \/ Leave(t) \/ Stop(t) \/ SubmitterStep(t) \/ ThreadStep(t)
  \/ ReaperStep

Spec == Init /\ [][Next]_vars

(* Threads are scheduled, and an action returns. *)
FairSpec ==
  /\ Spec
  /\ WF_vars(ReaperStep)
  /\ \A t \in Tasks : WF_vars(SubmitterStep(t)) /\ WF_vars(ThreadStep(t))

-----------------------------------------------------------------------------
(* Properties *)

(* The end is final: no action runs once a task is completed, be it the    *)
(* thread or a stop that completed it.                                     *)
CompletedIsQuiet ==
  \A t \in Tasks : completed[t] => thread[t] = "done"

(* What has completed leaves the list, although the reaper skips a task    *)
(* each time it removes one and others append to it meanwhile.             *)
CompletedAreReaped ==
  \A t \in Tasks : completed[t] ~> t \notin ToSet(list)

(* stop returns to its caller when the action does, also when it comes     *)
(* before the thread has said that it is running.                          *)
StopReturns ==
  \A t \in Tasks : (sub[t] = "join" /\ kind[t] = "once") ~> sub[t] = "back"
=============================================================================
