------------------------ MODULE BackgroundTasksProofs ------------------------
(***************************************************************************)
(* For any tasks, stops and reaping: BackgroundTasks is type correct, and  *)
(* a task that is marked as completed no longer acts.                      *)
(*                                                                         *)
(* Two threads may mark a task.  Its own does so as the last thing it      *)
(* does.  A stop does so after the join, or when the join has found no     *)
(* reference to the thread, and the invariant says why that comes to the   *)
(* same: from the start of the thread on, the reference is only dropped    *)
(* by a thread that is at its end or on behalf of one.                     *)
(***************************************************************************)
EXTENDS BackgroundTasks, SequenceTheorems, TLAPS

(* The thread of a task is there once its submitter has started it.        *)
StartInv == \A t \in Tasks : sub[t] \in {"new", "starting", "thread"} <=> thread[t] = "none"

(* A thread without a reference is at its end.                             *)
RefInv == \A t \in Tasks : ~ref[t] => thread[t] \in {"none", "done"}

(* A join that is over has outlived the thread.                            *)
JoinInv == \A t \in Tasks : sub[t] \in {"joined", "cleared"} => thread[t] = "done"

QuietInv == StartInv /\ RefInv /\ JoinInv /\ CompletedIsQuiet

IInv == TypeOK /\ QuietInv

-----------------------------------------------------------------------------
(* What the assignments to one task do.                                    *)

LEMMA SetsOne ==
  ASSUME NEW f, NEW S, f \in [Tasks -> S], NEW t \in Tasks, NEW v \in S
  PROVE  /\ [f EXCEPT ![t] = v] \in [Tasks -> S]
         /\ [f EXCEPT ![t] = v][t] = v
         /\ \A u \in Tasks : u # t => [f EXCEPT ![t] = v][u] = f[u]
OBVIOUS

(* Taking a task out of the list leaves a list of tasks.                   *)
LEMMA WithoutIsList ==
  ASSUME NEW t \in Tasks, list \in Seq(Tasks)
  PROVE  Without(t) \in Seq(Tasks)
<1> DEFINE i == CHOOSE j \in DOMAIN list : list[j] = t
<1>1. CASE t \notin ToSet(list)
  BY <1>1 DEF Without
<1>2. CASE t \in ToSet(list)
  <2>1. \E j \in DOMAIN list : list[j] = t
    BY <1>2 DEF ToSet
  <2>2. i \in DOMAIN list
    BY <2>1
  <2>3. i \in 1 .. Len(list) /\ Len(list) \in Nat
    BY <2>2
  <2>4. SubSeq(list, 1, i - 1) \in Seq(Tasks) /\ SubSeq(list, i + 1, Len(list)) \in Seq(Tasks)
    <3> HIDE DEF i
    <3>1. \A j \in 1 .. Len(list) : list[j] \in Tasks
      OBVIOUS
    <3>2. /\ \A j \in 1 .. i - 1 : list[j] \in Tasks
          /\ \A j \in i + 1 .. Len(list) : list[j] \in Tasks
      BY <2>3, <3>1
    <3> QED
      BY <2>3, <3>2, SubSeqProperties
  <2>5. SubSeq(list, 1, i - 1) \o SubSeq(list, i + 1, Len(list)) \in Seq(Tasks)
    BY <2>4
  <2> QED
    BY <1>2, <2>5 DEF Without, RemoveAt
<1> QED
  BY <1>1, <1>2

LEMMA InitInv == ASSUME Init PROVE IInv
BY DEF Init, IInv, TypeOK, QuietInv, StartInv, RefInv, JoinInv, CompletedIsQuiet,
       RunStates, ThreadAt, SubmitterAt

-----------------------------------------------------------------------------
(* The steps of a submitter.                                               *)

LEMMA SubmitterInv ==
  ASSUME IInv, NEW t \in Tasks, Submit(t) \/ Leave(t) \/ Stop(t) \/ SubmitterStep(t)
  PROVE  IInv'
<1> USE DEF IInv, TypeOK, QuietInv, StartInv, RefInv, JoinInv, CompletedIsQuiet,
            RunStates, ThreadAt, SubmitterAt, Set, Thread, Goto
<1>1. CASE Submit(t)
  BY <1>1 DEF Submit
<1>2. CASE Leave(t)
  BY <1>2 DEF Leave
<1>3. CASE Stop(t)
  BY <1>3 DEF Stop
<1>4. CASE RunSets(t)
  BY <1>4 DEF RunSets
<1>5. CASE RunStarts(t)
  BY <1>5 DEF RunStarts
<1>6. CASE JoinLooks(t)
  BY <1>6 DEF JoinLooks
<1>7. CASE JoinReads(t)
  BY <1>7 DEF JoinReads
<1>8. CASE Joins(t)
  BY <1>8 DEF Joins
<1>9. CASE JoinFails(t)
  BY <1>9 DEF JoinFails
<1>10. CASE JoinSets(t)
  BY <1>10 DEF JoinSets
<1>11. CASE JoinClears(t)
  BY <1>11 DEF JoinClears
<1> QED
  BY <1>1, <1>2, <1>3, <1>4, <1>5, <1>6, <1>7, <1>8, <1>9, <1>10, <1>11 DEF SubmitterStep

(* The steps of the thread of a task.                                      *)
LEMMA ThreadInv ==
  ASSUME IInv, NEW t \in Tasks, ThreadStep(t)
  PROVE  IInv'
<1> USE DEF IInv, TypeOK, QuietInv, StartInv, RefInv, JoinInv, CompletedIsQuiet,
            RunStates, ThreadAt, SubmitterAt, Set, Thread
<1>1. CASE Up(t)
  BY <1>1 DEF Up
<1>2. CASE Check(t)
  BY <1>2 DEF Check
<1>3. CASE Act(t)
  BY <1>3 DEF Act
<1>4. CASE Finish(t)
  BY <1>4 DEF Finish
<1>5. CASE Fail(t)
  BY <1>5 DEF Fail
<1>6. CASE Clear(t)
  BY <1>6 DEF Clear
<1> QED
  BY <1>1, <1>2, <1>3, <1>4, <1>5, <1>6 DEF ThreadStep

(* The reaper disturbs the list alone, and takes from it what it looks at. *)
LEMMA ReaperInv ==
  ASSUME IInv, ReaperStep
  PROVE  IInv'
<1>1. QuietInv'
  BY DEF ReaperStep, ReapNext, Reap, IInv, QuietInv, StartInv, RefInv, JoinInv, CompletedIsQuiet
<1>2. CASE ReapNext
  <2>1. reaper'.i \in Nat \ {0} /\ reaper'.t \in Tasks \cup {NoTask}
    BY <1>2 DEF ReapNext, IInv, TypeOK
  <2>2. reaper' = [i |-> reaper'.i, t |-> reaper'.t]
    BY <1>2 DEF ReapNext
  <2>3. TypeOK'
    BY <1>2, <2>1, <2>2 DEF ReapNext, IInv, TypeOK
  <2> QED
    BY <1>1, <2>3 DEF IInv
<1>3. CASE Reap
  <2>1. reaper.t \in Tasks
    BY <1>3 DEF Reap, IInv, TypeOK
  <2>2. list' \in Seq(Tasks)
    BY <1>3, <2>1, WithoutIsList DEF Reap, IInv, TypeOK
  <2>3. TypeOK'
    BY <1>3, <2>2 DEF Reap, IInv, TypeOK
  <2> QED
    BY <1>1, <2>3 DEF IInv
<1> QED
  BY <1>2, <1>3 DEF ReaperStep

LEMMA NextInv == ASSUME IInv, [Next]_vars PROVE IInv'
<1>1. CASE Next
  BY <1>1, SubmitterInv, ThreadInv, ReaperInv DEF Next
<1>2. CASE UNCHANGED vars
  BY <1>2 DEF vars, IInv, TypeOK, QuietInv, StartInv, RefInv, JoinInv, CompletedIsQuiet
<1> QED
  BY <1>1, <1>2

LEMMA Invariance == Spec => []IInv
<1>1. Init => IInv
  BY InitInv
<1>2. IInv /\ [Next]_vars => IInv'
  BY NextInv
<1> QED
  BY <1>1, <1>2, PTL DEF Spec

(* States, threads and the list keep their types, whatever the reaper      *)
(* takes out of the list while others append to it.                        *)
THEOREM TypeCorrect == Spec => []TypeOK
<1>1. IInv => TypeOK
  BY DEF IInv
<1> QED
  BY <1>1, Invariance, PTL

(* A completed task no longer acts, for any number of tasks.               *)
THEOREM CompletedStaysQuiet == Spec => []CompletedIsQuiet
<1>1. IInv => CompletedIsQuiet
  BY DEF IInv, QuietInv
<1> QED
  BY <1>1, Invariance, PTL
=============================================================================
