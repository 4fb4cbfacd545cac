-------------------------- MODULE RemoteTasksProofs --------------------------
(***************************************************************************)
(* For any number of devices, whatever the order in which their reports    *)
(* are handled: COMPLETED is reported only when every device has completed *)
(* its command; once no change waits to be worked out the last report is   *)
(* what the tasks amount to; and the progress it shows is from 0 to 100.   *)
(*                                                                         *)
(* A report may be about a state the devices have left, so the argument    *)
(* needs that a device does not leave COMPLETED: it goes on only while it  *)
(* is queued or at work, and the sender turns to each device once.         *)
(*                                                                         *)
(* That a sum over n tasks is at most 100 * n is by a least number: were   *)
(* there a set of tasks whose sum is more, there would be one of the least *)
(* size; it has a task, and without that task it is smaller (SumBounded).  *)
(*                                                                         *)
(* The same lemmas bound what the sub-bands of a scan add up to, so that   *)
(* the theorems about MonitorData are here, too, at the end of this file.  *)
(***************************************************************************)
EXTENDS RemoteTasks, MonitorData, WellFoundedInduction, FiniteSetTheorems, TLAPS

News == ({"status"} \X Statuses) \cup ({"progress"} \X (0 .. 100))

(* The part of the types that the argument needs.                          *)
TypeInv ==
  /\ device \in [Tasks -> [status : Statuses, progress : 0 .. 100]]
  /\ status \in [Tasks -> Statuses]
  /\ handlers \subseteq [task : Tasks, news : News, waits : BOOLEAN]
  /\ at \in Tasks
  /\ DOMAIN reported = {"status", "progress", "updates"}

(* A device that the sender has yet to turn to has done nothing.           *)
OrderInv ==
  /\ pc = "staging" => \A t \in Tasks : device[t].status = "STAGING"
  /\ pc = "call" => \A t \in Tasks : t >= at => device[t].status = "STAGING"
  /\ pc = "record" => \A t \in Tasks : t > at => device[t].status = "STAGING"

(* What a task, an answer or an event takes for COMPLETED is so.           *)
TrueInv ==
  /\ \A t \in Tasks : status[t] = "COMPLETED" => device[t].status = "COMPLETED"
  /\ pc = "record" /\ answer = "OK" => device[at].status = "COMPLETED"
  /\ \A h \in handlers :
       h.news[1] = "status" /\ h.news[2] = "COMPLETED" => device[h.task].status = "COMPLETED"

Inv == TypeInv /\ OrderInv /\ TrueInv /\ CompletedMeansAll

-----------------------------------------------------------------------------

(* What a device says is of the kind that a handler takes.                 *)
LEMMA NotifyType ==
  ASSUME NEW t \in Tasks, NEW about, NEW value, <<about, value>> \in News
  PROVE  /\ Notify(t, about, value) \in [task : Tasks, news : News, waits : BOOLEAN]
         /\ Notify(t, about, value).task = t
         /\ Notify(t, about, value).news = <<about, value>>
  BY DEF Notify

(* A set of numbers has a least one.                                       *)
LEMMA LeastNumber ==
  ASSUME NEW S, S \subseteq Nat, S # {}
  PROVE  \E x \in S : \A y \in S : x <= y
<1> DEFINE Less == {p \in Nat \X Nat : p[1] < p[2]}
<1>1. IsWellFoundedOn(Less, Nat)
  BY NatLessThanWellFounded, Zenon DEF OpToRel
<1>2. PICK x \in S : \A y \in S : <<y, x>> \notin Less
  <2> HIDE DEF Less
  <2> QED
    BY <1>1, WFMin
<1>3. ASSUME NEW y \in S PROVE x <= y
  <2>1. x \in Nat /\ y \in Nat
    OBVIOUS
  <2>2. y < x => <<y, x>> \in Less
    BY <2>1
  <2> QED
    BY <1>2, <2>1, <2>2
<1> QED
  BY <1>3

(* A set of tasks has a first one.                                         *)
LEMMA FirstTask ==
  ASSUME NEW S, S \subseteq Tasks, S # {}
  PROVE  Min(S) \in S
<1>1. S \subseteq Nat
  BY NAssumption DEF Tasks
<1> QED
  BY <1>1, LeastNumber DEF Min

(* COMPLETED is what is worked out only when all tasks are.                *)
LEMMA OverallMeansAll ==
  ASSUME Overall = "COMPLETED"
  PROVE  \A t \in Tasks : status[t] = "COMPLETED"
<1>1. SUFFICES ASSUME Unfinished # {} PROVE FALSE
  BY DEF Unfinished
<1>2. Min(Unfinished) \in Unfinished
  BY <1>1, FirstTask DEF Unfinished
<1>3. status[Min(Unfinished)] # "COMPLETED"
  BY <1>2 DEF Unfinished
<1> QED
  BY <1>1, <1>3 DEF Overall

(* A device that changes was not COMPLETED, and what has been said of      *)
(* COMPLETED devices stays true.                                           *)
Keeps == \A t \in Tasks : device[t].status = "COMPLETED" => device'[t].status = "COMPLETED"

LEMMA InitInv == ASSUME Init PROVE Inv
<1>1. 1 \in Tasks
  BY NAssumption DEF Tasks
<1> QED
  BY <1>1 DEF Init, Inv, TypeInv, OrderInv, TrueInv, CompletedMeansAll, Report, Statuses, Ended

LEMMA CallInv ==
  ASSUME Inv, Call
  PROVE  Inv'
<1> USE DEF Inv, TypeInv, OrderInv, TrueInv, CompletedMeansAll
<1>1. PICK a \in Answers :
        /\ answer' = a
        /\ device' = CASE a = "OK" -> [device EXCEPT ![at] = [status |-> "COMPLETED", progress |-> 100]]
                       [] a = "QUEUED" -> [device EXCEPT ![at].status = "QUEUED"]
                       [] OTHER -> [device EXCEPT ![at].status = "REJECTED"]
        /\ handlers' = IF a = "QUEUED" THEN handlers \cup {Notify(at, "status", "QUEUED")} ELSE handlers
  BY DEF Call
<1>2. device[at].status = "STAGING"
  BY NAssumption DEF Call, Tasks
<1>3. /\ device' \in [Tasks -> [status : Statuses, progress : 0 .. 100]]
      /\ \A t \in Tasks : t # at => device'[t] = device[t]
      /\ a = "OK" => device'[at].status = "COMPLETED"
  <2>1. CASE a = "OK"
    <3>1. device' = [device EXCEPT ![at] = [status |-> "COMPLETED", progress |-> 100]]
      BY <1>1, <2>1
    <3> QED
      BY <2>1, <3>1 DEF Statuses, Ended
  <2>2. CASE a = "QUEUED"
    <3>1. device' = [device EXCEPT ![at].status = "QUEUED"]
      BY <1>1, <2>2
    <3> QED
      BY <2>2, <3>1 DEF Statuses, Ended
  <2>3. CASE a \notin {"OK", "QUEUED"}
    <3>1. device' = [device EXCEPT ![at].status = "REJECTED"]
      BY <1>1, <2>3
    <3> QED
      BY <2>3, <3>1 DEF Statuses, Ended
  <2> QED
    BY <2>1, <2>2, <2>3
<1>4. Keeps
  BY <1>2, <1>3 DEF Keeps
<1>5. /\ Notify(at, "status", "QUEUED") \in [task : Tasks, news : News, waits : BOOLEAN]
      /\ Notify(at, "status", "QUEUED").task = at
      /\ Notify(at, "status", "QUEUED").news = <<"status", "QUEUED">>
  <2>1. <<"status", "QUEUED">> \in News
    BY DEF News, Statuses
  <2> QED
    BY <2>1, NotifyType
<1>6. TypeInv'
  <2>1. \A h \in handlers' : h \in handlers \/ h = Notify(at, "status", "QUEUED")
    BY <1>1
  <2>2. status' = status /\ at' = at /\ reported' = reported
    BY DEF Call, taskVars
  <2> QED
    BY <1>3, <1>5, <2>1, <2>2
<1>7. OrderInv'
  BY <1>3, NAssumption DEF Call, Tasks
<1>8. TrueInv'
  <2>1. \A h \in handlers' : h \in handlers \/ h = Notify(at, "status", "QUEUED")
    BY <1>1
  <2>2. \A h \in handlers : h.task \in Tasks
    OBVIOUS
  <2>3. status' = status /\ at' = at /\ answer' = a
    BY <1>1 DEF Call, taskVars
  <2> QED
    BY <1>3, <1>4, <1>5, <2>1, <2>2, <2>3 DEF Keeps
<1>9. CompletedMeansAll'
  BY <1>4 DEF Call, Keeps
<1> QED
  BY <1>6, <1>7, <1>8, <1>9

LEMMA RecordInv ==
  ASSUME Inv, Record
  PROVE  Inv'
<1> USE DEF Inv, TypeInv, OrderInv, TrueInv, CompletedMeansAll
<1>1. status' \in [Tasks -> Statuses]
  BY DEF Record, Statuses, Ended
<1>2. \A t \in Tasks : status'[t] = "COMPLETED" => device[t].status = "COMPLETED"
  BY DEF Record
<1>3. device' = device /\ handlers' = handlers /\ pc' # "record" /\ pc' # "staging"
  BY DEF Record, Rejected, deviceVars
<1>4. at' \in Tasks /\ (pc' = "call" => at' = at + 1)
  BY NAssumption DEF Record, Rejected, Tasks
<1>5. /\ DOMAIN reported' = {"status", "progress", "updates"}
      /\ reported' = reported \/ reported'.status = "REJECTED"
  BY DEF Record
<1>6. OrderInv'
  BY <1>3, <1>4, NAssumption DEF Record, Tasks
<1>7. CompletedMeansAll'
  BY <1>3, <1>5
<1> QED
  BY <1>1, <1>2, <1>3, <1>4, <1>5, <1>6, <1>7

LEMMA ProgressesInv ==
  ASSUME Inv, NEW t \in Tasks, Progresses(t)
  PROVE  Inv'
<1> USE DEF Inv, TypeInv, OrderInv, TrueInv, CompletedMeansAll
<1> DEFINE Tell(value) == handlers \cup {Notify(t, "status", value)}
<1>1. /\ device' \in [Tasks -> [status : Statuses, progress : 0 .. 100]]
      /\ \A u \in Tasks : u # t => device'[u] = device[u]
      /\ device[t].status \in {"QUEUED", "IN_PROGRESS"}
  BY DEF Progresses, Statuses, Ended
<1>2. Keeps
  BY <1>1 DEF Keeps
<1>3. PICK h : handlers' = handlers \cup {h} /\ h.task = t
               /\ h \in [task : Tasks, news : News, waits : BOOLEAN]
               /\ (h.news[1] = "status" /\ h.news[2] = "COMPLETED" => device'[t].status = "COMPLETED")
  <2>1. CASE handlers' = Tell("IN_PROGRESS")
    <3>1. <<"status", "IN_PROGRESS">> \in News
      BY DEF News, Statuses
    <3> QED
      BY <2>1, <3>1, NotifyType
  <2>2. CASE handlers' = handlers \cup {Notify(t, "progress", 50)}
    <3>1. <<"progress", 50>> \in News
      BY DEF News
    <3> QED
      BY <2>2, <3>1, NotifyType
  <2>3. CASE \E s \in {"COMPLETED", "FAILED", "ABORTED"} :
               device' = [device EXCEPT ![t].status = s] /\ handlers' = Tell(s)
    <3>1. PICK s \in {"COMPLETED", "FAILED", "ABORTED"} :
            device' = [device EXCEPT ![t].status = s] /\ handlers' = Tell(s)
      BY <2>3
    <3>2. <<"status", s>> \in News
      BY DEF News, Statuses, Ended
    <3>3. device'[t].status = s
      BY <3>1
    <3> QED
      BY <3>1, <3>2, <3>3, NotifyType
  <2> QED
    BY <2>1, <2>2, <2>3 DEF Progresses
<1>4. \A u \in Tasks : device[u].status = "STAGING" => device'[u].status = "STAGING"
  BY <1>1
<1>5. UNCHANGED <<status, pc, at, answer, reported>>
  BY DEF Progresses, taskVars, senderVars
<1>6. TypeInv'
  BY <1>1, <1>3, <1>5
<1>7. OrderInv'
  BY <1>4, <1>5
<1>8. TrueInv'
  BY <1>2, <1>3, <1>5 DEF Keeps
<1>9. CompletedMeansAll'
  BY <1>2, <1>5 DEF Keeps
<1> QED
  BY <1>6, <1>7, <1>8, <1>9

LEMMA HandlerInv ==
  ASSUME Inv, NEW h \in handlers, Arrive(h) \/ Update(h)
  PROVE  Inv'
<1> USE DEF Inv, TypeInv, OrderInv, TrueInv, CompletedMeansAll
<1>1. CASE Arrive(h)
  <2>1. h \in [task : Tasks, news : News, waits : BOOLEAN]
    OBVIOUS
  <2>2. status' \in [Tasks -> Statuses]
    BY <1>1, <2>1 DEF Arrive, News, Statuses, Ended
  <2>3. \A t \in Tasks : status'[t] = "COMPLETED" => device[t].status = "COMPLETED"
    BY <1>1, <2>1 DEF Arrive, News
  <2>4. \A k \in handlers' : /\ k \in [task : Tasks, news : News, waits : BOOLEAN]
                             /\ \E l \in handlers : k.task = l.task /\ k.news = l.news
    <3> DEFINE moved == [h EXCEPT !.waits = TRUE]
    <3>1. /\ moved \in [task : Tasks, news : News, waits : BOOLEAN]
          /\ moved.task = h.task /\ moved.news = h.news
      BY <2>1
    <3>2. handlers' \subseteq handlers \cup {moved}
      BY <1>1 DEF Arrive
    <3> HIDE DEF moved
    <3> QED
      BY <3>1, <3>2
  <2>5. UNCHANGED <<device, pc, at, answer, reported>>
    BY <1>1 DEF Arrive, senderVars
  <2> QED
    BY <2>2, <2>3, <2>4, <2>5
<1>2. CASE Update(h)
  <2>1. handlers' \subseteq handlers /\ UNCHANGED <<device, status, pc, at, answer>>
    BY <1>2 DEF Update, taskVars, senderVars
  <2>2. reported' = Report(Overall, Average, 1)
    BY <1>2 DEF Update
  <2>3. DOMAIN reported' = {"status", "progress", "updates"} /\ reported'.status = Overall
    BY <2>2 DEF Report
  <2>4. CompletedMeansAll'
    BY <2>1, <2>3, OverallMeansAll
  <2> QED
    BY <2>1, <2>3, <2>4
<1> QED
  BY <1>1, <1>2

LEMMA NextInv == ASSUME Inv, [Next]_vars PROVE Inv'
<1> USE DEF Inv, TypeInv, OrderInv, TrueInv, CompletedMeansAll
<1>1. CASE Start
  BY <1>1, NAssumption DEF Start, deviceVars, taskVars, Report, Tasks
<1>2. CASE RunToCompletion \/ TimeOut \/ CallRaises
  BY <1>2, ZenonT(60) DEF RunToCompletion, TimeOut, CallRaises, deviceVars, taskVars
<1>3. CASE UNCHANGED vars
  BY <1>3 DEF vars, deviceVars, taskVars, senderVars
<1> QED
  BY <1>1, <1>2, <1>3, CallInv, RecordInv, ProgressesInv, HandlerInv DEF Next, Sender

(* COMPLETED is reported only when every device has completed its command, *)
(* for any number of devices, answers and orders of their reports.         *)
THEOREM CompletedIsTrue == Spec => []CompletedMeansAll
<1>1. Init => Inv
  BY InitInv
<1>2. Inv /\ [Next]_vars => Inv'
  BY NextInv
<1>3. Inv => CompletedMeansAll
  BY DEF Inv
<1> QED
  BY <1>1, <1>2, <1>3, PTL DEF Spec

-----------------------------------------------------------------------------
(* A report is made without the lock, so never while the sender is still   *)
(* sending; and the last one amounts to what the tasks know, unless a      *)
(* thread has changed a task and has yet to have it worked out.            *)

SendingInv ==
  /\ pc = "staging" => handlers = {}
  /\ pc \in {"call", "record"} => lock
  /\ pc \in {"staging", "call", "record"} => reported.updates = 0

AddUpInv ==
  (\A h \in handlers : ~h.waits) /\ reported.updates = 1 =>
    reported.status = Overall /\ reported.progress = Average

SumsInv == Inv /\ SendingInv /\ AddUpInv

(* What the tasks amount to depends on what they know, and on nothing else. *)
LEMMA SameTasks ==
  ASSUME status' = status, progress' = progress
  PROVE  Overall' = Overall /\ Average' = Average
<1>1. Overall' = Overall
  BY DEF Overall, Unfinished
<1> QED
  BY <1>1 DEF Average

LEMMA SumsInit == ASSUME Init PROVE SendingInv /\ AddUpInv
  BY DEF Init, SendingInv, AddUpInv, Report

LEMMA SumsSender ==
  ASSUME SumsInv, Sender
  PROVE  SendingInv' /\ AddUpInv'
<1> USE DEF SumsInv, Inv, TypeInv
<1>1. CASE Start
  BY <1>1 DEF Start, SendingInv, AddUpInv, Report, deviceVars
<1>2. CASE Call
  <2>1. pc' = "record" /\ reported' = reported /\ lock' = lock /\ pc = "call"
    BY <1>2 DEF Call
  <2>2. TypeInv'
    BY <1>2, CallInv DEF Inv
  <2> QED
    BY <2>1, <2>2 DEF SendingInv, AddUpInv
<1>3. CASE Record
  <2>1. handlers' = handlers /\ pc = "record" /\ reported'.updates = reported.updates
    BY <1>3 DEF Record, deviceVars
  <2>2. pc' \in {"rejected", "run"} \/ (pc' = "call" /\ lock' = lock)
    BY <1>3 DEF Record, Rejected
  <2>3. reported'.updates = 0
    BY <2>1 DEF SendingInv
  <2>4. SendingInv'
    BY <2>1, <2>2, <2>3 DEF SendingInv
  <2>5. AddUpInv'
    BY <2>3 DEF AddUpInv
  <2> QED
    BY <2>4, <2>5
<1>4. CASE RunToCompletion \/ TimeOut
  <2>1. /\ UNCHANGED <<handlers, status, progress, reported, lock>>
        /\ pc' \in {"completed", "timed out"}
    BY <1>4 DEF RunToCompletion, TimeOut, deviceVars, taskVars
  <2>2. Overall' = Overall /\ Average' = Average
    BY <2>1, SameTasks
  <2> QED
    BY <2>1, <2>2 DEF SendingInv, AddUpInv
<1>5. CASE CallRaises
  <2>1. /\ UNCHANGED <<handlers, status, progress, reported>>
        /\ pc = "call" /\ pc' = "raised"
    BY <1>5 DEF CallRaises, deviceVars, taskVars
  <2>2. reported'.updates = 0
    BY <2>1 DEF SendingInv
  <2> QED
    BY <2>1, <2>2 DEF SendingInv, AddUpInv
<1> QED
  BY <1>1, <1>2, <1>3, <1>4, <1>5 DEF Sender

LEMMA SumsProgresses ==
  ASSUME SumsInv, NEW t \in Tasks, Progresses(t)
  PROVE  SendingInv' /\ AddUpInv'
<1> USE DEF SumsInv, Inv, TypeInv
<1>1. UNCHANGED <<status, progress, reported, lock, pc>>
  BY DEF Progresses, taskVars, senderVars
<1>2. pc # "staging"
  BY DEF Progresses, OrderInv
<1>3. TypeInv'
  BY ProgressesInv DEF Inv
<1>4. \A h \in handlers : h \in handlers'
  BY DEF Progresses
<1>5. Overall' = Overall /\ Average' = Average
  BY <1>1, SameTasks
<1> QED
  BY <1>1, <1>2, <1>3, <1>4, <1>5 DEF SendingInv, AddUpInv

LEMMA SumsHandler ==
  ASSUME SumsInv, NEW h \in handlers, Arrive(h) \/ Update(h)
  PROVE  SendingInv' /\ AddUpInv'
<1> USE DEF SumsInv, Inv, TypeInv
<1>1. pc # "staging" /\ TypeInv' /\ pc' = pc /\ lock' = lock
  <2>1. TypeInv'
    BY HandlerInv DEF Inv
  <2> QED
    BY <2>1 DEF SendingInv, Arrive, Update, senderVars
<1>2. CASE Arrive(h)
  <2>1. reported' = reported
    BY <1>2 DEF Arrive
  <2>2. CASE About(h)
    <3> DEFINE moved == [h EXCEPT !.waits = TRUE]
    <3>1. moved \in handlers' /\ moved.waits
      BY <1>2, <2>2 DEF Arrive
    <3> QED
      BY <1>1, <2>1, <3>1 DEF SendingInv, AddUpInv
  <2>3. CASE ~About(h)
    <3>1. handlers' = handlers \ {h} /\ ~h.waits /\ status' = status /\ progress' = progress
      BY <1>2, <2>3 DEF Arrive
    <3>2. Overall' = Overall /\ Average' = Average
      BY <3>1, SameTasks
    <3> QED
      BY <1>1, <2>1, <3>1, <3>2 DEF SendingInv, AddUpInv
  <2> QED
    BY <2>2, <2>3
<1>3. CASE Update(h)
  <2>1. ~lock /\ status' = status /\ progress' = progress /\ reported' = Report(Overall, Average, 1)
    BY <1>3 DEF Update, taskVars
  <2>2. Overall' = Overall /\ Average' = Average
    BY <2>1, SameTasks
  <2>3. reported'.status = Overall /\ reported'.progress = Average
    BY <2>1 DEF Report
  <2> QED
    BY <1>1, <2>1, <2>2, <2>3 DEF SendingInv, AddUpInv
<1> QED
  BY <1>2, <1>3

(* Once no change waits to be worked out, the last report is what the      *)
(* tasks amount to, in whatever order the changes came and overlapped.     *)
THEOREM ReportsAreRight == Spec => []ReportsAddUp
<1>1. Init => SumsInv
  BY InitInv, SumsInit DEF SumsInv
<1>2. SumsInv /\ [Next]_vars => SumsInv'
  <2> SUFFICES ASSUME SumsInv, [Next]_vars PROVE SendingInv' /\ AddUpInv'
    BY NextInv DEF SumsInv
  <2>1. CASE UNCHANGED vars
    <3>1. UNCHANGED <<handlers, status, progress, reported, lock, pc>>
      BY <2>1 DEF vars, deviceVars, taskVars, senderVars
    <3>2. Overall' = Overall /\ Average' = Average
      BY <3>1, SameTasks
    <3> QED
      BY <3>1, <3>2 DEF SumsInv, SendingInv, AddUpInv
  <2> QED
    BY <2>1, SumsSender, SumsProgresses, SumsHandler DEF Next
<1>3. SumsInv => ReportsAddUp
  BY DEF SumsInv, AddUpInv, ReportsAddUp
<1> QED
  BY <1>1, <1>2, <1>3, PTL DEF Spec

-----------------------------------------------------------------------------
(* Sums over a finite set, which take away one element after another: they *)
(* are worked out by counting the elements.                                *)

One(s) == CHOOSE x \in s : TRUE
Summed(f, g, s) == IF s = {} THEN 0 ELSE f[One(s)] + g[s \ {One(s)}]
Sums(f, T, g) == g = [s \in SUBSET T |-> Summed(f, g, s)]
SumOver(f, T) == (CHOOSE g : Sums(f, T, g))[T]

LEMMA SumUnfolds == ASSUME NEW f PROVE SumOf(f) = SumOver(f, Tasks)
BY Zenon DEF SumOf, MapThenSumSet, MapThenFoldSet, SumOver, Sums, Summed, One

(* What holds of 0 and, with a number, of the next holds of every number.  *)
LEMMA Counting ==
  ASSUME NEW S, 0 \in S, \A n \in Nat : n \in S => n + 1 \in S
  PROVE  Nat \subseteq S
<1>1. SUFFICES ASSUME Nat \ S # {} PROVE FALSE
  OBVIOUS
<1>2. PICK n \in Nat \ S : \A k \in Nat \ S : n <= k
  BY <1>1, LeastNumber
<1>3. n # 0 /\ n - 1 \in Nat /\ ~(n <= n - 1) /\ n - 1 + 1 = n
  OBVIOUS
<1>4. n - 1 \in S
  BY <1>2, <1>3
<1> QED
  BY <1>3, <1>4

LEMMA TasksFinite == IsFiniteSet(Tasks) /\ Cardinality(Tasks) = N
<1>1. 1 \in Int /\ N \in Int /\ ~(1 > N) /\ N - 1 + 1 = N
  BY NAssumption
<1> QED BY <1>1, FS_Interval DEF Tasks

LEMMA TakeOne ==
  ASSUME NEW T, IsFiniteSet(T), NEW s \in SUBSET T, s # {}
  PROVE  /\ One(s) \in s /\ IsFiniteSet(s) /\ Cardinality(s) \in Nat \ {0}
         /\ s \ {One(s)} \in SUBSET T
         /\ Cardinality(s \ {One(s)}) = Cardinality(s) - 1
<1>1. One(s) \in s
  BY DEF One
<1>2. IsFiniteSet(s)
  BY FS_Subset
<1>3. Cardinality(s) \in Nat /\ Cardinality(s) # 0
  BY <1>2, FS_CardinalityType, FS_EmptySet
<1> QED BY <1>1, <1>2, <1>3, FS_RemoveElement

LEMMA SumExists ==
  ASSUME NEW T, IsFiniteSet(T), NEW f
  PROVE  \E g : Sums(f, T, g)
<1> DEFINE Good(g, n) == \A s \in SUBSET T : Cardinality(s) <= n => g[s] = Summed(f, g, s)
           S == {n \in Nat : \E g : Good(g, n)}
<1>0. \A s \in SUBSET T : Cardinality(s) \in Nat /\ Cardinality(s) <= Cardinality(T)
  BY FS_Subset, FS_CardinalityType
<1>1. 0 \in S
  <2> DEFINE g == [s \in SUBSET T |-> 0]
  <2>1. ASSUME NEW s \in SUBSET T, Cardinality(s) <= 0 PROVE g[s] = Summed(f, g, s)
    <3>1. Cardinality(s) = 0
      BY <1>0, <2>1
    <3>2. s = {}
      BY <3>1, FS_Subset, FS_EmptySet
    <3> QED BY <3>2 DEF Summed
  <2>2. Good(g, 0)
    BY <2>1
  <2> QED BY <2>2
<1>2. ASSUME NEW n \in Nat, n \in S PROVE n + 1 \in S
  <2>1. PICK g : Good(g, n)
    BY <1>2
  <2> DEFINE h == [s \in SUBSET T |-> Summed(f, g, s)]
  <2>2. ASSUME NEW s \in SUBSET T, Cardinality(s) <= n + 1 PROVE h[s] = Summed(f, h, s)
    <3>1. CASE s = {}
      BY <3>1 DEF Summed
    <3>2. CASE s # {}
      <4> DEFINE r == s \ {One(s)}
      <4>1. r \in SUBSET T /\ Cardinality(r) = Cardinality(s) - 1 /\ Cardinality(s) \in Nat
        BY <3>2, <1>0, TakeOne
      <4> HIDE DEF r
      <4>2. Cardinality(r) <= n
        BY <2>2, <4>1
      <4>3. g[r] = Summed(f, g, r)
        BY <2>1, <4>1, <4>2
      <4>4. h[r] = g[r]
        BY <4>1, <4>3
      <4> HIDE DEF h
      <4>5. Summed(f, g, s) = Summed(f, h, s)
        BY <4>4 DEF Summed, r
      <4>6. h[s] = Summed(f, g, s)
        BY DEF h
      <4> QED BY <4>5, <4>6
    <3> QED BY <3>1, <3>2
  <2>3. Good(h, n + 1)
    <3> HIDE DEF h
    <3> QED BY <2>2
  <2>4. n + 1 \in Nat
    OBVIOUS
  <2> HIDE DEF h
  <2> QED BY <2>3, <2>4
<1>3. Cardinality(T) \in S
  <2> HIDE DEF S
  <2>1. Nat \subseteq S
    BY <1>1, <1>2, Counting
  <2> QED BY <2>1, FS_CardinalityType
<1>4. PICK g : Good(g, Cardinality(T))
  BY <1>3
<1> DEFINE h == [s \in SUBSET T |-> Summed(f, g, s)]
<1>5. \A s \in SUBSET T : h[s] = g[s]
  BY <1>0, <1>4
<1>6. ASSUME NEW s \in SUBSET T PROVE Summed(f, g, s) = Summed(f, h, s)
  <2>1. CASE s = {}
    BY <2>1 DEF Summed
  <2>2. CASE s # {}
    <3>1. s \ {One(s)} \in SUBSET T
      OBVIOUS
    <3>2. h[s \ {One(s)}] = g[s \ {One(s)}]
      BY <1>5, <3>1
    <3> HIDE DEF h
    <3> QED BY <3>2 DEF Summed
  <2> QED BY <2>1, <2>2
<1>7. Sums(f, T, h)
  BY <1>6 DEF Sums
<1> HIDE DEF h
<1> QED BY <1>7

LEMMA SumBounded ==
  ASSUME NEW T, IsFiniteSet(T), NEW f, NEW b \in Nat, \A t \in T : f[t] \in 0 .. b
  PROVE  SumOver(f, T) \in Nat /\ SumOver(f, T) <= b * Cardinality(T)
<1> DEFINE g == CHOOSE g : Sums(f, T, g)
           S == {n \in Nat : \A s \in SUBSET T : Cardinality(s) = n => g[s] \in Nat /\ g[s] <= b * n}
<1>1. g = [s \in SUBSET T |-> Summed(f, g, s)]
  <2>1. Sums(f, T, g)
    BY SumExists
  <2> HIDE DEF g
  <2> QED BY <2>1 DEF Sums
<1>2. SumOver(f, T) = g[T]
  BY DEF SumOver
<1> HIDE DEF g
<1>3. 0 \in S
  <2>1. ASSUME NEW s \in SUBSET T, Cardinality(s) = 0 PROVE g[s] = 0
    <3>1. s = {}
      BY <2>1, FS_Subset, FS_EmptySet
    <3>2. g[s] = Summed(f, g, s)
      BY <1>1
    <3> QED BY <3>1, <3>2 DEF Summed
  <2>2. b * 0 = 0
    OBVIOUS
  <2> QED BY <2>1, <2>2
<1>4. ASSUME NEW n \in Nat, n \in S PROVE n + 1 \in S
  <2>1. ASSUME NEW s \in SUBSET T, Cardinality(s) = n + 1
        PROVE  g[s] \in Nat /\ g[s] <= b * (n + 1)
    <3>1. s # {}
      BY <2>1, FS_EmptySet
    <3>2. /\ One(s) \in T /\ s \ {One(s)} \in SUBSET T
          /\ Cardinality(s \ {One(s)}) = n
      BY <2>1, <3>1, TakeOne
    <3>3. g[s \ {One(s)}] \in Nat /\ g[s \ {One(s)}] <= b * n
      BY <1>4, <3>2
    <3>4. g[s] = f[One(s)] + g[s \ {One(s)}]
      <4>1. g[s] = Summed(f, g, s)
        BY <1>1
      <4> QED BY <3>1, <4>1 DEF Summed
    <3>5. f[One(s)] \in 0 .. b
      BY <3>2
    <3>6. b * (n + 1) = b * n + b /\ b * n \in Nat
      OBVIOUS
    <3>7. \A x, y, z \in Nat : x <= b /\ y <= z => x + y \in Nat /\ x + y <= z + b
      OBVIOUS
    <3> QED BY <3>3, <3>4, <3>5, <3>6, <3>7
  <2> QED BY <2>1
<1>5. Cardinality(T) \in S
  <2> HIDE DEF S
  <2>1. Nat \subseteq S
    BY <1>3, <1>4, Counting
  <2> QED BY <2>1, FS_CardinalityType
<1> QED BY <1>2, <1>5

LEMMA Quotient ==
  ASSUME NEW n \in Nat \ {0}, NEW a \in Nat, NEW b \in Nat, a <= b * n
  PROVE  a \div n \in 0 .. b
<1> DEFINE q == a \div n
           r == a % n
<1>1. q \in Int /\ r \in 0 .. n - 1 /\ a = n * q + r
  OBVIOUS
<1> HIDE DEF q, r
<1>2. q >= 0
  <2> SUFFICES ASSUME q <= 0 - 1 PROVE FALSE
    BY <1>1
  <2>1. n * q <= 0 - n
    BY <1>1
  <2> QED BY <1>1, <2>1
<1>3. q <= b
  <2> SUFFICES ASSUME q >= b + 1 PROVE FALSE
    BY <1>1
  <2>1. n * q >= n * (b + 1) /\ n * (b + 1) = b * n + n
    BY <1>1
  <2> QED BY <1>1, <2>1
<1> QED BY <1>1, <1>2, <1>3 DEF q

-----------------------------------------------------------------------------
(* The types that the argument above did without.                          *)

Pcs == {"staging", "call", "record", "run", "completed", "rejected", "raised", "timed out"}
OtherTypes ==
  /\ progress \in [Tasks -> 0 .. 100] /\ known \subseteq Tasks
  /\ lock \in BOOLEAN /\ pc \in Pcs /\ answer \in Answers \cup {Nothing}
  /\ aggregate \in Statuses
  /\ reported \in [status : Statuses, progress : 0 .. 100, updates : 0 .. 1]

(* What the tasks amount to is a status and a progress.                    *)
LEMMA AmountTypes ==
  ASSUME TypeInv, OtherTypes
  PROVE  Overall \in Statuses /\ Average \in 0 .. 100
<1>1. Overall \in Statuses
  <2>1. CASE Unfinished = {}
    BY <2>1 DEF Overall, Statuses, Ended
  <2>2. CASE Unfinished # {}
    <3>1. Min(Unfinished) \in Tasks
      BY <2>2, FirstTask DEF Unfinished
    <3>2. status[Min(Unfinished)] \in Statuses
      BY <3>1 DEF TypeInv
    <3> QED BY <2>2, <3>2 DEF Overall, Statuses
  <2> QED BY <2>1, <2>2
<1>2. Average \in 0 .. 100
  <2>1. \A t \in Tasks : progress[t] \in 0 .. 100
    BY DEF OtherTypes
  <2>2. SumOf(progress) \in Nat /\ SumOf(progress) <= 100 * N
    BY <2>1, SumUnfolds, SumBounded, TasksFinite
  <2>3. SumOf(progress) \div N \in 0 .. 100
    BY <2>2, NAssumption, Quotient
  <2> QED BY <2>3 DEF Average
<1> QED BY <1>1, <1>2

LEMMA OtherTypesStep ==
  ASSUME TypeInv, OtherTypes, [Next]_vars
  PROVE  OtherTypes'
<1> USE DEF OtherTypes
<1>1. CASE Start
  BY <1>1 DEF Start, taskVars, Report, Pcs, Statuses
<1>2. CASE Call
  BY <1>2 DEF Call, taskVars, Pcs
<1>3. CASE Record
  <2>1. progress' \in [Tasks -> 0 .. 100] /\ known' \subseteq Tasks
    BY <1>3 DEF Record, TypeInv
  <2>2. reported' = reported \/ reported' = [reported EXCEPT !.status = "REJECTED"]
    BY <1>3 DEF Record
  <2>3. reported' \in [status : Statuses, progress : 0 .. 100, updates : 0 .. 1]
    BY <2>2 DEF Statuses, Ended
  <2>4. lock' \in BOOLEAN /\ pc' \in Pcs /\ answer' = Nothing /\ aggregate' = aggregate
    BY <1>3 DEF Record, Rejected, Pcs
  <2> QED BY <2>1, <2>3, <2>4
<1>4. CASE RunToCompletion \/ TimeOut \/ CallRaises
  BY <1>4 DEF RunToCompletion, TimeOut, CallRaises, taskVars, Pcs
<1>5. ASSUME NEW t \in Tasks, Progresses(t) PROVE OtherTypes'
  BY <1>5 DEF Progresses, taskVars, senderVars
<1>6. ASSUME NEW h \in handlers, Arrive(h) PROVE OtherTypes'
  <2>1. h.task \in Tasks /\ h.news \in News
    BY DEF TypeInv
  <2>2. progress' \in [Tasks -> 0 .. 100]
    <3>1. CASE progress' = progress
      BY <3>1
    <3>2. CASE progress' = [progress EXCEPT ![h.task] = h.news[2]] /\ h.news[1] # "status"
      <4>1. h.news[2] \in 0 .. 100
        BY <2>1, <3>2 DEF News
      <4> QED BY <3>2, <4>1
    <3> QED BY <1>6, <3>1, <3>2 DEF Arrive
  <2> QED BY <1>6, <2>2 DEF Arrive, senderVars
<1>7. ASSUME NEW h \in handlers, Update(h) PROVE OtherTypes'
  <2>1. Overall \in Statuses /\ Average \in 0 .. 100
    BY AmountTypes
  <2>2. reported' \in [status : Statuses, progress : 0 .. 100, updates : 0 .. 1]
    BY <1>7, <2>1 DEF Update, Report
  <2> QED BY <1>7, <2>1, <2>2 DEF Update, taskVars, senderVars
<1>8. CASE UNCHANGED vars
  BY <1>8 DEF vars, taskVars, senderVars
<1> QED
  BY <1>1, <1>2, <1>3, <1>4, <1>5, <1>6, <1>7, <1>8 DEF Next, Sender

(* Every variable keeps to its type; above all, the progress reported is   *)
(* never less than 0 nor more than 100, for any number of devices.         *)
THEOREM TypeCorrect == Spec => []TypeOK
<1>1. Init => Inv /\ OtherTypes
  <2> SUFFICES ASSUME Init PROVE OtherTypes
    BY InitInv
  <2>1. reported = [status |-> "STAGING", progress |-> 0, updates |-> 0]
    BY DEF Init, Report
  <2>2. "STAGING" \in Statuses
    BY DEF Statuses
  <2>3. reported \in [status : Statuses, progress : 0 .. 100, updates : 0 .. 1]
    BY <2>1, <2>2
  <2>4. progress \in [Tasks -> 0 .. 100] /\ known \subseteq Tasks
    BY DEF Init
  <2> QED BY <2>2, <2>3, <2>4 DEF Init, OtherTypes, Pcs
<1>2. Inv /\ OtherTypes /\ [Next]_vars => (Inv /\ OtherTypes)'
  BY NextInv, OtherTypesStep DEF Inv
<1>3. Inv /\ OtherTypes => TypeOK
  BY DEF Inv, TypeInv, OtherTypes, TypeOK, Pcs, News
<1> QED
  BY <1>1, <1>2, <1>3, PTL DEF Spec

-----------------------------------------------------------------------------
(* The monitoring data of a scan, for any number of sub-bands              *)

PollInv ==
  /\ poll.at \in {"off", "sleeping", "total", "items", "iterating", "assign", "publish", "ended"}
  /\ poll.at # "off" => kind = "DSP"
  /\ poll.at \in {"total", "items", "iterating", "assign", "publish"} => poll.env \in 0 .. Cap
  /\ poll.at = "iterating" => poll.seen \in Stores
  /\ poll.at = "assign" => poll.total \in Totals

(* A monitor that handles data has sub-bands left. *)
MonsTypes ==
  /\ mon \in [Monitors -> MonitorAt] /\ todo \in [Monitors -> SUBSET Reported]
  /\ \A m \in Monitors : mon[m] = "handling" => todo[m] # {}
  /\ reg \in {"none"} \cup Monitors /\ told \subseteq Monitors

ScanTypes ==
  /\ work \in {"idle", "scanning", "stopping", "aborting", "reset", "total", "publish", "stopped"}
  /\ wait \in {"no", "signalled", "waiting"} /\ orderly \in BOOLEAN
  /\ wait # "no" => work \in {"stopping", "aborting"}

DataTypes ==
  /\ <<kind, api>> \in Devices
  /\ disk \in 0 .. Cap /\ written \in [Bands -> 0 .. MaxAmount]
  /\ store \in Stores /\ DOMAIN store \subseteq Reported
  /\ space \in 0 .. MaxSize
  /\ shown \in Totals /\ pushed \in Totals
  /\ holder \in {"free", "worker"} \cup Monitors
  /\ MonsTypes /\ ScanTypes /\ PollInv

(* A number times a smaller one is less. *)
LEMMA ProductGrows == \A a, b, c \in Nat : a <= b => c * a <= b * c /\ c * a \in Nat
<1> SUFFICES ASSUME NEW a \in Nat, NEW b \in Nat, NEW c \in Nat, a <= b
             PROVE  c * a <= b * c /\ c * a \in Nat
  OBVIOUS
<1>1. b - a \in Nat /\ c * (b - a) \in Nat /\ c * (b - a) = b * c - c * a
  OBVIOUS
<1>2. c * a \in Nat /\ b * c \in Nat
  OBVIOUS
<1>3. \A x, y \in Nat : y - x \in Nat => x <= y
  OBVIOUS
<1> QED BY <1>1, <1>2, <1>3

(* What a store amounts to is a sum like that of the progress of tasks. *)
LEMMA AmountsUnfold ==
  ASSUME NEW st
  PROVE  Amounts(st) = SumOver([b \in DOMAIN st |-> st[b].amount], DOMAIN st)
BY Zenon DEF Amounts, SumFunctionOnSet, FoldFunctionOnSet, MapThenFoldSet,
             SumOver, Sums, Summed, One

LEMMA StoreIs ==
  ASSUME NEW st \in Stores
  PROVE  /\ DOMAIN st \subseteq Bands
         /\ \A b \in DOMAIN st : st[b].amount \in 0 .. MaxAmount /\ st[b].free \in 0 .. Cap
         /\ st = Empty <=> DOMAIN st = {}
<1>1. PICK S \in SUBSET Bands : st \in [S -> BandData]
  BY DEF Stores, Bands
<1>2. DOMAIN Empty = {}
  BY DEF Empty
<1>3. ASSUME DOMAIN st = {} PROVE st = Empty
  BY <1>1, <1>3 DEF Empty
<1> QED BY <1>1, <1>2, <1>3 DEF BandData

LEMMA BandsFinite == IsFiniteSet(Bands) /\ Cardinality(Bands) = NumBands
<1>1. NumBands \in Int /\ 1 \in Int /\ 1 <= NumBands
  BY NumBandsAssumption
<1> QED BY <1>1, FS_Interval DEF Bands

LEMMA AmountsIn ==
  ASSUME NEW st \in Stores
  PROVE  Amounts(st) \in 0 .. NumBands * MaxAmount
<1> DEFINE f == [b \in DOMAIN st |-> st[b].amount]
<1>1. IsFiniteSet(DOMAIN st) /\ Cardinality(DOMAIN st) <= NumBands /\ Cardinality(DOMAIN st) \in Nat
  BY StoreIs, BandsFinite, FS_Subset, FS_CardinalityType
<1>2. \A b \in DOMAIN st : f[b] \in 0 .. MaxAmount
  BY StoreIs
<1> HIDE DEF f
<1>3. SumOver(f, DOMAIN st) \in Nat /\ SumOver(f, DOMAIN st) <= MaxAmount * Cardinality(DOMAIN st)
  BY <1>1, <1>2, SumBounded, CapAssumption
<1>4. MaxAmount * Cardinality(DOMAIN st) <= NumBands * MaxAmount /\ MaxAmount * Cardinality(DOMAIN st) \in Nat
  BY <1>1, NumBandsAssumption, ProductGrows, CapAssumption
<1>5. Amounts(st) = SumOver(f, DOMAIN st)
  BY AmountsUnfold DEF f
<1>6. NumBands * MaxAmount \in Nat
  BY NumBandsAssumption, CapAssumption
<1>7. \A x, y, z \in Nat : x <= y /\ y <= z => x \in 0 .. z
  OBVIOUS
<1> QED BY <1>3, <1>4, <1>5, <1>6, <1>7

LEMMA NothingRecorded == Amounts(Empty) = 0
<1> DEFINE f == [b \in DOMAIN Empty |-> Empty[b].amount]
<1>1. DOMAIN Empty = {}
  BY DEF Empty
<1>2. Amounts(Empty) = SumOver(f, {})
  BY <1>1, AmountsUnfold
<1> HIDE DEF f
<1>3. IsFiniteSet({}) /\ Cardinality({}) = 0
  BY FS_EmptySet
<1>4. \A b \in {} : f[b] \in 0 .. 0
  OBVIOUS
<1>5. SumOver(f, {}) \in Nat /\ SumOver(f, {}) <= 0 * Cardinality({})
  BY <1>3, <1>4, SumBounded
<1>6. 0 * Cardinality({}) = 0
  BY <1>3
<1> QED BY <1>2, <1>5, <1>6

LEMMA LeastFreeIn ==
  ASSUME NEW st \in Stores
  PROVE  LeastFree(st) \in 0 .. MaxSize
<1> DEFINE S == {MaxSize} \cup {st[b].free : b \in DOMAIN st}
<1>1. MaxSize \in Nat /\ Cap <= MaxSize /\ Cap \in Nat
  BY CapAssumption DEF MaxSize
<1>2. \A x \in S : x \in 0 .. MaxSize
  <2>1. \A b \in DOMAIN st : st[b].free \in 0 .. Cap
    BY StoreIs
  <2>2. \A b \in DOMAIN st : st[b].free \in 0 .. MaxSize
    BY <1>1, <2>1
  <2> QED BY <1>1, <2>2
<1>3. MaxSize \in S
  OBVIOUS
<1> HIDE DEF S
<1>a. S \subseteq Nat /\ S # {}
  BY <1>1, <1>2, <1>3
<1>4. \E x \in S : \A y \in S : x <= y
  BY <1>a, LeastNumber
<1>5. Min(S) \in S
  BY <1>4 DEF Min
<1>6. LeastFree(st) = Min(S)
  BY DEF LeastFree, S
<1> QED BY <1>2, <1>5, <1>6

LEMMA KindIs == DataTypes => kind \in {"RECV", "SMRB", "STAT", "DSP"} /\ api \in {"grpc", "simulator"}
<1> SUFFICES ASSUME DataTypes PROVE kind \in {"RECV", "SMRB", "STAT", "DSP"} /\ api \in {"grpc", "simulator"}
  OBVIOUS
<1>1. <<kind, api>> \in {"RECV", "SMRB", "STAT", "DSP"} \X {"grpc", "simulator"}
  BY DevicesAssumption DEF DataTypes
<1> QED BY <1>1

LEMMA ReportedIs ==
  ASSUME DataTypes
  PROVE  Reported \subseteq Bands /\ Reported # {} /\ (kind = "STAT" => Reported = {1})
<1>1. 1 \in Bands
  BY NumBandsAssumption DEF Bands
<1> QED BY <1>1 DEF Reported, Bands

LEMMA TotalIn ==
  ASSUME DataTypes, NEW st \in Stores, DOMAIN st \subseteq Reported
  PROVE  DataTotal(st) \in Totals /\ Known(st) \in 0 .. MaxSize
<1>1. Amounts(st) \in 0 .. NumBands * MaxAmount /\ LeastFree(st) \in 0 .. MaxSize
  BY AmountsIn, LeastFreeIn
<1>2. MaxSize \in 0 .. MaxSize /\ space \in 0 .. MaxSize
  BY CapAssumption DEF DataTypes, MaxSize
<1>3. kind \in {"RECV", "SMRB", "STAT", "DSP"}
  BY KindIs
<1>4. CASE kind \in {"RECV", "SMRB"}
  <2>1. DataTotal(st) = [amount |-> Amounts(st), free |-> MaxSize]
    BY <1>4 DEF DataTotal, ReceiveTotal, SmrbTotal
  <2>2. Known(st) = space
    BY <1>4 DEF Known
  <2> QED BY <2>1, <2>2, <1>1, <1>2 DEF Totals
<1>5. CASE kind = "STAT"
  <2>1. DataTotal(st).amount \in 0 .. NumBands * MaxAmount
    <3>1. CASE st = Empty
      <4>1. NumBands * MaxAmount \in Nat
        BY NumBandsAssumption, CapAssumption
      <4> QED BY <1>5, <3>1, <4>1 DEF DataTotal, StatTotal
    <3>2. CASE st # Empty
      <4>1. 1 \in DOMAIN st
        BY <1>5, <3>2, StoreIs, ReportedIs
      <4>2. st[1].amount \in 0 .. MaxAmount
        BY <4>1, StoreIs
      <4>3. MaxAmount * 1 <= NumBands * MaxAmount /\ NumBands * MaxAmount \in Nat /\ MaxAmount \in Nat
        BY NumBandsAssumption, ProductGrows, CapAssumption
      <4>4. st[1].amount \in 0 .. NumBands * MaxAmount
        BY <4>2, <4>3
      <4> QED BY <1>5, <3>2, <4>4 DEF DataTotal, StatTotal
    <3> QED BY <3>1, <3>2
  <2>2. DataTotal(st) = [amount |-> DataTotal(st).amount, free |-> MaxSize]
    BY <1>5 DEF DataTotal, StatTotal
  <2>3. Known(st) = space
    BY <1>5 DEF Known
  <2> QED BY <2>1, <2>2, <2>3, <1>2 DEF Totals
<1>6. CASE kind = "DSP"
  <2>1. DataTotal(st) \in {[amount |-> 0, free |-> space], [amount |-> Amounts(st), free |-> LeastFree(st)]}
    BY <1>6 DEF DataTotal, DspTotal, DspWalked
  <2>2. Known(st) \in {space, LeastFree(st)}
    BY DEF Known
  <2>3. 0 \in 0 .. NumBands * MaxAmount
    BY NumBandsAssumption, CapAssumption
  <2> QED BY <2>1, <2>2, <2>3, <1>1, <1>2 DEF Totals
<1> QED BY <1>3, <1>4, <1>5, <1>6

-----------------------------------------------------------------------------
(* The steps. *)

LEMMA EmptyIs == Empty \in Stores /\ DOMAIN Empty = {}
<1>1. Empty \in [{} -> BandData] /\ {} \in SUBSET Bands
  BY DEF Empty
<1> QED BY <1>1 DEF Stores, Empty

LEMMA DataTypesInit == ASSUME DataInit PROVE DataTypes
<1>1. <<kind, api>> \in Devices
  <2>1. PICK d \in Devices : kind = d[1] /\ api = d[2]
    BY DEF DataInit
  <2>2. d = <<d[1], d[2]>>
    BY DevicesAssumption
  <2> QED BY <2>1, <2>2
<1>2. MaxSize \in 0 .. MaxSize /\ Cap \in 0 .. Cap /\ 0 \in 0 .. MaxAmount
  BY CapAssumption DEF MaxSize
<1>3. 0 \in 0 .. NumBands * MaxAmount
  BY NumBandsAssumption, CapAssumption
<1>4. [amount |-> 0, free |-> MaxSize] \in Totals
  BY <1>2, <1>3 DEF Totals
<1>5. PollInv
  BY DEF DataInit, At, PollInv
<1>6. MonsTypes /\ ScanTypes
  BY DEF DataInit, MonsTypes, ScanTypes, MonitorAt
<1> QED BY <1>1, <1>2, <1>4, <1>5, <1>6, EmptyIs DEF DataInit, DataTypes

LEMMA SameReported == UNCHANGED fixed => Reported' = Reported
  BY DEF fixed, Reported, Bands

(* The store as it is walked, while some sub-bands are updated. *)
LEMMA WalkedIs ==
  ASSUME NEW st \in Stores, NEW seen \in Stores, DOMAIN st = DOMAIN seen,
         NEW early \in SUBSET DOMAIN st
  PROVE  /\ [b \in DOMAIN st |-> IF b \in early THEN seen[b] ELSE st[b]] \in Stores
         /\ DOMAIN [b \in DOMAIN st |-> IF b \in early THEN seen[b] ELSE st[b]] = DOMAIN st
<1>1. PICK S \in SUBSET Bands : st \in [S -> BandData]
  BY DEF Stores
<1>2. PICK T \in SUBSET Bands : seen \in [T -> BandData]
  BY DEF Stores
<1>3. DOMAIN st = S /\ DOMAIN seen = S /\ T = S
  BY <1>1, <1>2
<1>4. [b \in S |-> IF b \in early THEN seen[b] ELSE st[b]] \in [S -> BandData]
  BY <1>1, <1>2, <1>3
<1> QED BY <1>1, <1>3, <1>4 DEF Stores

LEMMA LowestBand ==
  ASSUME DataTypes, NEW m \in Monitors, mon[m] = "handling"
  PROVE  Min(todo[m]) \in todo[m] /\ Min(todo[m]) \in Reported
<1>1. todo[m] \subseteq Reported /\ Reported \subseteq Nat /\ todo[m] # {}
  BY ReportedIs DEF DataTypes, MonsTypes, Bands
<1>2. Min(todo[m]) \in todo[m]
  BY <1>1, LeastNumber DEF Min
<1> QED BY <1>1, <1>2

LEMMA StoreGrows ==
  ASSUME NEW st \in Stores, NEW b \in Bands, NEW r \in BandData
  PROVE  [s \in DOMAIN st \cup {b} |-> IF s = b THEN r ELSE st[s]] \in Stores
<1>1. PICK S \in SUBSET Bands : st \in [S -> BandData]
  BY DEF Stores
<1>2. [s \in S \cup {b} |-> IF s = b THEN r ELSE st[s]] \in [S \cup {b} -> BandData]
  BY <1>1
<1>3. S \cup {b} \in SUBSET Bands /\ DOMAIN st = S
  BY <1>1
<1> QED BY <1>2, <1>3 DEF Stores

LEMMA Moves ==
  ASSUME MonsTypes, NEW m \in Monitors, NEW from, NEW to \in MonitorAt, Goes(m, from, to)
  PROVE  /\ mon' \in [Monitors -> MonitorAt]
         /\ mon[m] = from /\ mon'[m] = to
         /\ \A n \in Monitors \ {m} : mon'[n] = mon[n]
BY DEF MonsTypes, Goes

(* What a monitor does outside the lock of the handler, but for the end.  *)
Quiet(m) ==
  \/ BeginSimulated(m) \/ Register(m) \/ Replace(m) \/ ReplaceWaits(m) \/ Look(m) \/ Round(m)
  \/ LeaveStream(m) \/ StreamBreaks(m) \/ EndSimulated(m) \/ Unregister(m)

LEMMA QuietIs ==
  ASSUME DataTypes, NEW m \in Monitors, Quiet(m)
  PROVE  /\ UNCHANGED <<fixed, outside, data, holder, scan, poll>>
         /\ \A n \in Monitors \ {m} : mon'[n] = mon[n]
         /\ mon[m] \in {"spawned", "replacing", "looping", "waiting", "ending"}
         /\ mon'[m] \in MonitorAt \ {"total", "publish"}
         /\ api = "grpc" => mon'[m] \notin {"none", "spawned"}
         /\ MonsTypes'
<1> USE DEF MonitorAt
<1>0. MonsTypes
  BY DEF DataTypes
<1>1. CASE BeginSimulated(m)
  <2>1. mon' \in [Monitors -> MonitorAt] /\ mon[m] = "spawned" /\ mon'[m] = "looping"
        /\ \A n \in Monitors \ {m} : mon'[n] = mon[n]
    BY <1>0, <1>1, Moves DEF BeginSimulated
  <2>2. Reported' = Reported
    BY <1>1, SameReported DEF BeginSimulated
  <2> QED BY <1>0, <1>1, <2>1, <2>2 DEF BeginSimulated, MonsTypes
<1>2. CASE Register(m)
  <2>1. mon' \in [Monitors -> MonitorAt] /\ mon[m] = "spawned" /\ mon'[m] = "looping"
        /\ \A n \in Monitors \ {m} : mon'[n] = mon[n]
    BY <1>0, <1>2, Moves DEF Register
  <2>2. Reported' = Reported
    BY <1>2, SameReported DEF Register
  <2> QED BY <1>0, <1>2, <2>1, <2>2 DEF Register, MonsTypes
<1>3. CASE Replace(m)
  <2>1. mon' \in [Monitors -> MonitorAt] /\ mon[m] = "spawned" /\ mon'[m] = "replacing"
        /\ \A n \in Monitors \ {m} : mon'[n] = mon[n]
    BY <1>0, <1>3, Moves DEF Replace
  <2>2. Reported' = Reported
    BY <1>3, SameReported DEF Replace
  <2> QED BY <1>0, <1>3, <2>1, <2>2 DEF Replace, MonsTypes
<1>4. CASE ReplaceWaits(m)
  <2>1. mon' \in [Monitors -> MonitorAt] /\ mon[m] = "replacing" /\ mon'[m] = "blocked"
        /\ \A n \in Monitors \ {m} : mon'[n] = mon[n]
    BY <1>0, <1>4, Moves DEF ReplaceWaits
  <2>2. Reported' = Reported
    BY <1>4, SameReported DEF ReplaceWaits
  <2> QED BY <1>0, <1>4, <2>1, <2>2 DEF ReplaceWaits, MonsTypes
<1>5. CASE Look(m)
  <2>1. mon' \in [Monitors -> MonitorAt] /\ mon[m] = "looping" /\ mon'[m] = "waiting"
        /\ \A n \in Monitors \ {m} : mon'[n] = mon[n]
    BY <1>0, <1>5, Moves DEF Look
  <2>2. Reported' = Reported
    BY <1>5, SameReported DEF Look
  <2> QED BY <1>0, <1>5, <2>1, <2>2 DEF Look, MonsTypes
<1>6. CASE Round(m)
  <2>1. mon' \in [Monitors -> MonitorAt] /\ mon[m] = "waiting" /\ mon'[m] = "handling"
        /\ \A n \in Monitors \ {m} : mon'[n] = mon[n]
    BY <1>0, <1>6, Moves DEF Round
  <2>2. Reported' = Reported /\ Reported # {}
    BY <1>6, SameReported, ReportedIs DEF Round
  <2>3. todo' = [todo EXCEPT ![m] = Reported]
    BY <1>6 DEF Round
  <2> QED BY <1>0, <1>6, <2>1, <2>2, <2>3 DEF Round, MonsTypes
<1>7. CASE Leaves(m)
  <2>1. mon' \in [Monitors -> MonitorAt] /\ mon[m] \in {"looping", "waiting"} /\ mon'[m] = "ending"
        /\ \A n \in Monitors \ {m} : mon'[n] = mon[n]
    BY <1>0, <1>7, Moves DEF Leaves
  <2>2. Reported' = Reported
    BY <1>7, SameReported DEF Leaves
  <2>3. told' \subseteq Monitors
    BY <1>0, <1>7 DEF Leaves, MonsTypes
  <2> QED BY <1>0, <1>7, <2>1, <2>2, <2>3 DEF Leaves, MonsTypes
<1>8. CASE EndSimulated(m)
  <2>1. PICK to \in {"none", "looping"} : Goes(m, "ending", to)
    BY <1>8 DEF EndSimulated
  <2>2. mon' \in [Monitors -> MonitorAt] /\ mon[m] = "ending" /\ mon'[m] = to
        /\ \A n \in Monitors \ {m} : mon'[n] = mon[n]
    BY <1>0, <2>1, Moves
  <2>3. Reported' = Reported
    BY <1>8, SameReported DEF EndSimulated
  <2> QED BY <1>0, <1>8, <2>2, <2>3 DEF EndSimulated, MonsTypes
<1>9. CASE Unregister(m)
  <2>1. mon' \in [Monitors -> MonitorAt] /\ mon[m] = "ending" /\ mon'[m] = "notifying"
        /\ \A n \in Monitors \ {m} : mon'[n] = mon[n]
    BY <1>0, <1>9, Moves DEF Unregister
  <2>2. Reported' = Reported
    BY <1>9, SameReported DEF Unregister
  <2>3. told' \subseteq Monitors
    BY <1>0, <1>9 DEF Unregister, MonsTypes
  <2> QED BY <1>0, <1>9, <2>1, <2>2, <2>3 DEF Unregister, MonsTypes
<1> QED
  BY <1>1, <1>2, <1>3, <1>4, <1>5, <1>6, <1>7, <1>8, <1>9 DEF Quiet, LeaveStream, StreamBreaks

(* The next monitor that waits for this one registers its event. *)
LEMMA NotifiedIs ==
  ASSUME DataTypes, NEW m \in Monitors, NotifyAll(m)
  PROVE  /\ MonsTypes' /\ mon'[m] = "none"
         /\ \A n \in Monitors \ {m} : mon[n] # "blocked" => mon'[n] = mon[n]
         /\ \A n \in Monitors : mon[n] = "blocked" => mon'[n] = "looping"
<1>1. mon' = [n \in Monitors |-> IF n = m THEN "none"
                                 ELSE IF mon[n] = "blocked" THEN "looping" ELSE mon[n]]
      /\ mon[m] = "notifying"
  BY DEF NotifyAll
<1>2. mon' \in [Monitors -> MonitorAt]
  BY <1>1 DEF DataTypes, MonsTypes, MonitorAt
<1>3. reg' \in {"none"} \cup Monitors
  BY DEF NotifyAll, DataTypes, MonsTypes
<1>4. told' \subseteq Monitors /\ UNCHANGED todo /\ Reported' = Reported
  BY SameReported DEF NotifyAll, DataTypes, MonsTypes
<1>5. \A n \in Monitors : mon'[n] = "handling" => mon[n] = "handling"
  BY <1>1
<1>6. MonsTypes'
  BY <1>2, <1>3, <1>4, <1>5 DEF DataTypes, MonsTypes
<1> QED BY <1>1, <1>6

LEMMA ActionsFixed == ASSUME [DataNext]_dataVars PROVE UNCHANGED fixed
<1> USE DEF fixed
<1>1. ASSUME NEW m \in Monitors, Monitor(m) PROVE UNCHANGED fixed
  BY <1>1 DEF Monitor, MonitorGoesOn, BeginSimulated, Register, Replace, ReplaceWaits, Look,
     Round, LeaveStream, StreamBreaks, Leaves, HandleSubbandData, Handle, MonitorTotal,
     MonitorPublish, EndSimulated, Unregister, NotifyAll
<1>2. CASE Worker
  BY <1>2 DEF Worker, StartScan, StopScan, Abort, GoToFault, Stop, SimulatorStops,
     NothingToStop, Signal, Wait, Clear, Reset, ResetTotal, ResetPublish
<1>3. CASE DiskMonitor
  BY <1>3 DEF DiskMonitor, PollStats, PollTotal, PollItems, PollIterates, PollAssigns, PollPublishes
<1> QED
  BY <1>1, <1>2, <1>3 DEF DataNext, dataVars, DiskChanges, Records

LEMMA DataStep ==
  ASSUME DataTypes, [DataNext]_dataVars
  PROVE  DataTypes'
<1> USE DEF outside, data, mons, scan
<1>0. UNCHANGED fixed /\ UNCHANGED <<kind, api>>
  BY ActionsFixed DEF fixed
<1>1. Reported' = Reported
  BY <1>0, SameReported
<1>2. <<kind, api>>' \in Devices
  BY <1>0 DEF DataTypes
<1>p. UNCHANGED poll => PollInv'
  BY <1>0 DEF DataTypes, PollInv
<1>m. UNCHANGED mons => MonsTypes'
  BY <1>1 DEF DataTypes, MonsTypes
<1>s. UNCHANGED scan => ScanTypes'
  BY DEF DataTypes, ScanTypes
<1>3. CASE UNCHANGED dataVars
  BY <1>1, <1>2, <1>3, <1>p, <1>m, <1>s DEF dataVars, DataTypes
<1>4. CASE DiskChanges
  BY <1>1, <1>2, <1>4, <1>p, <1>m, <1>s DEF DiskChanges, DataTypes
<1>5. CASE \E b \in Bands : Records(b)
  <2>1. PICK b \in Bands : Records(b)
    BY <1>5
  <2>2. written[b] + 1 \in 0 .. MaxAmount
    <3>1. written[b] \in 0 .. MaxAmount /\ written[b] < MaxAmount /\ MaxAmount \in Nat
      BY <2>1, CapAssumption DEF DataTypes, Records
    <3> QED BY <3>1
  <2>3. written' \in [Bands -> 0 .. MaxAmount]
    BY <2>1, <2>2 DEF DataTypes, Records
  <2> QED BY <1>1, <1>2, <1>p, <1>m, <1>s, <2>1, <2>3 DEF Records, DataTypes
<1>6. CASE Worker
  <2>1. CASE StartScan
    <3>1. PICK m \in Monitors : Goes(m, "none", "spawned")
      BY <2>1 DEF StartScan
    <3>2. mon' \in [Monitors -> MonitorAt] /\ mon'[m] = "spawned"
          /\ \A n \in Monitors \ {m} : mon'[n] = mon[n]
      BY <3>1, Moves DEF DataTypes, MonitorAt
    <3>3. UNCHANGED <<todo, reg, told>>
      BY <2>1 DEF StartScan
    <3>4. \A n \in Monitors : mon'[n] = "handling" => mon[n] = "handling"
      BY <3>2
    <3>5. MonsTypes'
      BY <1>1, <3>2, <3>3, <3>4 DEF DataTypes, MonsTypes
    <3>6. ScanTypes'
      BY <2>1 DEF StartScan, DataTypes, ScanTypes
    <3>7. 0 \in 0 .. MaxAmount
      BY CapAssumption
    <3> QED BY <1>1, <1>2, <1>p, <2>1, <3>5, <3>6, <3>7 DEF StartScan, DataTypes
  <2>2. CASE StopScan \/ Abort
    <3>1. ScanTypes'
      BY <2>2 DEF StopScan, Abort, DataTypes, ScanTypes
    <3> QED BY <1>1, <1>2, <1>p, <1>m, <2>2, <3>1 DEF StopScan, Abort, DataTypes
  <2>3. CASE GoToFault \/ SimulatorStops \/ Signal
    <3>1. told' \subseteq Monitors /\ UNCHANGED <<mon, todo, reg>>
      BY <2>3 DEF GoToFault, SimulatorStops, Signal, DataTypes, MonsTypes
    <3>2. MonsTypes'
      BY <1>1, <3>1 DEF DataTypes, MonsTypes
    <3>3. ScanTypes'
      BY <2>3 DEF GoToFault, SimulatorStops, Signal, Stops, Returned, Disorders, DataTypes, ScanTypes
    <3> QED BY <1>1, <1>2, <1>p, <2>3, <3>2, <3>3 DEF GoToFault, SimulatorStops, Signal, DataTypes
  <2>4. CASE NothingToStop \/ Wait
    <3>1. ScanTypes'
      BY <2>4 DEF NothingToStop, Wait, Stops, Returned, Disorders, DataTypes, ScanTypes
    <3> QED BY <1>1, <1>2, <1>p, <1>m, <2>4, <3>1 DEF NothingToStop, Wait, DataTypes
  <2>5. CASE Clear
    <3>1. ScanTypes'
      BY <2>5 DEF Clear, Reset, ResetTotal, ResetPublish, DataTypes, ScanTypes
    <3>2. CASE Reset
      BY <1>1, <1>2, <1>p, <1>m, <3>1, <3>2, EmptyIs DEF Reset, DataTypes
    <3>3. CASE ResetTotal
      <4>1. DataTotal(store) \in Totals
        BY TotalIn DEF DataTypes
      <4> QED BY <1>1, <1>2, <1>p, <1>m, <3>1, <3>3, <4>1 DEF ResetTotal, DataTypes
    <3>4. CASE ResetPublish
      BY <1>1, <1>2, <1>p, <1>m, <3>1, <3>4 DEF ResetPublish, DataTypes
    <3> QED BY <2>5, <3>2, <3>3, <3>4 DEF Clear
  <2> QED BY <1>6, <2>1, <2>2, <2>3, <2>4, <2>5 DEF Worker, Stop
<1>7. ASSUME NEW m \in Monitors, Monitor(m) PROVE DataTypes'
  <2>1. CASE Quiet(m)
    BY <1>1, <1>2, <1>p, <1>s, <2>1, QuietIs DEF DataTypes
  <2>2. CASE HandleSubbandData(m)
    <3> DEFINE b == Min(todo[m])
               r == [amount |-> written[b], free |-> disk]
    <3>1. /\ mon[m] = "handling"
          /\ store' = [s \in DOMAIN store \cup {b} |-> IF s = b THEN r ELSE store[s]]
      BY <2>2 DEF HandleSubbandData, Handle
    <3>2. b \in Reported /\ b \in Bands
      BY <3>1, LowestBand, ReportedIs
    <3>3. r \in BandData
      BY <3>2 DEF DataTypes, BandData
    <3>4. /\ holder' = m /\ todo' = [todo EXCEPT ![m] = @ \ {b}] /\ Goes(m, "handling", "total")
          /\ UNCHANGED <<outside, space, shown, pushed, reg, told, scan, poll>>
      BY <2>2 DEF HandleSubbandData, Handle
    <3> HIDE DEF b, r
    <3>5. store' \in Stores /\ DOMAIN store' \subseteq Reported
      BY <3>1, <3>2, <3>3, StoreGrows DEF DataTypes
    <3>6. mon' \in [Monitors -> MonitorAt] /\ mon'[m] = "total"
          /\ \A n \in Monitors \ {m} : mon'[n] = mon[n]
      BY <3>4, Moves DEF DataTypes, MonitorAt
    <3>7. todo' \in [Monitors -> SUBSET Reported] /\ \A n \in Monitors \ {m} : todo'[n] = todo[n]
      BY <3>4 DEF DataTypes, MonsTypes
    <3>8. MonsTypes'
      BY <1>1, <3>4, <3>6, <3>7 DEF DataTypes, MonsTypes
    <3> QED BY <1>1, <1>2, <1>p, <1>s, <3>4, <3>5, <3>8 DEF DataTypes
  <2>3. CASE MonitorTotal(m)
    <3>1. DataTotal(store) \in Totals /\ Known(store) \in 0 .. MaxSize
      BY TotalIn DEF DataTypes
    <3>2. CASE Raised(m) /\ UNCHANGED <<space, shown>>
      <4>1. PICK to \in {"none", "ending"} : Goes(m, "total", to)
        BY <3>2 DEF Raised
      <4>2. mon' \in [Monitors -> MonitorAt] /\ mon'[m] = to
            /\ \A n \in Monitors \ {m} : mon'[n] = mon[n]
        BY <4>1, Moves DEF DataTypes, MonitorAt
      <4>3. /\ todo' \in [Monitors -> SUBSET Reported] /\ \A n \in Monitors \ {m} : todo'[n] = todo[n]
            /\ told' \subseteq Monitors
        BY <3>2 DEF Raised, DataTypes, MonsTypes
      <4>4. UNCHANGED <<outside, store, pushed, reg, scan, poll>> /\ holder' = "free"
        BY <2>3, <3>2 DEF MonitorTotal, Raised
      <4>5. MonsTypes'
        BY <1>1, <4>2, <4>3, <4>4 DEF DataTypes, MonsTypes
      <4> QED BY <1>1, <1>2, <1>p, <1>s, <3>2, <4>4, <4>5 DEF DataTypes
    <3>3. CASE /\ shown' = DataTotal(store) /\ space' = Known(store)
               /\ Goes(m, "total", "publish") /\ UNCHANGED <<holder, todo, told>>
      <4>1. mon' \in [Monitors -> MonitorAt] /\ mon'[m] = "publish"
            /\ \A n \in Monitors \ {m} : mon'[n] = mon[n]
        BY <3>3, Moves DEF DataTypes, MonitorAt
      <4>2. UNCHANGED <<outside, store, pushed, reg, scan, poll>>
        BY <2>3 DEF MonitorTotal
      <4>3. MonsTypes'
        BY <1>1, <3>3, <4>1, <4>2 DEF DataTypes, MonsTypes
      <4> QED BY <1>1, <1>2, <1>p, <1>s, <3>1, <3>3, <4>2, <4>3 DEF DataTypes
    <3> QED BY <2>3, <3>2, <3>3 DEF MonitorTotal
  <2>4. CASE MonitorPublish(m)
    <3>1. PICK to \in {"looping", "handling"} :
            Goes(m, "publish", to) /\ (to = "handling" => todo[m] # {})
      BY <2>4 DEF MonitorPublish
    <3>2. mon' \in [Monitors -> MonitorAt] /\ mon'[m] = to
          /\ \A n \in Monitors \ {m} : mon'[n] = mon[n]
      BY <3>1, Moves DEF DataTypes, MonitorAt
    <3>3. UNCHANGED <<outside, store, space, shown, todo, reg, told, scan, poll>>
          /\ pushed' = shown /\ holder' = "free"
      BY <2>4 DEF MonitorPublish
    <3>4. MonsTypes'
      BY <1>1, <3>1, <3>2, <3>3 DEF DataTypes, MonsTypes
    <3> QED BY <1>1, <1>2, <1>p, <1>s, <3>3, <3>4 DEF DataTypes
  <2>5. CASE NotifyAll(m)
    <3>1. MonsTypes'
      BY <2>5, NotifiedIs
    <3>2. ScanTypes'
      BY <2>5 DEF NotifyAll, Returned, DataTypes, ScanTypes
    <3> QED BY <1>1, <1>2, <1>p, <2>5, <3>1, <3>2 DEF NotifyAll, DataTypes
  <2> QED BY <1>7, <2>1, <2>2, <2>3, <2>4, <2>5 DEF Monitor, MonitorGoesOn, Quiet
<1>8. CASE DiskMonitor
  <2>0. CASE UNCHANGED <<outside, store, holder, mons, scan>> /\ PollInv'
             /\ space' \in 0 .. MaxSize /\ shown' \in Totals /\ pushed' \in Totals
    BY <1>1, <1>2, <1>m, <1>s, <2>0 DEF DataTypes
  <2>1. CASE PollStats
    <3>1. \A free \in 0 .. Cap : UpdateDiskStats(free) \in 0 .. MaxSize
      BY CapAssumption DEF UpdateDiskStats, MaxSize
    <3>2. poll' = [at |-> "total", env |-> disk] /\ kind' = "DSP"
      BY <1>0, <2>1 DEF PollStats, DataTypes, PollInv
    <3>3. PollInv'
      BY <3>2 DEF PollInv, DataTypes
    <3> QED BY <2>0, <2>1, <3>1, <3>3 DEF PollStats, DataTypes
  <2>2. CASE PollTotal \/ PollItems
    <3>1. DataTotal(store) \in Totals
      BY TotalIn DEF DataTypes
    <3>2. PollInv'
      BY <1>0, <2>2, <3>1 DEF PollTotal, PollItems, DataTypes, PollInv
    <3> QED BY <2>0, <2>2, <3>2 DEF PollTotal, PollItems, DataTypes
  <2>3. CASE PollIterates
    <3>1. kind' = "DSP" /\ poll.env \in 0 .. Cap /\ poll.seen \in Stores
          /\ UNCHANGED <<outside, store, shown, pushed, holder, mons, scan>>
      BY <1>0, <2>3 DEF PollIterates, DataTypes, PollInv
    <3>2. CASE poll' = At("ended") /\ UNCHANGED space
      <4>1. PollInv'
        BY <3>1, <3>2 DEF PollInv, At
      <4> QED BY <2>0, <3>1, <3>2, <4>1 DEF DataTypes
    <3>3. ASSUME DOMAIN store = DOMAIN poll.seen, NEW early \in SUBSET DOMAIN store,
                 NEW walked, walked = [b \in DOMAIN store |-> IF b \in early THEN poll.seen[b] ELSE store[b]],
                 poll' = [at |-> "assign", env |-> poll.env, total |-> DspWalked(walked)],
                 space' = LeastFree(walked)
          PROVE  DataTypes'
      <4>1. walked \in Stores
        BY <3>1, <3>3, WalkedIs DEF DataTypes
      <4>2. Amounts(walked) \in 0 .. NumBands * MaxAmount /\ LeastFree(walked) \in 0 .. MaxSize
        BY <4>1, AmountsIn, LeastFreeIn
      <4>3. DspWalked(walked) \in Totals
        BY <4>2 DEF DspWalked, Totals
      <4>4. PollInv'
        BY <3>1, <3>3, <4>3 DEF PollInv
      <4> QED BY <2>0, <3>1, <3>3, <4>2, <4>4 DEF DataTypes
    <3> QED BY <2>3, <3>2, <3>3 DEF PollIterates
  <2>4. CASE PollAssigns
    <3>1. PollInv' /\ poll.total \in Totals
      BY <1>0, <2>4 DEF PollAssigns, DataTypes, PollInv
    <3> QED BY <2>0, <2>4, <3>1 DEF PollAssigns, DataTypes
  <2>5. CASE PollPublishes
    <3>1. kind' = "DSP" /\ poll.env \in 0 .. Cap /\ poll' = At("sleeping")
      BY <1>0, <2>5 DEF PollPublishes, DataTypes, PollInv
    <3>2. poll.env \in 0 .. MaxSize
      BY <3>1, CapAssumption DEF MaxSize
    <3>3. pushed' \in Totals
      BY <2>5, <3>2 DEF PollPublishes, DataTypes, Totals
    <3>4. PollInv'
      BY <3>1 DEF PollInv, At
    <3> QED BY <2>0, <2>5, <3>3, <3>4 DEF PollPublishes, DataTypes
  <2> QED BY <1>8, <2>1, <2>2, <2>3, <2>4, <2>5 DEF DiskMonitor
<1> QED BY <1>3, <1>4, <1>5, <1>6, <1>7, <1>8 DEF DataNext

(* Every variable of the monitoring data keeps to its type: the total of  *)
(* the sub-bands is at most NumBands times the most of one, and the space *)
(* shown is one that was reported, or that of no disk (monitor_data of    *)
(* the stores).                                                           *)
THEOREM DataIsTyped == DataSpec => []DataTypeOK
<1>1. DataInit => DataTypes
  BY DataTypesInit
<1>2. DataTypes /\ [DataNext]_dataVars => DataTypes'
  BY DataStep
<1>3. DataTypes => DataTypeOK
  <2> SUFFICES ASSUME DataTypes PROVE DataTypeOK
    OBVIOUS
  <2>1. todo \in [Monitors -> SUBSET Bands]
    BY ReportedIs DEF DataTypes, MonsTypes
  <2> QED BY <2>1 DEF DataTypes, MonsTypes, ScanTypes, PollInv, DataTypeOK
<1> QED BY <1>1, <1>2, <1>3, PTL DEF DataSpec

-----------------------------------------------------------------------------
(* Who holds the lock, and what is shown and published when. *)
HolderInv ==
  /\ holder = "worker" <=> work \in {"total", "publish"}
  /\ \A m \in Monitors : holder = m <=> mon[m] \in {"total", "publish"}

(* In an orderly scan there is one monitor at most, and once it reads its *)
(* stream it is the one registered; the stop that is told of it finds     *)
(* none, or it waits for it; a reset finds none that could store data.    *)
Running == {"looping", "waiting", "handling", "total", "publish", "ending"}
OrderlyInv ==
  api = "grpc" /\ orderly =>
    /\ \A m, n \in Monitors : mon[m] # "none" /\ mon[n] # "none" => m = n
    /\ \A m \in Monitors : mon[m] \in Running => reg = m
    /\ wait # "no" => \A m \in Monitors : mon[m] # "spawned"
    /\ work \in {"reset", "total", "publish", "stopped"} =>
         \A m \in Monitors : mon[m] \in {"none", "notifying"}

EmptiedInv ==
  /\ work \in {"total", "publish"} => store = Empty
  /\ api = "grpc" /\ orderly /\ work = "stopped" => store = Empty

AgreeInv ==
  kind # "DSP" =>
    /\ work = "publish" \/ (\E m \in Monitors : mon[m] = "publish") => shown = DataTotal(store)
    /\ holder = "free" /\ ~IndexError(store) => pushed = DataTotal(store) /\ shown = pushed

DataInv == HolderInv /\ OrderlyInv /\ EmptiedInv /\ AgreeInv

LEMMA EmptyShows ==
  ASSUME kind \in {"RECV", "SMRB", "STAT"}
  PROVE  DataTotal(Empty) = [amount |-> 0, free |-> MaxSize]
  BY NothingRecorded DEF DataTotal, ReceiveTotal, SmrbTotal, StatTotal

LEMMA EmptyIsRight == ~IndexError(Empty)
<1>1. Cardinality({}) = 0 /\ DOMAIN Empty = {}
  BY FS_EmptySet, EmptyIs
<1>2. 1 .. 0 = {}
  OBVIOUS
<1> QED BY <1>1, <1>2 DEF IndexError

(* The total and the error of a store, when it is not that of DSP. *)
LEMMA SameTotals ==
  ASSUME kind # "DSP", UNCHANGED <<kind, api, store>>
  PROVE  DataTotal(store)' = DataTotal(store) /\ IndexError(store)' = IndexError(store)
<1>1. DataTotal(store)' = DataTotal(store)
  BY DEF DataTotal, ReceiveTotal, SmrbTotal, StatTotal, Amounts
<1>2. IndexError(store)' = IndexError(store)
  BY DEF IndexError
<1> QED BY <1>1, <1>2

LEMMA DataInvInit == ASSUME DataInit PROVE DataInv
<1>1. kind \in {"RECV", "SMRB", "STAT", "DSP"}
  BY DataTypesInit, KindIs
<1>2. HolderInv
  BY MonitorsAssumption DEF DataInit, HolderInv
<1>3. OrderlyInv /\ EmptiedInv
  BY DEF DataInit, OrderlyInv, EmptiedInv, Running
<1>4. AgreeInv
  BY <1>1, EmptyShows DEF DataInit, AgreeInv
<1> QED BY <1>2, <1>3, <1>4 DEF DataInv

(* A monitor in Quiet, or one that ends, leaves the data as it is.        *)
LEMMA OrderKept ==
  ASSUME DataTypes, DataInv, NEW m \in Monitors, Quiet(m) \/ NotifyAll(m)
  PROVE  OrderlyInv'
<1> SUFFICES ASSUME api' = "grpc", orderly' PROVE OrderlyInv'
  BY DEF OrderlyInv
<1>0. api = "grpc" /\ orderly /\ m # "none"
  <2>1. CASE Quiet(m)
    BY <2>1, QuietIs, MonitorsAssumption DEF fixed, scan
  <2>2. CASE NotifyAll(m)
    BY <2>2, MonitorsAssumption DEF NotifyAll, fixed
  <2> QED BY <2>1, <2>2
<1>1. mon[m] # "none"
  <2>1. CASE Quiet(m)
    BY <2>1, QuietIs
  <2>2. CASE NotifyAll(m)
    BY <2>2 DEF NotifyAll
  <2> QED BY <2>1, <2>2
<1>2. \A n \in Monitors \ {m} : mon[n] = "none"
  BY <1>0, <1>1 DEF DataInv, OrderlyInv
<1>3. \A n \in Monitors \ {m} : mon'[n] = "none"
  <2>1. CASE Quiet(m)
    BY <1>2, <2>1, QuietIs
  <2>2. CASE NotifyAll(m)
    BY <1>2, <2>2, NotifiedIs
  <2> QED BY <2>1, <2>2
<1>4. CASE NotifyAll(m)
  <2>1. mon'[m] = "none"
    BY <1>4, NotifiedIs
  <2> QED BY <1>3, <2>1 DEF OrderlyInv, Running
<1>5. CASE Quiet(m)
  <2>1. UNCHANGED scan /\ mon'[m] \notin {"none", "spawned"}
    BY <1>0, <1>5, QuietIs
  <2>2. mon'[m] \in Running => reg' = m
    <3>1. MonsTypes
      BY DEF DataTypes
    <3>2. CASE Register(m)
      BY <3>2 DEF Register
    <3>3. CASE Replace(m)
      BY <3>1, <3>3, Moves DEF Replace, Running, MonitorAt
    <3>4. CASE ReplaceWaits(m)
      BY <3>1, <3>4, Moves DEF ReplaceWaits, Running, MonitorAt
    <3>5. CASE Unregister(m)
      BY <3>1, <3>5, Moves DEF Unregister, Running, MonitorAt
    <3>6. CASE Look(m) \/ Round(m) \/ LeaveStream(m) \/ StreamBreaks(m)
      <4>1. UNCHANGED reg /\ mon[m] \in Running
        BY <3>6 DEF Look, Round, LeaveStream, StreamBreaks, Leaves, Goes, Running
      <4> QED BY <1>0, <4>1 DEF DataInv, OrderlyInv
    <3> QED BY <1>0, <1>5, <3>2, <3>3, <3>4, <3>5, <3>6 DEF Quiet, BeginSimulated, EndSimulated
  <2>3. work \notin {"reset", "total", "publish", "stopped"}
    <3>1. mon[m] \notin {"none", "notifying"}
      BY <1>5, QuietIs
    <3> QED BY <1>0, <3>1 DEF DataInv, OrderlyInv
  <2>4. "none" \notin Running
    BY DEF Running
  <2> QED BY <1>3, <2>1, <2>2, <2>3, <2>4 DEF OrderlyInv, scan
<1> QED BY <1>4, <1>5

LEMMA DataInvStep ==
  ASSUME DataTypes, DataInv, [DataNext]_dataVars
  PROVE  DataInv'
<1> USE DEF outside, data, mons, scan
<1>f. UNCHANGED fixed /\ UNCHANGED <<kind, api>>
  BY ActionsFixed DEF fixed
<1>t. kind \in {"RECV", "SMRB", "STAT", "DSP"} /\ MonsTypes /\ ScanTypes
  BY KindIs DEF DataTypes
<1>n. \A m \in Monitors : m \notin {"none", "free", "worker"}
  BY MonitorsAssumption
(* A step that leaves the store, and who is where in the lock, as they are. *)
<1>a. ASSUME UNCHANGED <<store, holder>>, kind # "DSP" => UNCHANGED <<shown, pushed>>,
             work' = "publish" <=> work = "publish",
             \A m \in Monitors : mon'[m] = "publish" <=> mon[m] = "publish"
      PROVE  AgreeInv'
  BY <1>f, <1>a, SameTotals DEF DataInv, AgreeInv
<1>1. CASE UNCHANGED dataVars
  <2>1. AgreeInv'
    BY <1>1, <1>a DEF dataVars
  <2> QED BY <1>1, <1>f, <2>1 DEF dataVars, DataInv, HolderInv, OrderlyInv, EmptiedInv
<1>2. CASE DiskChanges \/ \E b \in Bands : Records(b)
  <2>1. UNCHANGED <<data, holder, mons, scan>>
    BY <1>2 DEF DiskChanges, Records
  <2>2. AgreeInv'
    BY <2>1, <1>a
  <2> QED BY <1>f, <2>1, <2>2 DEF DataInv, HolderInv, OrderlyInv, EmptiedInv
<1>3. CASE StartScan
  <2>1. PICK m \in Monitors : Goes(m, "none", "spawned")
    BY <1>3 DEF StartScan
  <2>2. mon'[m] = "spawned" /\ mon[m] = "none" /\ \A n \in Monitors \ {m} : mon'[n] = mon[n]
    BY <1>t, <2>1, Moves DEF MonitorAt
  <2>3. work' = "scanning" /\ work \in {"idle", "stopped"} /\ UNCHANGED <<data, holder, reg, wait>>
        /\ orderly' = (\A n \in Monitors : mon[n] = "none")
    BY <1>3 DEF StartScan
  <2>4. HolderInv' /\ EmptiedInv'
    BY <2>2, <2>3 DEF DataInv, HolderInv, EmptiedInv
  <2>5. wait' = "no"
    BY <1>t, <2>3 DEF ScanTypes
  <2>6. OrderlyInv'
    BY <2>2, <2>3, <2>5 DEF OrderlyInv, Running
  <2>7. AgreeInv'
    BY <2>2, <2>3, <1>a
  <2> QED BY <2>4, <2>6, <2>7 DEF DataInv
<1>4. CASE StopScan \/ Abort \/ GoToFault \/ Stop
  <2>1. /\ UNCHANGED <<data, holder, mon, reg>>
        /\ work \in {"scanning", "stopping", "aborting"}
        /\ work' \in {"idle", "stopping", "aborting", "reset"}
    BY <1>4, <1>t DEF StopScan, Abort, GoToFault, Stop, SimulatorStops, NothingToStop, Signal, Wait,
       Stops, Returned, ScanTypes
  <2>2. HolderInv' /\ EmptiedInv'
    BY <2>1 DEF DataInv, HolderInv, EmptiedInv
  <2>3. AgreeInv'
    BY <2>1, <1>a
  <2>4. ASSUME api = "grpc", orderly', NEW m \in Monitors
        PROVE  /\ orderly
               /\ wait' # "no" => mon[m] # "spawned"
               /\ work' = "reset" => mon[m] \in {"none", "notifying"}
    <3>1. CASE StopScan \/ Abort \/ GoToFault
      <4>1. UNCHANGED <<wait, orderly>> /\ work' # "reset" /\ wait = "no"
        BY <1>t, <3>1 DEF StopScan, Abort, GoToFault, ScanTypes
      <4> QED BY <2>4, <4>1
    <3>2. CASE NothingToStop
      <4>1. orderly /\ mon[m] # "spawned" /\ mon[m] \notin {"replacing", "blocked"} /\ reg = "none"
        BY <2>4, <3>2 DEF NothingToStop, Disorders, Unlocked
      <4>2. mon[m] \notin Running
        BY <1>n, <2>4, <4>1 DEF DataInv, OrderlyInv
      <4>3. mon[m] \in MonitorAt
        BY <1>t DEF MonsTypes
      <4> QED BY <4>1, <4>2, <4>3 DEF Running, MonitorAt
    <3>3. CASE Signal
      BY <2>4, <3>3 DEF Signal, Disorders, Stops
    <3>4. CASE Wait
      <4>1. wait # "no" /\ UNCHANGED <<work, orderly>> /\ work' # "reset"
        BY <1>t, <3>4 DEF Wait, ScanTypes
      <4> QED BY <2>4, <4>1 DEF DataInv, OrderlyInv
    <3> QED BY <1>4, <2>4, <3>1, <3>2, <3>3, <3>4 DEF Stop, SimulatorStops
  <2>5. OrderlyInv'
    BY <1>f, <2>1, <2>4 DEF DataInv, OrderlyInv
  <2> QED BY <2>2, <2>3, <2>5 DEF DataInv
<1>5. CASE Reset
  <2>1. work = "reset" /\ holder = "free" /\ holder' = "worker" /\ store' = Empty /\ work' = "total"
        /\ UNCHANGED <<shown, pushed, mons, wait, orderly>>
    BY <1>5 DEF Reset
  <2>2. HolderInv' /\ EmptiedInv' /\ OrderlyInv'
    BY <1>f, <1>n, <2>1 DEF DataInv, HolderInv, EmptiedInv, OrderlyInv
  <2>3. \A m \in Monitors : mon'[m] # "publish"
    BY <1>n, <2>1 DEF DataInv, HolderInv
  <2>4. AgreeInv'
    BY <2>1, <2>3 DEF AgreeInv
  <2> QED BY <2>2, <2>4 DEF DataInv
<1>6. CASE ResetTotal
  <2>1. work = "total" /\ shown' = DataTotal(store) /\ work' = "publish"
        /\ UNCHANGED <<store, mons, holder, pushed, wait, orderly>>
    BY <1>6 DEF ResetTotal
  <2>2. kind # "DSP" => DataTotal(store)' = DataTotal(store)
    BY <1>f, <2>1, SameTotals
  <2>3. HolderInv' /\ EmptiedInv' /\ OrderlyInv'
    BY <1>f, <2>1 DEF DataInv, HolderInv, EmptiedInv, OrderlyInv
  <2>4. holder' = "worker"
    BY <2>1 DEF DataInv, HolderInv
  <2>5. AgreeInv'
    BY <1>f, <2>1, <2>2, <2>4 DEF AgreeInv
  <2> QED BY <2>3, <2>5 DEF DataInv
<1>7. CASE ResetPublish
  <2>1. work = "publish" /\ pushed' = shown /\ holder' = "free" /\ work' = "stopped"
        /\ UNCHANGED <<store, mons, shown, wait, orderly>>
    BY <1>7 DEF ResetPublish
  <2>2. kind # "DSP" => DataTotal(store)' = DataTotal(store)
    BY <1>f, <2>1, SameTotals
  <2>3. holder = "worker"
    BY <2>1 DEF DataInv, HolderInv
  <2>4. HolderInv' /\ EmptiedInv' /\ OrderlyInv'
    BY <1>f, <1>n, <2>1, <2>3 DEF DataInv, HolderInv, EmptiedInv, OrderlyInv
  <2>5. AgreeInv'
    BY <1>f, <2>1, <2>2 DEF DataInv, AgreeInv
  <2> QED BY <2>4, <2>5 DEF DataInv
<1>8. ASSUME NEW m \in Monitors, Quiet(m) PROVE DataInv'
  <2>1. UNCHANGED <<data, holder, scan>> /\ (\A n \in Monitors \ {m} : mon'[n] = mon[n])
        /\ mon[m] \notin {"total", "publish"} /\ mon'[m] \notin {"total", "publish"}
    BY <1>8, QuietIs
  <2>2. HolderInv' /\ EmptiedInv'
    BY <1>f, <2>1 DEF DataInv, HolderInv, EmptiedInv
  <2>3. AgreeInv'
    BY <2>1, <1>a
  <2>4. OrderlyInv'
    BY <1>8, OrderKept
  <2> QED BY <2>2, <2>3, <2>4 DEF DataInv
<1>9. ASSUME NEW m \in Monitors, NotifyAll(m) PROVE DataInv'
  <2>1. UNCHANGED <<data, holder, orderly>> /\ mon[m] = "notifying"
    BY <1>9 DEF NotifyAll
  <2>2. mon'[m] = "none"
        /\ (\A n \in Monitors \ {m} : mon[n] # "blocked" => mon'[n] = mon[n])
        /\ (\A n \in Monitors : mon[n] = "blocked" => mon'[n] = "looping")
    BY <1>9, NotifiedIs
  <2>3. \A n \in Monitors : /\ mon'[n] = "publish" <=> mon[n] = "publish"
                            /\ mon'[n] = "total" <=> mon[n] = "total"
    BY <2>1, <2>2
  <2>4. work' = work \/ (work \in {"stopping", "aborting"} /\ work' \in {"reset", "idle"})
    BY <1>9, <1>t DEF NotifyAll, Returned, ScanTypes
  <2>5. HolderInv'
    BY <2>1, <2>3, <2>4 DEF DataInv, HolderInv
  <2>6. EmptiedInv'
    BY <1>f, <2>1, <2>4 DEF DataInv, EmptiedInv
  <2>7. AgreeInv'
    BY <2>1, <2>3, <2>4, <1>a
  <2>8. OrderlyInv'
    BY <1>9, OrderKept
  <2> QED BY <2>5, <2>6, <2>7, <2>8 DEF DataInv
(* A monitor with data does not run while the numbers of an orderly scan  *)
(* are cleared, and moves on to where it is registered, too.              *)
<1>o. ASSUME NEW m \in Monitors, mon[m] \in {"handling", "total", "publish"}, NEW to \in MonitorAt,
             Goes(m, mon[m], to), UNCHANGED <<reg, scan>>, api = "grpc" => to \in Running
      PROVE  OrderlyInv' /\ (api = "grpc" /\ orderly => work \notin {"reset", "total", "publish", "stopped"})
  <2>1. mon'[m] = to /\ \A n \in Monitors \ {m} : mon'[n] = mon[n]
    BY <1>o, <1>t, Moves
  <2>2. api = "grpc" /\ orderly => /\ \A n \in Monitors \ {m} : mon[n] = "none"
                                   /\ reg = m
                                   /\ work \notin {"reset", "total", "publish", "stopped"}
    BY <1>o DEF DataInv, OrderlyInv, Running
  <2>3. OrderlyInv'
    BY <1>f, <1>o, <2>1, <2>2 DEF OrderlyInv, Running
  <2> QED BY <2>2, <2>3
<1>10. ASSUME NEW m \in Monitors, HandleSubbandData(m) PROVE DataInv'
  <2>1. /\ holder = "free" /\ holder' = m /\ mon[m] = "handling" /\ Goes(m, mon[m], "total")
        /\ UNCHANGED <<reg, scan, shown, pushed>>
    BY <1>10 DEF HandleSubbandData, Handle
  <2>2. mon'[m] = "total" /\ \A n \in Monitors \ {m} : mon'[n] = mon[n]
    BY <1>t, <2>1, Moves DEF MonitorAt
  <2>3. OrderlyInv' /\ (api = "grpc" /\ orderly => work \notin {"reset", "total", "publish", "stopped"})
    BY <2>1, <1>o DEF MonitorAt, Running
  <2>4. work \notin {"total", "publish"} /\ \A n \in Monitors : mon[n] \notin {"total", "publish"}
    BY <1>n, <2>1 DEF DataInv, HolderInv
  <2>5. HolderInv'
    BY <1>n, <2>1, <2>2, <2>4 DEF HolderInv
  <2>6. EmptiedInv'
    BY <1>f, <2>1, <2>3, <2>4 DEF EmptiedInv
  <2>7. AgreeInv'
    BY <1>n, <2>1, <2>2, <2>4 DEF AgreeInv
  <2> QED BY <2>3, <2>5, <2>6, <2>7 DEF DataInv
<1>11. ASSUME NEW m \in Monitors, MonitorTotal(m) PROVE DataInv'
  <2>1. mon[m] = "total" /\ holder = m /\ UNCHANGED <<store, pushed, reg, scan>>
    BY <1>11 DEF MonitorTotal, DataInv, HolderInv
  <2>2. work \notin {"total", "publish"} /\ \A n \in Monitors \ {m} : mon[n] \notin {"total", "publish"}
    BY <1>n, <2>1 DEF DataInv, HolderInv
  <2>3. EmptiedInv'
    BY <1>f, <2>1 DEF DataInv, EmptiedInv
  <2>4. CASE IndexError(store)
    <3>1. PICK to \in {"none", "ending"} : Goes(m, mon[m], to) /\ (api = "grpc" => to = "ending")
      BY <1>11, <2>1, <2>4 DEF MonitorTotal, Raised
    <3>2. mon'[m] = to /\ \A n \in Monitors \ {m} : mon'[n] = mon[n]
      BY <1>t, <3>1, Moves DEF MonitorAt
    <3>3. holder' = "free"
      BY <1>11, <2>4 DEF MonitorTotal, Raised
    <3>4. OrderlyInv'
      BY <2>1, <3>1, <1>o DEF MonitorAt, Running
    <3>5. HolderInv'
      BY <1>n, <2>1, <2>2, <3>2, <3>3 DEF HolderInv
    <3>6. kind # "DSP" => IndexError(store)'
      BY <1>f, <2>1, <2>4, SameTotals
    <3>7. AgreeInv'
      BY <1>f, <2>1, <2>2, <3>2, <3>6 DEF AgreeInv
    <3> QED BY <2>3, <3>4, <3>5, <3>7 DEF DataInv
  <2>5. CASE ~IndexError(store)
    <3>1. shown' = DataTotal(store) /\ Goes(m, mon[m], "publish") /\ UNCHANGED holder
      BY <1>11, <2>1, <2>5 DEF MonitorTotal
    <3>2. mon'[m] = "publish" /\ \A n \in Monitors \ {m} : mon'[n] = mon[n]
      BY <1>t, <3>1, Moves DEF MonitorAt
    <3>3. OrderlyInv'
      BY <2>1, <3>1, <1>o DEF MonitorAt, Running
    <3>4. HolderInv'
      BY <1>n, <2>1, <2>2, <3>1, <3>2 DEF HolderInv
    <3>5. kind # "DSP" => DataTotal(store)' = DataTotal(store)
      BY <1>f, <2>1, SameTotals
    <3>6. AgreeInv'
      BY <1>f, <1>n, <2>1, <3>1, <3>5 DEF AgreeInv
    <3> QED BY <2>3, <3>3, <3>4, <3>6 DEF DataInv
  <2> QED BY <2>4, <2>5
<1>12. ASSUME NEW m \in Monitors, MonitorPublish(m) PROVE DataInv'
  <2>1. mon[m] = "publish" /\ holder = m /\ UNCHANGED <<store, shown, reg, scan>>
        /\ pushed' = shown /\ holder' = "free"
    BY <1>12 DEF MonitorPublish, DataInv, HolderInv, Goes
  <2>2. PICK to \in {"looping", "handling"} : Goes(m, mon[m], to)
    BY <1>12, <2>1 DEF MonitorPublish
  <2>3. mon'[m] = to /\ \A n \in Monitors \ {m} : mon'[n] = mon[n]
    BY <1>t, <2>2, Moves DEF MonitorAt
  <2>4. work \notin {"total", "publish"} /\ \A n \in Monitors \ {m} : mon[n] \notin {"total", "publish"}
    BY <1>n, <2>1 DEF DataInv, HolderInv
  <2>5. OrderlyInv'
    BY <2>1, <2>2, <1>o DEF MonitorAt, Running
  <2>6. HolderInv'
    BY <1>n, <2>1, <2>3, <2>4 DEF HolderInv
  <2>7. EmptiedInv'
    BY <1>f, <2>1 DEF DataInv, EmptiedInv
  <2>8. kind # "DSP" => DataTotal(store)' = DataTotal(store) /\ shown = DataTotal(store)
    BY <1>f, <2>1, SameTotals DEF DataInv, AgreeInv
  <2>9. AgreeInv'
    BY <1>f, <2>1, <2>8 DEF AgreeInv
  <2> QED BY <2>5, <2>6, <2>7, <2>9 DEF DataInv
<1>13. CASE DiskMonitor
  <2>1. kind = "DSP" /\ UNCHANGED <<store, holder, mons, scan>>
    BY <1>13 DEF DiskMonitor, PollStats, PollTotal, PollItems, PollIterates, PollAssigns,
                 PollPublishes, DataTypes, PollInv
  <2>2. AgreeInv'
    BY <1>f, <2>1 DEF AgreeInv
  <2> QED BY <1>f, <2>1, <2>2 DEF DataInv, HolderInv, OrderlyInv, EmptiedInv
<1> QED
  BY <1>1, <1>2, <1>3, <1>4, <1>5, <1>6, <1>7, <1>8, <1>9, <1>10, <1>11, <1>12, <1>13
  DEF DataNext, Worker, Clear, Monitor, MonitorGoesOn, Quiet

LEMMA DataInvariance == DataSpec => [](DataTypes /\ DataInv)
<1>1. DataInit => DataTypes /\ DataInv
  BY DataTypesInit, DataInvInit
<1>2. DataTypes /\ DataInv /\ [DataNext]_dataVars => DataTypes' /\ DataInv'
  BY DataStep, DataInvStep
<1> QED BY <1>1, <1>2, PTL DEF DataSpec

(* Once nobody holds the lock of the handler, the attributes, the events  *)
(* pushed last and the store agree, for every sub-device but DSP: an      *)
(* update of the monitor and the reset at the end of a scan do not mix    *)
(* (handle_subband_data, reset_monitor_data).                             *)
THEOREM StoreAgrees == DataSpec => []StoreIsPublished
<1>1. DataTypes /\ DataInv => StoreIsPublished
  BY DEF DataInv, AgreeInv, StoreIsPublished
<1> QED BY <1>1, DataInvariance, PTL

(* With the gRPC API, what an orderly scan has recorded is gone from the  *)
(* store and from what is published once stop_scan has returned, for      *)
(* every sub-device but DSP: its monitor does not put it back.  Orderly   *)
(* is a scan that starts with no monitor of an earlier one left, and      *)
(* whose stop does not overtake its monitor (_stop_monitoring, monitor).  *)
THEOREM StoppedIsEmpty == DataSpec => []StoppedShowsNothing
<1>1. ASSUME DataTypes, DataInv, kind # "DSP", api = "grpc", orderly, work = "stopped"
      PROVE  store = Empty /\ pushed.amount = 0
  <2>1. store = Empty /\ \A m \in Monitors : mon[m] \in {"none", "notifying"}
    BY <1>1 DEF DataInv, OrderlyInv, EmptiedInv
  <2>2. holder = "free"
    BY <1>1, <2>1 DEF DataInv, HolderInv, DataTypes
  <2>3. pushed = DataTotal(Empty)
    BY <1>1, <2>1, <2>2, EmptyIsRight DEF DataInv, AgreeInv
  <2>4. kind \in {"RECV", "SMRB", "STAT"}
    BY <1>1, KindIs
  <2>5. pushed = [amount |-> 0, free |-> MaxSize]
    BY <2>3, <2>4, EmptyShows
  <2> QED BY <2>1, <2>5
<1>2. DataTypes /\ DataInv => StoppedShowsNothing
  BY <1>1 DEF StoppedShowsNothing
<1> QED BY <1>2, DataInvariance, PTL
=============================================================================
