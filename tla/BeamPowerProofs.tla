-------------------------- MODULE BeamPowerProofs --------------------------
(***************************************************************************)
(* For any sub-devices in any order and any number of calls and changes:   *)
(* the types, that BEAM which is on hears of every sub-device as long as   *)
(* no subscription has unsubscribed itself, and that at rest it shows the  *)
(* power state they are in.                                                *)
(*                                                                         *)
(* The types hold one thing that is no matter of course: that there are    *)
(* never more callbacks of a subscription than there were calls.  CountInv *)
(* gives each call the callback that its job may have yet to add, until    *)
(* the loop of On has passed the device; it needs that no device is passed *)
(* twice.                                                                  *)
(*                                                                         *)
(* That BEAM hears rests on two facts.  StoredInv: what a proxy has stored *)
(* is live and has a callback, because Off takes it away before it clears  *)
(* it.  HeardInv: the loop of On has left a subscription behind for each   *)
(* device it has passed, unless an Off is on its way, which then shows in  *)
(* offCalled until On completes without one.  An Off stays on its way, as  *)
(* a call and then as a job, until its job begins (OffKept), which is      *)
(* never while On is in its loop; and only an Off on its way takes a       *)
(* subscription away (StoredKept), or a subscription that unsubscribes     *)
(* itself, of which nothing more is then said.                             *)
(*                                                                         *)
(* PowerInv: while nothing has failed, a job has led the devices it has    *)
(* done with to its state.                                                 *)
(***************************************************************************)
EXTENDS BeamPower, SequenceTheorems, TLAPS

-----------------------------------------------------------------------------
(* The inductive invariant.                                                *)

Loop == {"check", "subscribe", "append", "read", "get"}
Pcs == {"idle", "work", "assign", "power"} \cup Loop

JobType == [cmd : PowerCommands, devices : SUBSET Devices]
SubType == [dev : Devices, live : BOOLEAN, subscribed : BOOLEAN, callbacks : Nat]
WorkType(ids) == [pc : Pcs, cmd : PowerCommands, todo : SUBSET Devices,
                  at : 1 .. Len(Order), made : Seq(ids), own : ids \cup {0}]
OffType(ids) == [pc : {"none", "next", "lock", "flag", "submit"}, left : Seq(ids)]

(* The types, of subscriptions ids.                                        *)
PowerTypes == /\ power \in PowerStates /\ devPower \in [Devices -> PowerStates]
              /\ jobs \in Seq(JobType) /\ late \subseteq PowerCommands \X Devices
              /\ offCalled \in BOOLEAN /\ clean \in BOOLEAN
              /\ calls \in 0 .. MaxEvents /\ changes \in 0 .. MaxChanges
EventTypes == /\ faulty \subseteq Devices /\ told \subseteq Devices
              /\ events \subseteq [id : Ids, dev : Devices, fault : BOOLEAN]
SubTypes == /\ subs \in Seq(SubType) /\ stored \in [Devices -> Ids \cup {0}]
            /\ locked \subseteq Devices /\ handles \in Seq(Ids)
ThreadTypes == /\ job \in WorkType(Ids) /\ offs \in [Clients -> OffType(Ids)]
               /\ \A c \in Clients : offs[c].pc \in {"lock", "flag"} => offs[c].left # <<>>
DelTypes == /\ dropped \in [Threads -> SUBSET Ids] /\ lost \subseteq Devices
            /\ finalised \in BOOLEAN
TypeInv == PowerTypes /\ EventTypes /\ SubTypes /\ ThreadTypes /\ DelTypes

(* No subscription has more callbacks than there were calls that may have  *)
(* led to them: those of a job that waits, and of an Off on its way to be  *)
(* one, are still to come, and so is that of the job which has yet to get  *)
(* to the device.                                                          *)
Busy(c) == IF offs[c] = NoOff THEN 0 ELSE 1
ToCome == Len(jobs) + Busy(1) + Busy(2)
Due(d) == \/ At("work")
          \/ \E k \in 1 .. Len(Order) :
               /\ d = Order[k] /\ job.pc \in Loop
               /\ k > job.at \/ (k = job.at /\ job.pc \notin {"read", "get"})
CountInv ==
  /\ ToCome <= calls
  /\ \A i \in Ids : subs[i].callbacks + ToCome <= calls
  /\ \A d \in Devices : Due(d) =>
       /\ 1 + ToCome <= calls
       /\ \A i \in Ids : subs[i].dev = d => subs[i].callbacks + 1 + ToCome <= calls

(* What a proxy has stored is good; a subscription that is being put away  *)
(* is no longer live.                                                      *)
StoredInv ==
  /\ \A d \in Devices : stored[d] # 0 =>
       subs[stored[d]].dev = d /\ subs[stored[d]].live /\ subs[stored[d]].callbacks > 0
  /\ \A c \in Clients : offs[c].pc = "flag" => ~subs[Head(offs[c].left)].live

(* Unless there is an Off on its way, or a subscription has unsubscribed   *)
(* itself, On has subscribed to the sub-devices it has turned to, and BEAM *)
(* that is on to all.                                                      *)
Subscribed(k) == stored[Order[k]] # 0
Quiet == ~OffPending /\ ~finalised
HeardInv ==
  /\ ~offCalled => ~OffPending
  /\ power = "ON" /\ ~offCalled /\ ~finalised => \A d \in Devices : stored[d] # 0
  /\ At("work") => job.at = 1
  /\ job.pc \in Loop \cup {"assign"} => job.cmd = "On"
  /\ job.pc \in Loop /\ Quiet => \A k \in 1 .. job.at - 1 : Subscribed(k)
  /\ job.pc \in {"read", "get"} /\ Quiet => Subscribed(job.at)
  /\ At("assign") \/ (At("power") /\ job.cmd = "On") =>
       ~Quiet \/ \A d \in Devices : stored[d] # 0

(* As long as nothing has failed, the job at work has led the sub-devices  *)
(* it is done with to where it leads, and BEAM shows where the last one    *)
(* led.  Off leaves some devices out.                                      *)
PowerInv ==
  /\ \A i \in 1 .. Len(jobs) : jobs[i].cmd # "Off" => jobs[i].devices = Devices
  /\ clean => late = {}
  /\ clean /\ At("idle") /\ power # "OFF" => \A d \in Devices : devPower[d] = power
  /\ clean /\ ~At("idle") /\ job.cmd # "Off" =>
       \A d \in Devices : (At("work") /\ d \in job.todo) \/ devPower[d] = To[job.cmd]

IInv == TypeInv /\ CountInv /\ StoredInv /\ HeardInv /\ PowerInv

-----------------------------------------------------------------------------
(* Sequences of the model.                                                 *)

LEMMA ListFacts ==
  ASSUME NEW S, NEW q \in Seq(S)
  PROVE  /\ \A x \in S : Append(q, x) \in Seq(S) /\ Len(Append(q, x)) = Len(q) + 1
         /\ q # <<>> => /\ Head(q) \in S /\ Tail(q) \in Seq(S) /\ Len(Tail(q)) = Len(q) - 1
                        /\ Len(q) > 0 /\ Head(q) = q[1]
                        /\ \A i \in 1 .. Len(q) - 1 : Tail(q)[i] = q[i + 1]
         /\ Len(q) \in Nat /\ DOMAIN q = 1 .. Len(q)
         /\ \A i \in 1 .. Len(q) : q[i] \in S
OBVIOUS

LEMMA ListGrows ==
  ASSUME NEW S, NEW T, S \subseteq T, NEW q \in Seq(S)
  PROVE  q \in Seq(T)
OBVIOUS

LEMMA ListReplace ==
  ASSUME NEW S, NEW q \in Seq(S), NEW i \in 1 .. Len(q), NEW x \in S
  PROVE  /\ [q EXCEPT ![i] = x] \in Seq(S)
         /\ Len([q EXCEPT ![i] = x]) = Len(q)
         /\ \A k \in 1 .. Len(q) : [q EXCEPT ![i] = x][k] = IF k = i THEN x ELSE q[k]
OBVIOUS

LEMMA OneMore ==
  ASSUME NEW r \in SubType
  PROVE  LET x == [r EXCEPT !.callbacks = r.callbacks + 1]
         IN x \in SubType /\ x.dev = r.dev /\ x.callbacks = r.callbacks + 1
<1>1. r.callbacks + 1 \in Nat
  BY DEF SubType
<1> QED BY <1>1 DEF SubType

(* The sub-devices, in their order.                                        *)
LEMMA OrderFacts ==
  /\ Order \in Seq(Devices) /\ Len(Order) \in Nat \ {0}
  /\ \A k \in 1 .. Len(Order) : Order[k] \in Devices
  /\ \A i, k \in 1 .. Len(Order) : Order[i] = Order[k] => i = k
  /\ \A d \in Devices : \E k \in 1 .. Len(Order) : d = Order[k]
<1>1. Order \in Seq(Devices) /\ Len(Order) \in Nat \ {0}
  BY OrderAssumption
<1>2. DOMAIN Order = 1 .. Len(Order)
  BY <1>1
<1> QED
  BY <1>1, <1>2, OrderAssumption DEF Devices, ToSet, IsInjective

-----------------------------------------------------------------------------
(* The types.                                                              *)

LEMMA TypeInit == Init => TypeInv
<1> SUFFICES ASSUME Init PROVE TypeInv
  OBVIOUS
<1> USE DEF Init
<1>1. PowerTypes
  <2>1. jobs \in Seq(JobType) /\ late \subseteq PowerCommands \X Devices
    OBVIOUS
  <2>2. power \in PowerStates /\ devPower \in [Devices -> PowerStates]
    BY DEF PowerStates
  <2>3. calls \in 0 .. MaxEvents /\ changes \in 0 .. MaxChanges
    BY BoundsAssumption
  <2> QED BY <2>1, <2>2, <2>3 DEF PowerTypes
<1>2. EventTypes
  BY DEF EventTypes
<1>3. SubTypes
  BY DEF SubTypes
<1>4. ThreadTypes
  <2>1. job \in WorkType(Ids)
    BY OrderFacts DEF WorkType, NoJob, Pcs, PowerCommands
  <2>2. NoOff \in OffType(Ids)
    BY DEF OffType, NoOff
  <2> QED BY <2>1, <2>2 DEF ThreadTypes, NoOff
<1>5. DelTypes
  BY DEF DelTypes
<1> QED
  BY <1>1, <1>2, <1>3, <1>4, <1>5 DEF TypeInv

(* What is referred to are subscriptions.                                  *)
LEMMA KeptType ==
  ASSUME TypeInv
  PROVE  Kept \subseteq Ids \cup {0} /\ LetGo \subseteq Ids
<1>1. \A q \in Seq(Ids) : ToSet(q) \subseteq Ids
  BY ListFacts DEF ToSet
<1>2. ToSet(handles) \subseteq Ids /\ \A d \in Devices : stored[d] \in Ids \cup {0}
  BY <1>1 DEF TypeInv, SubTypes
<1>3. ToSet(job.made) \subseteq Ids /\ job.own \in Ids \cup {0}
  BY <1>1 DEF TypeInv, ThreadTypes, WorkType
<1>4. \A c \in Clients : ToSet(offs[c].left) \subseteq Ids
  BY <1>1 DEF TypeInv, ThreadTypes, OffType
<1>5. Kept \subseteq Ids \cup {0}
  BY <1>2, <1>3, <1>4 DEF Kept
<1> QED
  BY <1>5 DEF LetGo

LEMMA PowerTypesStep == TypeInv /\ [Next]_vars => PowerTypes'
<1> SUFFICES ASSUME TypeInv, [Next]_vars PROVE PowerTypes'
  OBVIOUS
<1> USE DEF PowerTypes, jobVars
<1>a. PowerTypes /\ job \in WorkType(Ids)
  BY DEF TypeInv, ThreadTypes
<1>b. MaxEvents \in Nat /\ MaxChanges \in Nat
  BY BoundsAssumption
<1>c. To \in [PowerCommands -> PowerStates]
  BY DEF To, PowerCommands, PowerStates
<1>d. job.cmd \in PowerCommands /\ job.todo \subseteq Devices
  BY <1>a DEF WorkType
<1>e. ASSUME NEW cmd \in PowerCommands, Submit(cmd) PROVE jobs' \in Seq(JobType)
  <2>1. [cmd |-> cmd, devices |-> Targets(cmd)] \in JobType
    BY DEF JobType, Targets, NotYet
  <2> QED BY <1>a, <1>e, <2>1, ListFacts DEF Submit
<1>1. ASSUME NEW cmd \in PowerCommands, Call(cmd) PROVE PowerTypes'
  BY <1>1, <1>a, <1>b, <1>e DEF Call, Accepts
<1>2. ASSUME NEW c \in Clients, CallOff(c) PROVE PowerTypes'
  BY <1>2, <1>a, <1>b DEF CallOff, Accepts
<1>3. ASSUME NEW c \in Clients, SubmitOff(c) PROVE PowerTypes'
  <2>1. "Off" \in PowerCommands
    BY DEF PowerCommands
  <2> QED BY <1>3, <1>a, <1>e, <2>1 DEF SubmitOff
<1>4. ASSUME NEW c \in Clients, UnsubscribeNext(c) \/ Unsubscribe(c) \/ Unsubscribed(c)
      PROVE  PowerTypes'
  BY <1>4, <1>a DEF UnsubscribeNext, Unsubscribe, Unsubscribed
<1>5. CASE Begin
  BY <1>5, <1>a, ListFacts DEF Begin
<1>6. CASE Execute
  <2>1. PICK d \in job.todo : devPower' = [devPower EXCEPT ![d] = To[job.cmd]]
    BY <1>6 DEF Execute
  <2> QED BY <1>6, <1>a, <1>c, <1>d, <2>1 DEF Execute
<1>7. CASE Fails
  <2>1. PICK d \in job.todo : late' = late \cup ({job.cmd} \X (job.todo \ {d}))
    BY <1>7 DEF Fails
  <2>2. late' \subseteq PowerCommands \X Devices
    BY <1>a, <1>d, <2>1
  <2> QED BY <1>7, <1>a, <2>2 DEF Fails
<1>8. CASE ExecuteLate
  <2>1. PICK l \in late : late' = late \ {l} /\ devPower' = [devPower EXCEPT ![l[2]] = To[l[1]]]
    BY <1>8 DEF ExecuteLate
  <2>2. l[1] \in PowerCommands
    BY <1>a
  <2> QED BY <1>8, <1>a, <1>c, <2>1, <2>2 DEF ExecuteLate
<1>9. CASE Ended \/ Check \/ Subscribe \/ AddCallback \/ Read \/ Get \/ Assign
  BY <1>9, <1>a DEF Ended, Check, Subscribe, AddCallback, Read, Get, Assign
<1>10. CASE Refused \/ Removed
  BY <1>10, <1>a DEF Refused, Removed, Raise
<1>11. CASE ShowPower
  BY <1>11, <1>a, <1>c, <1>d DEF ShowPower, OffPending
<1>12. ASSUME NEW d \in Devices, Change(d) PROVE PowerTypes'
  BY <1>12, <1>a, <1>b DEF Change
<1>13. ASSUME NEW e \in events, Handle(e) PROVE PowerTypes'
  BY <1>13, <1>a DEF Handle
<1>14. CASE UNCHANGED vars
  BY <1>14, <1>a DEF vars
<1>15. ASSUME NEW t \in Threads, Finalise(t) PROVE PowerTypes'
  BY <1>15, <1>a DEF Finalise
<1> QED
  BY <1>1, <1>2, <1>3, <1>4, <1>5, <1>6, <1>7, <1>8, <1>9, <1>10, <1>11, <1>12, <1>13, <1>14, <1>15
  DEF Next, Worker, OffStep, Threads

(* The subscriptions that there are.                                       *)
LEMMA SubTypesStep ==
  TypeInv /\ [Next]_vars => SubTypes' /\ Len(subs') \in Nat /\ Ids \subseteq Ids'
<1> SUFFICES ASSUME TypeInv, [Next]_vars
             PROVE  SubTypes' /\ Len(subs') \in Nat /\ Ids \subseteq Ids'
  OBVIOUS
<1> USE DEF SubTypes, subVars
<1>a. SubTypes /\ job \in WorkType(Ids) /\ offs \in [Clients -> OffType(Ids)]
  BY DEF TypeInv, ThreadTypes
<1>b. Len(subs) \in Nat /\ Len(subs) + 1 \in Nat /\ Device \in Devices /\ job.made \in Seq(Ids)
      /\ 0 \notin Ids
  <2>1. Len(subs) \in Nat
    BY <1>a, ListFacts
  <2>2. job.at \in 1 .. Len(Order) /\ job.made \in Seq(Ids)
    BY <1>a DEF WorkType
  <2>3. Device \in Devices
    BY <2>2, OrderFacts DEF Device
  <2> QED BY <2>1, <2>2, <2>3 DEF Ids
<1>c. ASSUME UNCHANGED subs, stored' \in [Devices -> Ids \cup {0}], locked' \subseteq Devices,
             handles' \in Seq(Ids)
      PROVE  SubTypes' /\ Len(subs') \in Nat /\ Ids \subseteq Ids'
  BY <1>a, <1>b, <1>c DEF Ids
<1>d. ASSUME NEW i \in Ids, NEW x \in SubType, subs' = [subs EXCEPT ![i] = x],
             stored' \in [Devices -> Ids \cup {0}], UNCHANGED <<locked, handles>>
      PROVE  SubTypes' /\ Len(subs') \in Nat /\ Ids \subseteq Ids'
  <2>1. subs' \in Seq(SubType) /\ Len(subs') = Len(subs)
    BY <1>a, <1>d, ListReplace DEF Ids
  <2>2. Ids' = Ids
    BY <2>1 DEF Ids
  <2> QED BY <1>a, <1>b, <1>d, <2>1, <2>2
<1>e. \A k \in Ids : subs[k] \in SubType /\ subs[k].dev \in Devices
  <2>1. \A k \in 1 .. Len(subs) : subs[k] \in SubType
    BY <1>a, ListFacts
  <2> QED BY <2>1 DEF Ids, SubType
<1>1. ASSUME NEW c \in Clients, UnsubscribeNext(c)
      PROVE  SubTypes' /\ Len(subs') \in Nat /\ Ids \subseteq Ids'
  <2>1. /\ UNCHANGED <<subs, stored, locked>>
        /\ handles' = handles \/ handles' = <<>>
    BY <1>1 DEF UnsubscribeNext
  <2>2. <<>> \in Seq(Ids)
    OBVIOUS
  <2>3. handles' \in Seq(Ids)
    BY <1>a, <2>1, <2>2
  <2> QED BY <1>a, <1>c, <2>1, <2>3
<1>2. ASSUME NEW c \in Clients, Unsubscribe(c) \/ Unsubscribed(c)
      PROVE  SubTypes' /\ Len(subs') \in Nat /\ Ids \subseteq Ids'
  <2> DEFINE i == Head(offs[c].left)
  <2>1. offs[c].left \in Seq(Ids) /\ offs[c].left # <<>>
    BY <1>2, <1>a DEF Unsubscribe, Unsubscribed, OffAt, TypeInv, ThreadTypes, OffType
  <2>2. i \in Ids
    BY <2>1, ListFacts
  <2>3. subs[i] \in SubType /\ subs[i].dev \in Devices
    BY <1>e, <2>2
  <2> HIDE DEF i
  <2>4. /\ [subs[i] EXCEPT !.live = FALSE] \in SubType
        /\ [subs[i] EXCEPT !.subscribed = FALSE, !.callbacks = 0] \in SubType
    BY <2>3 DEF SubType
  <2>5. CASE Unsubscribe(c)
    <3>1. /\ subs' = [subs EXCEPT ![i] = [subs[i] EXCEPT !.live = FALSE]]
          /\ stored' = [stored EXCEPT ![subs[i].dev] = 0]
          /\ UNCHANGED <<locked, handles>>
      BY <2>5 DEF Unsubscribe, Delete, i
    <3> QED BY <1>a, <1>d, <2>2, <2>3, <2>4, <3>1
  <2>6. CASE Unsubscribed(c)
    <3>1. /\ subs' = [subs EXCEPT ![i] = [subs[i] EXCEPT !.subscribed = FALSE, !.callbacks = 0]]
          /\ UNCHANGED <<stored, locked, handles>>
      BY <2>6 DEF Unsubscribed, i
    <3> QED BY <1>a, <1>d, <2>2, <2>3, <2>4, <3>1
  <2> QED BY <1>2, <2>5, <2>6
<1>3. CASE Subscribe
  <2> DEFINE new == [dev |-> Device, live |-> TRUE, subscribed |-> TRUE, callbacks |-> 1]
  <2>1. /\ subs' = Append(subs, new)
        /\ stored' = [stored EXCEPT ![Device] = Len(subs) + 1]
        /\ locked' = locked \ {Device} /\ handles' = handles
    BY <1>3 DEF Subscribe, Subscribes
  <2>2. new \in SubType
    BY <1>b DEF SubType
  <2> HIDE DEF new
  <2>3. subs' \in Seq(SubType) /\ Len(subs') = Len(subs) + 1
    BY <1>a, <2>1, <2>2, ListFacts
  <2>4. Ids \subseteq Ids' /\ Len(subs) + 1 \in Ids'
    BY <1>b, <2>3 DEF Ids
  <2>5. handles' \in Seq(Ids')
    <3> DEFINE T == Ids'
    <3> HIDE DEF T
    <3>1. Ids \subseteq T
      BY <2>4 DEF T
    <3>2. handles \in Seq(T)
      BY <1>a, <3>1, ListGrows
    <3> QED BY <2>1, <3>2 DEF T
  <2> QED BY <1>a, <1>b, <2>1, <2>3, <2>4, <2>5
<1>4. CASE AddCallback
  <2> DEFINE i == stored[Device]
  <2>1. i \in Ids
    BY <1>4, <1>a, <1>b DEF AddCallback
  <2>2. subs[i] \in SubType
    BY <1>e, <2>1
  <2>3. /\ subs' = [subs EXCEPT ![i] = [subs[i] EXCEPT !.callbacks = subs[i].callbacks + 1]]
        /\ UNCHANGED <<stored, locked, handles>>
    BY <1>4 DEF AddCallback
  <2> HIDE DEF i
  <2>4. [subs[i] EXCEPT !.callbacks = subs[i].callbacks + 1] \in SubType
    BY <2>2 DEF SubType
  <2> QED BY <1>a, <1>d, <2>1, <2>3, <2>4
<1>5. CASE Check
  BY <1>5, <1>a, <1>b, <1>c DEF Check
<1>6. CASE Refused \/ Removed
  BY <1>6, <1>a, <1>b, <1>c DEF Refused, Removed, Raise
<1>7. CASE Assign
  BY <1>7, <1>a, <1>b, <1>c DEF Assign
<1>8. ASSUME \/ \E cmd \in PowerCommands : Call(cmd)
             \/ \E c \in Clients : CallOff(c) \/ SubmitOff(c)
             \/ Begin \/ Execute \/ Ended \/ Read \/ Get \/ ShowPower \/ Fails \/ ExecuteLate
             \/ \E d \in Devices : Change(d)
             \/ \E e \in events : Handle(e)
             \/ UNCHANGED vars
      PROVE  UNCHANGED subVars
  BY <1>8 DEF Call, CallOff, SubmitOff, Begin, Execute, Ended, Read, Get, ShowPower, Fails,
              ExecuteLate, Change, Handle, vars
<1>9. ASSUME NEW t \in Threads, Finalise(t)
      PROVE  SubTypes' /\ Len(subs') \in Nat /\ Ids \subseteq Ids'
  <2>1. PICK i \in dropped[t] :
          /\ subs' = [subs EXCEPT ![i] = [subs[i] EXCEPT !.live = FALSE, !.subscribed = FALSE,
                                                         !.callbacks = 0]]
          /\ stored' = [stored EXCEPT ![subs[i].dev] = 0]
          /\ UNCHANGED <<locked, handles>>
    BY <1>9 DEF Finalise, Delete
  <2>2. i \in Ids
    BY DEF TypeInv, DelTypes
  <2>3. subs[i] \in SubType /\ subs[i].dev \in Devices
    BY <1>e, <2>2
  <2>4. [subs[i] EXCEPT !.live = FALSE, !.subscribed = FALSE, !.callbacks = 0] \in SubType
    BY <2>3 DEF SubType
  <2> QED BY <1>a, <1>d, <2>1, <2>2, <2>3, <2>4
<1> QED
  BY <1>a, <1>c, <1>1, <1>2, <1>3, <1>4, <1>5, <1>6, <1>7, <1>8, <1>9
  DEF Next, Worker, OffStep, Threads

LEMMA EventTypesStep == TypeInv /\ [Next]_vars => EventTypes'
<1> SUFFICES ASSUME TypeInv, [Next]_vars PROVE EventTypes'
  OBVIOUS
<1> USE DEF EventTypes, eventVars
<1>a. EventTypes /\ Len(subs) \in Nat /\ Ids \subseteq Ids'
  BY SubTypesStep, ListFacts DEF TypeInv, SubTypes
<1>b. Device \in Devices
  BY OrderFacts DEF TypeInv, ThreadTypes, WorkType, Device
<1>c. events \subseteq [id : Ids', dev : Devices, fault : BOOLEAN]
  BY <1>a
<1>1. CASE Subscribe
  <2>1. /\ events' = events \cup {Event(Len(subs) + 1, Device)} /\ UNCHANGED <<faulty, told>>
        /\ Len(subs') = Len(subs) + 1
    BY <1>1 DEF Subscribe, Subscribes, TypeInv, SubTypes
  <2>2. Len(subs) + 1 \in Ids'
    BY <1>a, <2>1 DEF Ids
  <2>3. Event(Len(subs) + 1, Device) \in [id : Ids', dev : Devices, fault : BOOLEAN]
    BY <1>b, <2>2 DEF Event
  <2> QED BY <1>a, <1>c, <2>1, <2>3
<1>2. CASE Read
  BY <1>2, <1>a, <1>b, <1>c DEF Read
<1>3. ASSUME NEW d \in Devices, Change(d) PROVE EventTypes'
  <2>1. /\ faulty' \subseteq Devices /\ told' \subseteq Devices
        /\ events' = events \cup {[id |-> i, dev |-> d, fault |-> d \notin faulty] : i \in Live(d)}
    BY <1>3, <1>a DEF Change
  <2>2. \A i \in Live(d) : [id |-> i, dev |-> d, fault |-> d \notin faulty]
                           \in [id : Ids', dev : Devices, fault : BOOLEAN]
    BY <1>a DEF Live
  <2> QED BY <1>c, <2>1, <2>2
<1>4. ASSUME NEW e \in events, Handle(e) PROVE EventTypes'
  <2>1. e.dev \in Devices
    BY <1>a
  <2> QED BY <1>4, <1>a, <1>c, <2>1 DEF Handle
<1>5. ASSUME \/ \E cmd \in PowerCommands : Call(cmd)
             \/ \E c \in Clients : \/ CallOff(c) \/ SubmitOff(c)
                                   \/ UnsubscribeNext(c) \/ Unsubscribe(c) \/ Unsubscribed(c)
             \/ Begin \/ Execute \/ Ended \/ Check \/ AddCallback \/ Get \/ Refused \/ Removed
             \/ Assign \/ ShowPower \/ Fails \/ ExecuteLate
             \/ \E t \in Threads : Finalise(t)
             \/ UNCHANGED vars
      PROVE  UNCHANGED eventVars
  BY <1>5 DEF Finalise, Call, CallOff, SubmitOff, UnsubscribeNext, Unsubscribe, Unsubscribed, Begin, Execute,
              Ended, Check, AddCallback, Get, Refused, Removed, Raise, Assign, ShowPower, Fails,
              ExecuteLate, vars
<1> QED
  BY <1>a, <1>c, <1>1, <1>2, <1>3, <1>4, <1>5 DEF Next, Worker, OffStep, Threads

(* What the job and the calls of Off hold on to.                           *)
LEMMA ThreadsGrow ==
  ASSUME NEW T, Ids \subseteq T, ThreadTypes
  PROVE  job \in WorkType(T) /\ offs \in [Clients -> OffType(T)]
<1>1. \A q \in Seq(Ids) : q \in Seq(T)
  BY ListGrows
<1>2. job \in WorkType(T)
  BY <1>1 DEF ThreadTypes, WorkType
<1>3. \A x \in OffType(Ids) : x \in OffType(T)
  BY <1>1 DEF OffType
<1> QED
  BY <1>2, <1>3 DEF ThreadTypes

LEMMA ThreadTypesStep == TypeInv /\ [Next]_vars => ThreadTypes'
<1> SUFFICES ASSUME TypeInv, [Next]_vars PROVE ThreadTypes'
  OBVIOUS
<1> DEFINE T == Ids'
<1>a. /\ ThreadTypes /\ handles \in Seq(Ids) /\ jobs \in Seq(JobType)
      /\ stored \in [Devices -> Ids \cup {0}] /\ Ids \subseteq T
      /\ Len(Order) \in Nat \ {0} /\ Device \in Devices
  BY SubTypesStep, OrderFacts DEF TypeInv, SubTypes, PowerTypes, ThreadTypes, WorkType, Device
<1> HIDE DEF T
<1>b. job \in WorkType(T) /\ offs \in [Clients -> OffType(T)] /\ handles \in Seq(T)
  BY <1>a, ThreadsGrow, ListGrows
<1>c. \A c \in Clients : offs[c].pc \in {"lock", "flag"} => offs[c].left # <<>>
  BY <1>a DEF ThreadTypes
<1>d. NoJob \in WorkType(T)
  BY <1>a DEF WorkType, NoJob, Pcs, PowerCommands
<1>e. ASSUME job' \in WorkType(T), offs' = offs PROVE ThreadTypes'
  BY <1>b, <1>c, <1>e DEF ThreadTypes, T
<1>f. ASSUME NEW c \in Clients, NEW x \in OffType(T), offs' = [offs EXCEPT ![c] = x], job' = job,
             x.pc \in {"lock", "flag"} => x.left # <<>>
      PROVE  ThreadTypes'
  BY <1>b, <1>c, <1>f DEF ThreadTypes, T
<1>g. ASSUME NEW pc \in Pcs, Goto(pc), offs' = offs PROVE ThreadTypes'
  <2>1. job' \in WorkType(T)
    BY <1>b, <1>g DEF Goto, WorkType
  <2> QED BY <1>e, <1>g, <2>1
<1>h. \A c \in Clients : offs[c] \in OffType(T) /\ offs[c].left \in Seq(T)
  BY <1>b DEF OffType
<1>1. ASSUME NEW c \in Clients, CallOff(c) PROVE ThreadTypes'
  <2>1. [pc |-> "next", left |-> handles] \in OffType(T)
    BY <1>b DEF OffType
  <2>2. offs' = [offs EXCEPT ![c] = [pc |-> "next", left |-> handles]] /\ job' = job
    BY <1>1 DEF CallOff, jobVars
  <2> QED BY <1>f, <2>1, <2>2
<1>2. ASSUME NEW c \in Clients, UnsubscribeNext(c) PROVE ThreadTypes'
  <2>1. job' = job
    BY <1>2 DEF UnsubscribeNext, jobVars
  <2>2. CASE offs[c].left = <<>>
    <3>1. offs' = [offs EXCEPT ![c] = [offs[c] EXCEPT !.pc = "submit"]]
      BY <1>2, <2>2 DEF UnsubscribeNext, OffGoto
    <3>2. [offs[c] EXCEPT !.pc = "submit"] \in OffType(T)
      BY <1>h DEF OffType
    <3>3. [offs[c] EXCEPT !.pc = "submit"].pc = "submit"
      BY <1>h DEF OffType
    <3> QED BY <1>f, <2>1, <3>1, <3>2, <3>3
  <2>3. CASE offs[c].left # <<>>
    <3>1. \/ offs' = [offs EXCEPT ![c] = [offs[c] EXCEPT !.pc = "lock"]]
          \/ offs' = [offs EXCEPT ![c] = [offs[c] EXCEPT !.left = Tail(offs[c].left)]]
      BY <1>2, <2>3 DEF UnsubscribeNext
    <3>2. [offs[c] EXCEPT !.pc = "lock"] \in OffType(T)
      BY <1>h DEF OffType
    <3>3. Tail(offs[c].left) \in Seq(T)
      BY <1>h, <2>3, ListFacts
    <3>4. [offs[c] EXCEPT !.left = Tail(offs[c].left)] \in OffType(T)
      BY <1>h, <3>3 DEF OffType
    <3>5. /\ [offs[c] EXCEPT !.left = Tail(offs[c].left)].pc = "next"
          /\ [offs[c] EXCEPT !.pc = "lock"].left # <<>>
      BY <1>2, <1>h, <2>3 DEF OffType, UnsubscribeNext, OffAt
    <3> QED BY <1>f, <2>1, <3>1, <3>2, <3>4, <3>5
  <2> QED BY <2>2, <2>3
<1>3. ASSUME NEW c \in Clients, Unsubscribe(c) PROVE ThreadTypes'
  <2>1. offs' = [offs EXCEPT ![c] = [offs[c] EXCEPT !.pc = "flag"]] /\ job' = job
    BY <1>3 DEF Unsubscribe, OffGoto, jobVars
  <2>2. [offs[c] EXCEPT !.pc = "flag"] \in OffType(T) /\ offs[c].left # <<>>
    BY <1>3, <1>c, <1>h DEF OffType, Unsubscribe, OffAt
  <2>3. [offs[c] EXCEPT !.pc = "flag"].left = offs[c].left
    BY <1>h DEF OffType
  <2> QED BY <1>f, <2>1, <2>2, <2>3
<1>4. ASSUME NEW c \in Clients, Unsubscribed(c) PROVE ThreadTypes'
  <2>1. /\ offs' = [offs EXCEPT ![c] = [pc |-> "next", left |-> Tail(offs[c].left)]]
        /\ job' = job /\ offs[c].left # <<>>
    BY <1>4, <1>c DEF Unsubscribed, OffAt, jobVars
  <2>2. Tail(offs[c].left) \in Seq(T)
    BY <1>h, <2>1, ListFacts
  <2>3. [pc |-> "next", left |-> Tail(offs[c].left)] \in OffType(T)
    BY <2>2 DEF OffType
  <2> QED BY <1>f, <2>1, <2>3
<1>5. ASSUME NEW c \in Clients, SubmitOff(c) PROVE ThreadTypes'
  <2>1. NoOff \in OffType(T) /\ NoOff.pc = "none"
    BY DEF NoOff, OffType
  <2>2. offs' = [offs EXCEPT ![c] = NoOff] /\ job' = job
    BY <1>5 DEF SubmitOff
  <2> QED BY <1>f, <2>1, <2>2
<1>6. CASE Begin
  <2>1. Head(jobs) \in JobType
    BY <1>6, <1>a, ListFacts DEF Begin
  <2>2. [NoJob EXCEPT !.pc = "work", !.cmd = Head(jobs).cmd, !.todo = Head(jobs).devices]
        \in WorkType(T)
    BY <1>d, <2>1 DEF WorkType, JobType, Pcs
  <2> QED BY <1>6, <1>e, <2>2 DEF Begin
<1>7. CASE Execute
  <2>1. PICK d \in job.todo : job' = [job EXCEPT !.todo = job.todo \ {d}]
    BY <1>7 DEF Execute
  <2>2. job' \in WorkType(T)
    BY <1>b, <2>1 DEF WorkType
  <2> QED BY <1>7, <1>e, <2>2 DEF Execute
<1>8. CASE Ended \/ Check \/ AddCallback \/ Read \/ Assign
  <2>1. PICK pc \in Pcs : Goto(pc)
    BY <1>8 DEF Ended, Check, AddCallback, Read, Assign, Pcs, Loop
  <2>2. offs' = offs
    BY <1>8 DEF Ended, Check, AddCallback, Read, Assign
  <2> QED BY <1>g, <2>1, <2>2
<1>12. CASE Subscribe
  <2>1. job' = [job EXCEPT !.pc = "get", !.own = Len(subs) + 1] /\ offs' = offs
        /\ Len(subs') = Len(subs) + 1 /\ Len(subs) \in Nat
    BY <1>12, ListFacts DEF Subscribe, Subscribes, TypeInv, SubTypes
  <2>2. Len(subs) + 1 \in T
    BY <2>1 DEF Ids, T
  <2>3. job' \in WorkType(T)
    BY <1>b, <2>1, <2>2 DEF WorkType, Pcs, Loop
  <2> QED BY <1>e, <2>1, <2>3
<1>9. CASE Get
  <2>1. stored[Device] \in T
    BY <1>9, <1>a DEF Get
  <2> DEFINE made == Append(job.made, stored[Device])
  <2>2. made \in Seq(T)
    BY <1>b, <2>1, ListFacts DEF WorkType
  <2>3. \/ job.at = Len(Order) /\ job' = [job EXCEPT !.pc = "assign", !.made = made, !.own = 0]
        \/ /\ job.at # Len(Order)
           /\ job' = [job EXCEPT !.pc = "check", !.made = made, !.own = 0, !.at = job.at + 1]
    BY <1>9 DEF Get
  <2> HIDE DEF made
  <2>4. job.at # Len(Order) => job.at + 1 \in 1 .. Len(Order)
    BY <1>a, <1>b DEF WorkType
  <2>5. job' \in WorkType(T)
    BY <1>b, <2>2, <2>3, <2>4 DEF WorkType, Pcs, Loop
  <2> QED BY <1>9, <1>e, <2>5 DEF Get
<1>10. CASE Fails \/ Refused \/ Removed \/ ShowPower
  BY <1>10, <1>d, <1>e DEF Fails, Refused, Removed, Raise, ShowPower
<1>11. ASSUME \/ \E cmd \in PowerCommands : Call(cmd)
              \/ ExecuteLate \/ UNCHANGED vars
              \/ \E d \in Devices : Change(d)
              \/ \E e \in events : Handle(e)
              \/ \E t \in Threads : Finalise(t)
       PROVE  UNCHANGED <<job, offs>>
  BY <1>11 DEF Call, ExecuteLate, Change, Handle, Finalise, vars, jobVars
<1> QED
  BY <1>b, <1>e, <1>1, <1>2, <1>3, <1>4, <1>5, <1>6, <1>7, <1>8, <1>9, <1>10, <1>11, <1>12
  DEF Next, Worker, OffStep, Threads

LEMMA DelTypesStep == TypeInv /\ [Next]_vars => DelTypes'
<1> SUFFICES ASSUME TypeInv, [Next]_vars PROVE DelTypes'
  OBVIOUS
<1> USE DEF DelTypes
<1>a. DelTypes /\ Ids \subseteq Ids' /\ LetGo \subseteq Ids
  BY SubTypesStep, KeptType DEF TypeInv
<1>1. UNCHANGED delVars => DelTypes'
  BY <1>a DEF delVars
<1>2. ASSUME NEW t \in Threads, LetsGo(t), UNCHANGED <<lost, finalised>> PROVE DelTypes'
  BY <1>a, <1>2 DEF LetsGo
<1>3. ASSUME NEW d \in Devices, Delete(d) PROVE lost' \subseteq Devices
  BY <1>a, <1>3 DEF Delete
<1>4. \A i \in Ids : subs[i].dev \in Devices
  <2>1. subs \in Seq(SubType)
    BY DEF TypeInv, SubTypes
  <2>2. \A i \in 1 .. Len(subs) : subs[i] \in SubType
    BY <2>1, ListFacts
  <2> QED BY <2>2 DEF SubType, Ids
<1>5. ASSUME NEW c \in Clients, Unsubscribe(c) PROVE DelTypes'
  <2>1. Head(offs[c].left) \in Ids
    BY <1>5, ListFacts DEF Unsubscribe, OffAt, TypeInv, ThreadTypes, OffType
  <2>2. lost' \subseteq Devices
    BY <1>3, <1>4, <1>5, <2>1 DEF Unsubscribe
  <2>3. dropped' = [dropped EXCEPT ![c] = dropped[c] \cup LetGo] /\ finalised' \in BOOLEAN
    BY <1>5 DEF Unsubscribe, LetsGo
  <2> QED BY <1>a, <2>2, <2>3 DEF Threads
<1>6. ASSUME NEW t \in Threads, Finalise(t) PROVE DelTypes'
  <2>1. PICK i \in dropped[t] :
          Delete(subs[i].dev) /\ dropped' = [dropped EXCEPT ![t] = (dropped[t] \ {i}) \cup LetGo]
    BY <1>6 DEF Finalise
  <2>2. lost' \subseteq Devices
    BY <1>a, <1>3, <1>4, <2>1
  <2>3. finalised' \in BOOLEAN
    BY <1>6 DEF Finalise
  <2> QED BY <1>a, <2>1, <2>2, <2>3
<1>7. ASSUME \/ \E c \in Clients : UnsubscribeNext(c)
             \/ Refused \/ Removed \/ Assign
      PROVE  DelTypes'
  BY <1>2, <1>7 DEF UnsubscribeNext, Refused, Removed, Raise, Assign, Threads
<1>8. ASSUME \/ \E cmd \in PowerCommands : Call(cmd)
             \/ \E c \in Clients : CallOff(c) \/ SubmitOff(c) \/ Unsubscribed(c)
             \/ Begin \/ Execute \/ Ended \/ Check \/ Subscribe \/ AddCallback \/ Read \/ Get
             \/ ShowPower \/ Fails \/ ExecuteLate
             \/ \E d \in Devices : Change(d)
             \/ \E e \in events : Handle(e)
             \/ UNCHANGED vars
      PROVE  UNCHANGED delVars
  BY <1>8 DEF Call, CallOff, SubmitOff, Unsubscribed, Begin, Execute, Ended, Check, Subscribe,
              AddCallback, Read, Get, ShowPower, Fails, ExecuteLate, Change, Handle, vars
<1> QED
  BY <1>1, <1>5, <1>6, <1>7, <1>8 DEF Next, Worker, OffStep, Threads

LEMMA TypeStep == TypeInv /\ [Next]_vars => TypeInv'
BY PowerTypesStep, SubTypesStep, EventTypesStep, ThreadTypesStep, DelTypesStep DEF TypeInv

-----------------------------------------------------------------------------
(* The callbacks.                                                          *)

LEMMA CountFacts ==
  ASSUME TypeInv
  PROVE  /\ Len(jobs) \in Nat /\ calls \in Nat /\ ToCome \in Nat
         /\ \A c \in Clients : Busy(c) \in {0, 1}
         /\ \A i \in Ids : subs[i] \in SubType /\ subs[i].callbacks \in Nat
         /\ Len(subs) \in Nat
         /\ job.at \in 1 .. Len(Order) /\ Device \in Devices
         /\ \A c \in Clients : offs[c] \in OffType(Ids)
<1>1. Len(jobs) \in Nat /\ calls \in Nat
  BY BoundsAssumption, ListFacts DEF TypeInv, PowerTypes
<1>2. \A c \in Clients : Busy(c) \in {0, 1}
  BY DEF Busy
<1>3. ToCome \in Nat
  <2>1. Busy(1) \in {0, 1} /\ Busy(2) \in {0, 1}
    BY <1>2 DEF Clients
  <2> QED BY <1>1, <2>1 DEF ToCome
<1>4. subs \in Seq(SubType)
  BY DEF TypeInv, SubTypes
<1>5. Len(subs) \in Nat /\ \A i \in Ids : subs[i] \in SubType
  BY <1>4, ListFacts DEF Ids
<1>6. job.at \in 1 .. Len(Order) /\ Device \in Devices
  BY OrderFacts DEF TypeInv, ThreadTypes, WorkType, Device
<1>7. \A c \in Clients : offs[c] \in OffType(Ids)
  BY DEF TypeInv, ThreadTypes
<1> QED
  BY <1>1, <1>2, <1>3, <1>5, <1>6, <1>7 DEF SubType

(* It holds when the subscriptions have no more callbacks, no more is to   *)
(* come than calls were made, and no more devices are due.                 *)
LEMMA CountKept ==
  ASSUME TypeInv, TypeInv', CountInv,
         \A i \in Ids' : i \in Ids /\ subs'[i].dev = subs[i].dev
                         /\ subs'[i].callbacks <= subs[i].callbacks,
         ToCome' + calls <= ToCome + calls',
         \A d \in Devices : Due(d)' => Due(d)
  PROVE  CountInv'
<1>1. /\ ToCome \in Nat /\ calls \in Nat
      /\ \A i \in Ids : subs[i].callbacks \in Nat
  BY CountFacts
<1>2. /\ ToCome' \in Nat /\ calls' \in Nat
      /\ \A i \in Ids' : subs'[i].callbacks \in Nat
  <2>1. calls' \in Nat
    BY BoundsAssumption DEF TypeInv, PowerTypes
  <2>2. Len(jobs') \in Nat
    BY ListFacts DEF TypeInv, PowerTypes
  <2>3. ToCome' \in Nat
    <3>1. Busy(1)' \in {0, 1} /\ Busy(2)' \in {0, 1}
      BY DEF Busy
    <3> QED BY <2>2, <3>1 DEF ToCome
  <2>4. subs' \in Seq(SubType)
    BY DEF TypeInv, SubTypes
  <2>5. \A i \in 1 .. Len(subs') : subs'[i] \in SubType
    BY <2>4, ListFacts
  <2> QED BY <2>1, <2>3, <2>5 DEF SubType, Ids
<1>0. \A a, b, p, q, n \in Nat :
        /\ a <= b /\ p + b <= a + q => p <= q
        /\ n + a <= b /\ p + b <= a + q => n + p <= q
        /\ n + 1 + a <= b /\ p + b <= a + q => n + 1 + p <= q
  OBVIOUS
<1>3. ToCome' <= calls'
  BY <1>0, <1>1, <1>2 DEF CountInv
<1>4. ASSUME NEW i \in Ids' PROVE subs'[i].callbacks + ToCome' <= calls'
  <2>1. /\ i \in Ids /\ subs'[i].callbacks <= subs[i].callbacks
        /\ subs[i].callbacks + ToCome <= calls
        /\ subs[i].callbacks \in Nat /\ subs'[i].callbacks \in Nat
    BY <1>1, <1>2, <1>4 DEF CountInv
  <2> QED BY <1>1, <1>2, <2>1
<1>5. ASSUME NEW d \in Devices, Due(d)'
      PROVE  /\ 1 + ToCome' <= calls'
             /\ \A i \in Ids' : subs'[i].dev = d => subs'[i].callbacks + 1 + ToCome' <= calls'
  <2>1. /\ 1 + ToCome <= calls
        /\ \A i \in Ids : subs[i].dev = d => subs[i].callbacks + 1 + ToCome <= calls
    BY <1>5 DEF CountInv
  <2>2. 1 + ToCome' <= calls'
    BY <1>0, <1>1, <1>2, <2>1
  <2>3. ASSUME NEW i \in Ids', subs'[i].dev = d
        PROVE  subs'[i].callbacks + 1 + ToCome' <= calls'
    <3>1. /\ subs[i].callbacks + 1 + ToCome <= calls
          /\ subs'[i].callbacks <= subs[i].callbacks
          /\ subs[i].callbacks \in Nat /\ subs'[i].callbacks \in Nat
      BY <1>1, <1>2, <2>1, <2>3
    <3> QED BY <1>1, <1>2, <3>1
  <2> QED BY <2>2, <2>3
<1> QED
  BY <1>3, <1>4, <1>5 DEF CountInv

(* How many are to come, after what the clients do.                        *)
LEMMA ToComeFacts ==
  ASSUME TypeInv, PowerTypes'
  PROVE  /\ UNCHANGED <<jobs, offs>> => ToCome' = ToCome
         /\ \A cmd \in PowerCommands : Submit(cmd) => Len(jobs') = Len(jobs) + 1
         /\ \A c \in Clients, x \in OffType(Ids) \cup {NoOff} :
              offs' = [offs EXCEPT ![c] = x] =>
                ToCome' = Len(jobs') + Busy(1) + Busy(2) - Busy(c)
                          + IF x = NoOff THEN 0 ELSE 1
<1>1. UNCHANGED <<jobs, offs>> => ToCome' = ToCome
  BY DEF ToCome, Busy
<1>2. ASSUME NEW cmd \in PowerCommands, Submit(cmd) PROVE Len(jobs') = Len(jobs) + 1
  <2>1. [cmd |-> cmd, devices |-> Targets(cmd)] \in JobType
    BY DEF JobType, Targets, NotYet
  <2> QED BY <1>2, <2>1, ListFacts DEF Submit, TypeInv, PowerTypes
<1>3. ASSUME NEW c \in Clients, NEW x \in OffType(Ids) \cup {NoOff}, offs' = [offs EXCEPT ![c] = x],
             TypeInv, PowerTypes'
      PROVE  ToCome' = Len(jobs') + Busy(1) + Busy(2) - Busy(c) + IF x = NoOff THEN 0 ELSE 1
  <2>0. Len(jobs') \in Nat
    BY ListFacts DEF PowerTypes
  <2>1. DOMAIN offs = Clients
    BY DEF TypeInv, ThreadTypes
  <2>2. \A b \in Clients : Busy(b)' = IF b = c THEN (IF x = NoOff THEN 0 ELSE 1) ELSE Busy(b)
    BY <1>3, <2>1 DEF Busy
  <2>3. ToCome' = Len(jobs') + Busy(1)' + Busy(2)'
    BY DEF ToCome
  <2>4. 1 \in Clients /\ 2 \in Clients /\ (c = 1 \/ c = 2)
    BY DEF Clients
  <2>5. Busy(1) \in {0, 1} /\ Busy(2) \in {0, 1}
    BY DEF Busy
  <2>7. CASE c = 1
    <3>1. /\ Busy(1)' = IF x = NoOff THEN 0 ELSE 1
          /\ Busy(2)' = Busy(2)
      BY <2>2, <2>4, <2>7
    <3> QED BY <2>0, <2>3, <2>5, <2>7, <3>1
  <2>8. CASE c = 2
    <3>1. /\ Busy(2)' = IF x = NoOff THEN 0 ELSE 1
          /\ Busy(1)' = Busy(1)
      BY <2>2, <2>4, <2>8
    <3> QED BY <2>0, <2>3, <2>5, <2>8, <3>1
  <2> QED BY <2>4, <2>7, <2>8
<1> QED
  BY <1>1, <1>2, <1>3

LEMMA CountInit == Init => CountInv
<1> SUFFICES ASSUME Init PROVE CountInv
  OBVIOUS
<1>1. Len(jobs) = 0 /\ Ids = {} /\ calls = 0
  BY DEF Init, Ids
<1>2. Busy(1) = 0 /\ Busy(2) = 0
  BY DEF Init, Busy, Clients
<1>3. \A d \in Devices : ~Due(d)
  BY DEF Init, Due, At, NoJob, Loop
<1> QED
  BY <1>1, <1>2, <1>3 DEF CountInv, ToCome

LEMMA CountStep == TypeInv /\ CountInv /\ StoredInv /\ [Next]_vars => CountInv'
<1> SUFFICES ASSUME TypeInv, CountInv, StoredInv, [Next]_vars PROVE CountInv'
  OBVIOUS
<1>a. /\ TypeInv' /\ PowerTypes'
      /\ Len(jobs) \in Nat /\ calls \in Nat /\ ToCome \in Nat
      /\ \A c \in Clients : Busy(c) \in {0, 1}
      /\ \A i \in Ids : subs[i] \in SubType /\ subs[i].callbacks \in Nat
      /\ Len(subs) \in Nat
      /\ job.at \in 1 .. Len(Order) /\ Device \in Devices
      /\ \A c \in Clients : offs[c] \in OffType(Ids)
  BY CountFacts, TypeStep DEF TypeInv
<1>b. 1 \in Clients /\ 2 \in Clients /\ ToCome = Len(jobs) + Busy(1) + Busy(2)
  BY DEF Clients, ToCome
<1>c. ASSUME UNCHANGED subs
      PROVE  \A i \in Ids' : i \in Ids /\ subs'[i].dev = subs[i].dev
                             /\ subs'[i].callbacks <= subs[i].callbacks
  BY <1>a, <1>c DEF Ids
<1>d. UNCHANGED job => \A d \in Devices : Due(d)' => Due(d)
  BY DEF Due, At
<1>e. job' = NoJob => \A d \in Devices : Due(d)' => Due(d)
  BY DEF Due, At, NoJob, Loop
<1>f. ASSUME UNCHANGED <<jobs, offs, calls>> PROVE ToCome' + calls <= ToCome + calls'
  BY <1>a, <1>f, ToComeFacts
<1>g. ASSUME NEW c \in Clients, NEW x \in OffType(Ids), offs' = [offs EXCEPT ![c] = x],
             offs[c] # NoOff, x # NoOff, UNCHANGED <<jobs, calls>>
      PROVE  ToCome' + calls <= ToCome + calls'
  <2>1. ToCome' = Len(jobs) + Busy(1) + Busy(2) - Busy(c) + 1
    BY <1>a, <1>g, ToComeFacts
  <2>2. Busy(c) = 1
    BY <1>g DEF Busy
  <2>3. ToCome' = ToCome
    BY <1>a, <1>b, <2>1, <2>2
  <2> QED BY <1>a, <1>g, <2>3
<1>1. ASSUME NEW cmd \in PowerCommands, Call(cmd) PROVE CountInv'
  <2>1. /\ UNCHANGED <<subs, job, offs>> /\ calls' = calls + 1
        /\ Len(jobs') = Len(jobs) + 1
    BY <1>1, <1>a, ToComeFacts DEF Call, subVars
  <2>2. Busy(1)' = Busy(1) /\ Busy(2)' = Busy(2)
    BY <2>1 DEF Busy
  <2>3. ToCome' = ToCome + 1
    BY <1>a, <1>b, <2>1, <2>2 DEF ToCome
  <2>4. ToCome' + calls <= ToCome + calls'
    BY <1>a, <2>1, <2>3
  <2> QED BY <1>a, <1>c, <1>d, <2>1, <2>4, CountKept
<1>2. ASSUME NEW c \in Clients, CallOff(c) PROVE CountInv'
  <2> DEFINE x == [pc |-> "next", left |-> handles]
  <2>1. /\ UNCHANGED <<subs, job, jobs>> /\ calls' = calls + 1
        /\ offs' = [offs EXCEPT ![c] = x] /\ offs[c] = NoOff
    BY <1>2 DEF CallOff, subVars, jobVars
  <2>2. x \in OffType(Ids) /\ x # NoOff
    BY DEF OffType, NoOff, TypeInv, SubTypes
  <2> HIDE DEF x
  <2>3. ToCome' = Len(jobs) + Busy(1) + Busy(2) - Busy(c) + 1
    BY <1>a, <2>1, <2>2, ToComeFacts
  <2>4. Busy(c) = 0
    BY <2>1 DEF Busy
  <2>5. ToCome' = ToCome + 1
    BY <1>a, <1>b, <2>3, <2>4
  <2>6. ToCome' + calls <= ToCome + calls'
    BY <1>a, <2>1, <2>5
  <2> QED BY <1>a, <1>c, <1>d, <2>1, <2>6, CountKept
<1>3. ASSUME NEW c \in Clients, UnsubscribeNext(c) PROVE CountInv'
  <2>1. /\ UNCHANGED <<subs, job, jobs, calls>> /\ offs[c].pc = "next"
        /\ \/ offs' = [offs EXCEPT ![c] = [offs[c] EXCEPT !.pc = "submit"]]
           \/ offs' = [offs EXCEPT ![c] = [offs[c] EXCEPT !.pc = "lock"]]
           \/ /\ offs' = [offs EXCEPT ![c] = [offs[c] EXCEPT !.left = Tail(offs[c].left)]]
              /\ offs[c].left # <<>>
    BY <1>3 DEF UnsubscribeNext, OffAt, OffGoto, jobVars
  <2>2. offs[c] \in OffType(Ids) /\ offs[c].left \in Seq(Ids)
    BY <1>a DEF OffType
  <2>3. offs[c].left # <<>> => Tail(offs[c].left) \in Seq(Ids)
    BY <2>2, ListFacts
  <2>4. /\ [offs[c] EXCEPT !.pc = "submit"] \in OffType(Ids)
        /\ [offs[c] EXCEPT !.pc = "lock"] \in OffType(Ids)
        /\ offs[c].left # <<>> => [offs[c] EXCEPT !.left = Tail(offs[c].left)] \in OffType(Ids)
    BY <2>2, <2>3 DEF OffType
  <2>5. /\ [offs[c] EXCEPT !.pc = "submit"].pc = "submit"
        /\ [offs[c] EXCEPT !.pc = "lock"].pc = "lock"
        /\ [offs[c] EXCEPT !.left = Tail(offs[c].left)].pc = "next"
    BY <2>1, <2>2 DEF OffType
  <2>6. PICK x \in OffType(Ids) : offs' = [offs EXCEPT ![c] = x] /\ x.pc # "none"
    BY <2>1, <2>4, <2>5
  <2>7. x # NoOff /\ offs[c] # NoOff
    BY <2>1, <2>6 DEF NoOff
  <2>8. ToCome' + calls <= ToCome + calls'
    BY <1>g, <2>1, <2>6, <2>7
  <2> QED BY <1>a, <1>c, <1>d, <2>1, <2>8, CountKept
<1>4. ASSUME NEW c \in Clients, Unsubscribe(c) \/ Unsubscribed(c) PROVE CountInv'
  <2> DEFINE i == Head(offs[c].left)
  <2>0. offs[c].left \in Seq(Ids) /\ offs[c].left # <<>> /\ offs[c].pc # "none"
    BY <1>4, <1>a DEF Unsubscribe, Unsubscribed, OffAt, TypeInv, ThreadTypes, OffType
  <2>1. i \in Ids /\ Tail(offs[c].left) \in Seq(Ids)
    BY <2>0, ListFacts
  <2>2. UNCHANGED <<job, jobs, calls>>
    BY <1>4 DEF Unsubscribe, Unsubscribed, jobVars
  <2> HIDE DEF i
  <2>3. subs \in Seq(SubType)
    BY DEF TypeInv, SubTypes
  <2>4. ASSUME NEW y \in SubType, subs' = [subs EXCEPT ![i] = y], y.dev = subs[i].dev,
               y.callbacks \in {0, subs[i].callbacks}
        PROVE  \A k \in Ids' : k \in Ids /\ subs'[k].dev = subs[k].dev
                               /\ subs'[k].callbacks <= subs[k].callbacks
    <3>1. /\ Len(subs') = Len(subs)
          /\ \A k \in 1 .. Len(subs) : subs'[k] = IF k = i THEN y ELSE subs[k]
      BY <2>1, <2>3, <2>4, ListReplace DEF Ids
    <3>2. Ids' = Ids
      BY <3>1 DEF Ids
    <3>3. \A n, p \in Nat : p \in {0, n} => p <= n
      OBVIOUS
    <3>4. \A k \in Ids : subs'[k].dev = subs[k].dev
                        /\ subs'[k].callbacks \in {0, subs[k].callbacks}
      BY <2>4, <3>1 DEF Ids
    <3> QED BY <1>a, <3>2, <3>3, <3>4
  <2>5. subs[i] \in SubType /\ subs[i].callbacks \in Nat
    BY <1>a, <2>1
  <2>6. CASE Unsubscribe(c)
    <3> DEFINE y == [subs[i] EXCEPT !.live = FALSE]
    <3>1. subs' = [subs EXCEPT ![i] = y] /\ offs' = [offs EXCEPT ![c] = [offs[c] EXCEPT !.pc = "flag"]]
      BY <2>6 DEF Unsubscribe, OffGoto, i
    <3>2. y \in SubType /\ y.dev = subs[i].dev /\ y.callbacks = subs[i].callbacks
      BY <2>5 DEF SubType
    <3> HIDE DEF y
    <3>3. \A k \in Ids' : k \in Ids /\ subs'[k].dev = subs[k].dev
                          /\ subs'[k].callbacks <= subs[k].callbacks
      BY <2>4, <2>5, <3>1, <3>2
    <3>4. [offs[c] EXCEPT !.pc = "flag"] \in OffType(Ids) /\ [offs[c] EXCEPT !.pc = "flag"].pc = "flag"
      BY <1>a DEF OffType
    <3>5. [offs[c] EXCEPT !.pc = "flag"] # NoOff /\ offs[c] # NoOff
      BY <2>0, <3>4 DEF NoOff
    <3>6. ToCome' + calls <= ToCome + calls'
      BY <1>g, <2>2, <3>1, <3>4, <3>5
    <3> QED BY <1>a, <1>d, <2>2, <3>3, <3>6, CountKept
  <2>7. CASE Unsubscribed(c)
    <3> DEFINE y == [subs[i] EXCEPT !.subscribed = FALSE, !.callbacks = 0]
               x == [pc |-> "next", left |-> Tail(offs[c].left)]
    <3>1. subs' = [subs EXCEPT ![i] = y] /\ offs' = [offs EXCEPT ![c] = x]
      BY <2>7 DEF Unsubscribed, i
    <3>2. y \in SubType /\ y.dev = subs[i].dev /\ y.callbacks = 0
      BY <2>5 DEF SubType
    <3>3. x \in OffType(Ids) /\ x # NoOff /\ offs[c] # NoOff
      BY <2>0, <2>1 DEF OffType, NoOff
    <3> HIDE DEF x, y
    <3>4. \A k \in Ids' : k \in Ids /\ subs'[k].dev = subs[k].dev
                          /\ subs'[k].callbacks <= subs[k].callbacks
      BY <2>4, <2>5, <3>1, <3>2
    <3>5. ToCome' + calls <= ToCome + calls'
      BY <1>g, <2>2, <3>1, <3>3
    <3> QED BY <1>a, <1>d, <2>2, <3>4, <3>5, CountKept
  <2> QED BY <1>4, <2>6, <2>7
<1>5. ASSUME NEW c \in Clients, SubmitOff(c) PROVE CountInv'
  <2>1. /\ UNCHANGED <<subs, job, calls>> /\ Len(jobs') = Len(jobs) + 1
        /\ offs' = [offs EXCEPT ![c] = NoOff] /\ offs[c].pc = "submit"
    BY <1>5, <1>a, ToComeFacts DEF SubmitOff, subVars, OffAt, PowerCommands
  <2>2. ToCome' = Len(jobs') + Busy(1) + Busy(2) - Busy(c) + 0
    BY <1>a, <2>1, ToComeFacts
  <2>3. Busy(c) = 1
    BY <2>1 DEF Busy, NoOff
  <2>4. ToCome' + calls <= ToCome + calls'
    BY <1>a, <1>b, <2>1, <2>2, <2>3
  <2> QED BY <1>a, <1>c, <1>d, <2>1, <2>4, CountKept
<1>j. job.at \in Nat /\ \A k \in 1 .. Len(Order) : k \in Nat
  <2>1. Len(Order) \in Nat
    BY OrderFacts
  <2> QED BY <1>a, <2>1
<1>6. CASE Begin
  <2>1. jobs \in Seq(JobType) /\ jobs # <<>> /\ jobs' = Tail(jobs)
        /\ UNCHANGED <<subs, offs, calls>>
    BY <1>6 DEF Begin, TypeInv, PowerTypes, subVars
  <2>2. Len(jobs') = Len(jobs) - 1
    BY <2>1, ListFacts
  <2>3. Busy(1)' = Busy(1) /\ Busy(2)' = Busy(2)
    BY <2>1 DEF Busy
  <2>4. 1 + ToCome' = ToCome /\ ToCome' \in Nat
    <3>1. jobs' \in Seq(JobType)
      BY <1>a DEF PowerTypes
    <3>2. Len(jobs') \in Nat
      BY <3>1, ListFacts
    <3>3. ToCome' = Len(jobs') + Busy(1) + Busy(2)
      BY <2>3 DEF ToCome
    <3> QED BY <1>a, <1>b, <2>2, <3>2, <3>3
  <2>5. 1 + ToCome' <= calls
    BY <2>4 DEF CountInv
  <2>z. \A n, p, q, b \in Nat : 1 + p = q =>
          /\ n + q <= b => n + 1 + p <= b /\ n + p <= b
          /\ q <= b => p <= b
    OBVIOUS
  <2>6. ASSUME NEW i \in Ids PROVE subs[i].callbacks + 1 + ToCome' <= calls
    <3>1. subs[i].callbacks + ToCome <= calls /\ subs[i].callbacks \in Nat
      BY <1>a DEF CountInv
    <3> QED BY <1>a, <2>4, <2>z, <3>1
  <2>7. ASSUME NEW i \in Ids PROVE subs[i].callbacks + ToCome' <= calls
    <3>1. subs[i].callbacks + ToCome <= calls /\ subs[i].callbacks \in Nat
      BY <1>a DEF CountInv
    <3> QED BY <1>a, <2>4, <2>z, <3>1
  <2>8. ToCome' <= calls
    BY <1>a, <2>4, <2>z DEF CountInv
  <2>9. Ids' = Ids /\ subs' = subs /\ calls' = calls
    BY <2>1 DEF Ids
  <2> QED BY <2>5, <2>6, <2>7, <2>8, <2>9 DEF CountInv
<1>7. CASE Execute
  <2>1. UNCHANGED <<subs, jobs, offs, calls>> /\ At("work")
    BY <1>7 DEF Execute, subVars
  <2>2. \A d \in Devices : Due(d)
    BY <2>1 DEF Due
  <2> QED BY <1>a, <1>c, <1>f, <2>1, <2>2, CountKept
<1>8. CASE Ended
  <2>1. UNCHANGED <<subs, jobs, offs, calls>> /\ At("work")
    BY <1>8 DEF Ended, subVars
  <2>2. \A d \in Devices : Due(d)
    BY <2>1 DEF Due
  <2> QED BY <1>a, <1>c, <1>f, <2>1, <2>2, CountKept
<1>9. CASE Check \/ Read
  <2>1. /\ UNCHANGED <<subs, jobs, offs, calls>> /\ job'.at = job.at
        /\ \/ job.pc = "check" /\ job'.pc \in {"append", "subscribe"}
           \/ job.pc = "read" /\ job'.pc = "get"
    BY <1>9, <1>a DEF Check, Read, subVars, At, Goto, TypeInv, ThreadTypes, WorkType
  <2>2. \A d \in Devices : Due(d)' => Due(d)
    BY <2>1 DEF Due, At, Loop
  <2> QED BY <1>a, <1>c, <1>f, <2>1, <2>2, CountKept
<1>10. CASE Get
  <2>1. /\ UNCHANGED <<subs, jobs, offs, calls>> /\ job.pc = "get"
        /\ \/ job'.pc = "assign"
           \/ job'.pc = "check" /\ job'.at = job.at + 1
    BY <1>10, <1>a DEF Get, subVars, At, TypeInv, ThreadTypes, WorkType
  <2>2. ASSUME NEW d \in Devices, Due(d)' PROVE Due(d)
    <3>1. /\ job'.pc = "check" /\ job'.at = job.at + 1
          /\ \E k \in 1 .. Len(Order) : d = Order[k] /\ (k > job'.at \/ k = job'.at)
      BY <2>1, <2>2 DEF Due, At, Loop
    <3>2. PICK k \in 1 .. Len(Order) : d = Order[k] /\ (k > job.at + 1 \/ k = job.at + 1)
      BY <3>1
    <3>3. k > job.at
      BY <1>j, <3>2
    <3> QED BY <2>1, <3>2, <3>3 DEF Due, Loop
  <2> QED BY <1>a, <1>c, <1>f, <2>1, <2>2, CountKept
<1>h. ASSUME job.pc \in {"subscribe", "append"}, job'.at = job.at, job'.pc \in {"get", "read"},
             NEW d \in Devices, Due(d)'
      PROVE  Due(d) /\ d # Device
  <2>1. PICK k \in 1 .. Len(Order) : d = Order[k] /\ k > job.at
    BY <1>h DEF Due, At, Loop
  <2>2. k # job.at
    BY <1>j, <2>1
  <2> QED BY <1>a, <1>h, <2>1, <2>2, OrderFacts DEF Due, Device, Loop
<1>i. job.pc \in {"subscribe", "append"} => Due(Device)
  BY <1>a DEF Due, Device, Loop
<1>11. CASE Subscribe
  <2> DEFINE x == [dev |-> Device, live |-> TRUE, subscribed |-> TRUE, callbacks |-> 1]
             new == Len(subs) + 1
  <2>1. /\ UNCHANGED <<jobs, offs, calls>> /\ job.pc = "subscribe"
        /\ job'.at = job.at /\ job'.pc = "get"
        /\ subs' = Append(subs, x)
    BY <1>11 DEF Subscribe, Subscribes, At, Goto, TypeInv, ThreadTypes, WorkType
  <2>2. x \in SubType /\ x.dev = Device /\ x.callbacks = 1
    BY <1>a DEF SubType
  <2> HIDE DEF x
  <2>3. subs \in Seq(SubType)
    BY DEF TypeInv, SubTypes
  <2>4. Len(subs') = Len(subs) + 1 /\ subs'[Len(subs) + 1] = x
        /\ \A i \in Ids : subs'[i] = subs[i]
    BY <2>1, <2>2, <2>3 DEF Ids
  <2>5. \A i \in Ids' : i \in Ids \/ i = new
    BY <1>a, <2>4 DEF Ids
  <2>6. ToCome' = ToCome /\ calls' = calls
    BY <1>a, <2>1, ToComeFacts
  <2>7. 1 + ToCome <= calls
    BY <1>a, <1>i, <2>1 DEF CountInv
  <2>8. \A i \in Ids' : subs'[i].callbacks + ToCome <= calls
    BY <2>2, <2>4, <2>5, <2>7 DEF CountInv
  <2>9. \A d \in Devices : Due(d)' => Due(d) /\ d # Device
    BY <1>h, <2>1
  <2>10. ASSUME NEW d \in Devices, Due(d)', NEW i \in Ids', subs'[i].dev = d
         PROVE  subs'[i].callbacks + 1 + ToCome <= calls
    <3>1. i \in Ids /\ subs'[i] = subs[i]
      BY <2>2, <2>4, <2>5, <2>9, <2>10
    <3> QED BY <2>9, <2>10, <3>1 DEF CountInv
  <2>11. ToCome <= calls
    BY DEF CountInv
  <2> QED BY <2>6, <2>7, <2>8, <2>10, <2>11 DEF CountInv
<1>12. CASE AddCallback
  <2> DEFINE n == stored[Device]
             x == [subs[n] EXCEPT !.callbacks = subs[n].callbacks + 1]
  <2>1. /\ UNCHANGED <<jobs, offs, calls>> /\ job.pc = "append"
        /\ job'.at = job.at /\ job'.pc = "read"
        /\ subs' = [subs EXCEPT ![n] = x] /\ n # 0
    BY <1>12 DEF AddCallback, At, Goto, TypeInv, ThreadTypes, WorkType
  <2>2. n \in Ids /\ subs[n].dev = Device
    BY <1>a, <2>1 DEF StoredInv, TypeInv, SubTypes
  <2>3. subs \in Seq(SubType) /\ subs[n] \in SubType
    BY <1>a, <2>2 DEF TypeInv, SubTypes
  <2>4. x \in SubType /\ x.dev = Device /\ x.callbacks = subs[n].callbacks + 1
    BY <2>2, <2>3, OneMore
  <2> HIDE DEF x, n
  <2>5. /\ Len(subs') = Len(subs)
        /\ \A i \in 1 .. Len(subs) : subs'[i] = IF i = n THEN x ELSE subs[i]
    BY <2>1, <2>2, <2>3, <2>4, ListReplace DEF Ids
  <2>6. Ids' = Ids /\ \A i \in Ids : subs'[i] = IF i = n THEN x ELSE subs[i]
    BY <2>5 DEF Ids
  <2>7. ToCome' = ToCome /\ calls' = calls
    BY <1>a, <2>1, ToComeFacts
  <2>8. subs[n].callbacks + 1 + ToCome <= calls
    BY <1>a, <1>i, <2>1, <2>2 DEF CountInv
  <2>9. \A i \in Ids : subs'[i].callbacks + ToCome <= calls
    BY <2>4, <2>6, <2>8 DEF CountInv
  <2>10. \A d \in Devices : Due(d)' => Due(d) /\ d # Device
    BY <1>h, <2>1
  <2>11. ASSUME NEW d \in Devices, Due(d)', NEW i \in Ids, subs'[i].dev = d
         PROVE  subs'[i].callbacks + 1 + ToCome <= calls
    <3>1. i # n /\ subs'[i] = subs[i]
      BY <2>4, <2>6, <2>10, <2>11
    <3> QED BY <2>10, <2>11, <3>1 DEF CountInv
  <2>12. \A d \in Devices : Due(d)' => 1 + ToCome <= calls
    BY <2>10 DEF CountInv
  <2>13. ToCome <= calls
    BY DEF CountInv
  <2> QED BY <2>6, <2>7, <2>9, <2>11, <2>12, <2>13 DEF CountInv
<1>13. CASE Fails \/ Refused \/ Removed \/ ShowPower
  <2>1. UNCHANGED <<subs, jobs, offs, calls>> /\ job' = NoJob
    BY <1>13 DEF Fails, Refused, Removed, Raise, ShowPower, subVars
  <2> QED BY <1>a, <1>c, <1>e, <1>f, <2>1, CountKept
<1>14. CASE Assign
  <2>1. UNCHANGED <<subs, jobs, offs, calls>> /\ job'.pc = "power"
    BY <1>14 DEF Assign, Goto, TypeInv, ThreadTypes, WorkType
  <2>2. \A d \in Devices : ~Due(d)'
    BY <2>1 DEF Due, At, Loop
  <2> QED BY <1>a, <1>c, <1>f, <2>1, <2>2, CountKept
<1>15. ASSUME ExecuteLate \/ (\E d \in Devices : Change(d)) \/ (\E e \in events : Handle(e))
              \/ UNCHANGED vars
       PROVE  CountInv'
  <2>1. UNCHANGED <<subs, job, jobs, offs, calls>>
    BY <1>15 DEF ExecuteLate, Change, Handle, vars, subVars, jobVars
  <2> QED BY <1>a, <1>c, <1>d, <1>f, <2>1, CountKept
<1>16. ASSUME NEW t \in Threads, Finalise(t) PROVE CountInv'
  <2>1. PICK i \in dropped[t] : subs' = [subs EXCEPT ![i] =
          [subs[i] EXCEPT !.live = FALSE, !.subscribed = FALSE, !.callbacks = 0]]
    BY <1>16 DEF Finalise
  <2> DEFINE y == [subs[i] EXCEPT !.live = FALSE, !.subscribed = FALSE, !.callbacks = 0]
  <2>2. i \in Ids /\ subs \in Seq(SubType)
    BY DEF TypeInv, DelTypes, SubTypes
  <2>3. y \in SubType /\ y.dev = subs[i].dev /\ y.callbacks = 0
    BY <1>a, <2>2 DEF SubType
  <2>4. UNCHANGED <<job, jobs, offs, calls>>
    BY <1>16 DEF Finalise, jobVars
  <2> HIDE DEF y
  <2>5. /\ Len(subs') = Len(subs)
        /\ \A k \in 1 .. Len(subs) : subs'[k] = IF k = i THEN y ELSE subs[k]
    BY <2>1, <2>2, <2>3, ListReplace DEF Ids, y
  <2>6. Ids' = Ids
    BY <2>5 DEF Ids
  <2>7. \A n \in Nat : 0 <= n /\ n <= n
    OBVIOUS
  <2>8. \A k \in Ids' : k \in Ids /\ subs'[k].dev = subs[k].dev
                        /\ subs'[k].callbacks <= subs[k].callbacks
    BY <1>a, <2>3, <2>5, <2>6, <2>7 DEF Ids
  <2> QED BY <1>a, <1>d, <1>f, <2>4, <2>8, CountKept
<1> QED
  BY <1>1, <1>2, <1>3, <1>4, <1>5, <1>6, <1>7, <1>8, <1>9, <1>10, <1>11, <1>12, <1>13, <1>14, <1>15,
     <1>16
  DEF Next, Worker, OffStep, Threads

-----------------------------------------------------------------------------
(* What the proxies have stored.                                           *)

LEMMA StoredInit == Init => StoredInv
BY DEF Init, StoredInv, NoOff

LEMMA StoredStep == TypeInv /\ StoredInv /\ [Next]_vars => StoredInv'
<1> SUFFICES ASSUME TypeInv, StoredInv, [Next]_vars PROVE StoredInv'
  OBVIOUS
<1>a. /\ \A i \in Ids : subs[i] \in SubType
      /\ Len(subs) \in Nat /\ 0 \notin Ids /\ Len(subs) + 1 \notin Ids
      /\ Device \in Devices
      /\ stored \in [Devices -> Ids \cup {0}]
      /\ subs \in Seq(SubType)
      /\ \A c \in Clients : offs[c].left \in Seq(Ids)
      /\ DOMAIN offs = Clients
  BY CountFacts DEF TypeInv, SubTypes, ThreadTypes, OffType, Ids
<1>b. \A c \in Clients : offs[c].pc \in {"lock", "flag"} => Head(offs[c].left) \in Ids
  <2>1. \A c \in Clients : offs[c].pc \in {"lock", "flag"} => offs[c].left # <<>>
    BY DEF TypeInv, ThreadTypes
  <2> QED BY <1>a, <2>1, ListFacts
<1>c. ASSUME UNCHANGED <<subs, stored>>,
             \A c \in Clients : offs'[c].pc = "flag" => offs'[c] = offs[c]
      PROVE  StoredInv'
  BY <1>c DEF StoredInv
<1>1. ASSUME NEW c \in Clients, UnsubscribeNext(c) PROVE StoredInv'
  <2>1. /\ UNCHANGED <<subs, stored>> /\ offs[c].pc = "next"
        /\ \/ offs' = [offs EXCEPT ![c].pc = "submit"]
           \/ offs' = [offs EXCEPT ![c].pc = "lock"]
           \/ offs' = [offs EXCEPT ![c].left = Tail(@)]
    BY <1>1 DEF UnsubscribeNext, OffAt, OffGoto
  <2>2. offs[c] \in OffType(Ids)
    BY DEF TypeInv, ThreadTypes
  <2>3. offs'[c].pc # "flag" /\ \A b \in Clients \ {c} : offs'[b] = offs[b]
    BY <1>a, <2>1, <2>2 DEF OffType
  <2> QED BY <1>c, <2>1, <2>3
<1>2. ASSUME NEW c \in Clients, Unsubscribe(c) PROVE StoredInv'
  <2> DEFINE i == Head(offs[c].left)
             x == [subs[i] EXCEPT !.live = FALSE]
  <2>1. /\ i \in Ids /\ offs[c] \in OffType(Ids)
        /\ subs' = [subs EXCEPT ![i] = x] /\ stored' = [stored EXCEPT ![subs[i].dev] = 0]
        /\ offs' = [offs EXCEPT ![c] = [offs[c] EXCEPT !.pc = "flag"]]
    BY <1>2, <1>b DEF Unsubscribe, Delete, OffAt, OffGoto, TypeInv, ThreadTypes
  <2>2. subs[i] \in SubType /\ x \in SubType /\ ~x.live
    BY <1>a, <2>1 DEF SubType
  <2> HIDE DEF x
  <2>3. \A k \in Ids : subs'[k] = IF k = i THEN x ELSE subs[k]
    BY <1>a, <2>1, <2>2, ListReplace DEF Ids
  <2>4. ASSUME NEW d \in Devices, stored'[d] # 0
        PROVE  subs'[stored'[d]].dev = d /\ subs'[stored'[d]].live /\ subs'[stored'[d]].callbacks > 0
    <3>1. d # subs[i].dev /\ stored'[d] = stored[d]
      BY <1>a, <2>1, <2>2, <2>4 DEF SubType
    <3>2. stored[d] \in Ids /\ subs[stored[d]].dev = d
      BY <1>a, <2>4, <3>1 DEF StoredInv
    <3>3. subs'[stored[d]] = subs[stored[d]]
      BY <2>3, <3>1, <3>2
    <3> QED BY <2>4, <3>1, <3>3 DEF StoredInv
  <2>5. ASSUME NEW b \in Clients, offs'[b].pc = "flag"
        PROVE  ~subs'[Head(offs'[b].left)].live
    <3>1. CASE b = c
      <4>1. offs'[c].left = offs[c].left
        BY <1>a, <2>1 DEF OffType
      <4> QED BY <2>1, <2>2, <2>3, <3>1, <4>1
    <3>2. CASE b # c
      <4>1. offs'[b] = offs[b]
        BY <1>a, <2>1, <3>2
      <4>2. Head(offs[b].left) \in Ids /\ ~subs[Head(offs[b].left)].live
        BY <1>b, <2>5, <4>1 DEF StoredInv
      <4> QED BY <2>2, <2>3, <4>1, <4>2
    <3> QED BY <3>1, <3>2
  <2> QED BY <2>4, <2>5 DEF StoredInv
<1>3. ASSUME NEW c \in Clients, Unsubscribed(c) PROVE StoredInv'
  <2> DEFINE i == Head(offs[c].left)
             x == [subs[i] EXCEPT !.subscribed = FALSE, !.callbacks = 0]
  <2>1. /\ i \in Ids /\ ~subs[i].live
        /\ subs' = [subs EXCEPT ![i] = x] /\ stored' = stored
        /\ offs' = [offs EXCEPT ![c] = [pc |-> "next", left |-> Tail(offs[c].left)]]
    BY <1>3, <1>b DEF Unsubscribed, OffAt, StoredInv
  <2>2. x \in SubType /\ ~x.live
    <3>1. subs[i] \in SubType
      BY <1>a, <2>1
    <3> QED BY <2>1, <3>1 DEF SubType
  <2> HIDE DEF x
  <2>3. \A k \in Ids : subs'[k] = IF k = i THEN x ELSE subs[k]
    BY <1>a, <2>1, <2>2, ListReplace DEF Ids
  <2>4. ASSUME NEW d \in Devices, stored'[d] # 0
        PROVE  subs'[stored'[d]].dev = d /\ subs'[stored'[d]].live /\ subs'[stored'[d]].callbacks > 0
    <3>1. stored[d] \in Ids /\ stored[d] # i
      BY <1>a, <2>1, <2>4 DEF StoredInv
    <3>2. subs'[stored[d]] = subs[stored[d]]
      BY <2>3, <3>1
    <3> QED BY <2>1, <2>4, <3>2 DEF StoredInv
  <2>5. ASSUME NEW b \in Clients, offs'[b].pc = "flag"
        PROVE  ~subs'[Head(offs'[b].left)].live
    <3>1. offs'[b] = offs[b]
      BY <1>a, <2>1, <2>5
    <3>2. Head(offs[b].left) \in Ids /\ ~subs[Head(offs[b].left)].live
      BY <1>b, <2>5, <3>1 DEF StoredInv
    <3> QED BY <2>2, <2>3, <3>1, <3>2
  <2> QED BY <2>4, <2>5 DEF StoredInv
<1>4. CASE Subscribe
  <2> DEFINE x == [dev |-> Device, live |-> TRUE, subscribed |-> TRUE, callbacks |-> 1]
  <2>1. /\ subs' = Append(subs, x) /\ stored' = [stored EXCEPT ![Device] = Len(subs) + 1]
        /\ offs' = offs
    BY <1>4 DEF Subscribe, Subscribes
  <2>2. x \in SubType /\ x.dev = Device /\ x.live /\ x.callbacks > 0
    BY <1>a DEF SubType
  <2> HIDE DEF x
  <2>3. subs'[Len(subs) + 1] = x /\ \A i \in Ids : subs'[i] = subs[i]
    BY <1>a, <2>1, <2>2 DEF Ids
  <2>4. ASSUME NEW d \in Devices, stored'[d] # 0
        PROVE  subs'[stored'[d]].dev = d /\ subs'[stored'[d]].live /\ subs'[stored'[d]].callbacks > 0
    <3>1. CASE d = Device
      BY <1>a, <2>1, <2>2, <2>3, <3>1
    <3>2. CASE d # Device
      <4>1. stored'[d] = stored[d] /\ stored[d] \in Ids
        BY <1>a, <2>1, <2>4, <3>2
      <4> QED BY <2>3, <2>4, <4>1 DEF StoredInv
    <3> QED BY <3>1, <3>2
  <2> QED BY <1>b, <2>1, <2>3, <2>4 DEF StoredInv
<1>5. CASE AddCallback
  <2> DEFINE n == stored[Device]
             x == [subs[n] EXCEPT !.callbacks = subs[n].callbacks + 1]
  <2>1. /\ subs' = [subs EXCEPT ![n] = x] /\ stored' = stored /\ offs' = offs
        /\ n \in Ids
    BY <1>5, <1>a DEF AddCallback
  <2>2. /\ x \in SubType /\ x.dev = subs[n].dev /\ x.live = subs[n].live
        /\ x.callbacks > 0
    <3>1. subs[n] \in SubType
      BY <1>a, <2>1
    <3> QED BY <3>1 DEF SubType
  <2> HIDE DEF x, n
  <2>3. \A k \in Ids : subs'[k] = IF k = n THEN x ELSE subs[k]
    BY <1>a, <2>1, <2>2, ListReplace DEF Ids
  <2>4. \A k \in Ids : /\ subs'[k].dev = subs[k].dev /\ subs'[k].live = subs[k].live
                       /\ subs[k].callbacks > 0 => subs'[k].callbacks > 0
    BY <2>2, <2>3
  <2>5. \A d \in Devices : stored[d] # 0 => stored[d] \in Ids
    BY <1>a
  <2> QED BY <1>b, <2>1, <2>4, <2>5 DEF StoredInv
<1>6. ASSUME NEW c \in Clients, CallOff(c) \/ SubmitOff(c) PROVE StoredInv'
  <2>1. /\ UNCHANGED <<subs, stored>>
        /\ \/ offs' = [offs EXCEPT ![c] = [pc |-> "next", left |-> handles]]
           \/ offs' = [offs EXCEPT ![c] = NoOff]
    BY <1>6 DEF CallOff, SubmitOff, subVars
  <2>2. offs'[c].pc # "flag" /\ \A b \in Clients \ {c} : offs'[b] = offs[b]
    BY <1>a, <2>1 DEF NoOff
  <2> QED BY <1>c, <2>1, <2>2
<1>7. ASSUME \/ \E cmd \in PowerCommands : Call(cmd)
             \/ Begin \/ Execute \/ Ended \/ Check \/ Read \/ Get \/ Refused \/ Removed
             \/ Assign \/ ShowPower \/ Fails \/ ExecuteLate
             \/ \E d \in Devices : Change(d)
             \/ \E e \in events : Handle(e)
             \/ UNCHANGED vars
      PROVE  UNCHANGED <<subs, stored, offs>>
  BY <1>7 DEF Call, Begin, Execute, Ended, Check, Read, Get, Refused, Removed, Raise, Assign,
              ShowPower, Fails, ExecuteLate, Change, Handle, vars, subVars
<1>8. ASSUME NEW t \in Threads, Finalise(t) PROVE StoredInv'
  <2>1. PICK i \in dropped[t] :
          /\ subs' = [subs EXCEPT ![i] = [subs[i] EXCEPT !.live = FALSE, !.subscribed = FALSE,
                                                         !.callbacks = 0]]
          /\ stored' = [stored EXCEPT ![subs[i].dev] = 0] /\ offs' = offs
    BY <1>8 DEF Finalise, Delete
  <2> DEFINE x == [subs[i] EXCEPT !.live = FALSE, !.subscribed = FALSE, !.callbacks = 0]
  <2>2. i \in Ids /\ subs[i] \in SubType
    BY <1>a DEF TypeInv, DelTypes
  <2>3. x \in SubType /\ ~x.live
    BY <2>2 DEF SubType
  <2> HIDE DEF x
  <2>4. \A k \in Ids : subs'[k] = IF k = i THEN x ELSE subs[k]
    BY <1>a, <2>1, <2>2, <2>3, ListReplace DEF Ids, x
  <2>5. ASSUME NEW d \in Devices, stored'[d] # 0
        PROVE  subs'[stored'[d]].dev = d /\ subs'[stored'[d]].live /\ subs'[stored'[d]].callbacks > 0
    <3>1. d # subs[i].dev /\ stored'[d] = stored[d]
      BY <1>a, <2>1, <2>2, <2>5 DEF SubType
    <3>2. stored[d] \in Ids /\ subs[stored[d]].dev = d
      BY <1>a, <2>5, <3>1 DEF StoredInv
    <3>3. subs'[stored[d]] = subs[stored[d]]
      BY <2>4, <3>1, <3>2
    <3> QED BY <2>5, <3>1, <3>3 DEF StoredInv
  <2>6. ASSUME NEW b \in Clients, offs'[b].pc = "flag"
        PROVE  ~subs'[Head(offs'[b].left)].live
    <3>1. Head(offs[b].left) \in Ids /\ ~subs[Head(offs[b].left)].live
      BY <1>b, <2>1, <2>6 DEF StoredInv
    <3> QED BY <2>1, <2>3, <2>4, <3>1
  <2> QED BY <2>5, <2>6 DEF StoredInv
<1> QED
  BY <1>c, <1>1, <1>2, <1>3, <1>4, <1>5, <1>6, <1>7, <1>8 DEF Next, Worker, OffStep, Threads

-----------------------------------------------------------------------------
(* What BEAM that is on has subscribed to.                                 *)

LEMMA HeardInit == Init => HeardInv
<1> SUFFICES ASSUME Init PROVE HeardInv
  OBVIOUS
<1>1. ~OffPending
  BY DEF Init, OffPending
<1> QED
  BY <1>1 DEF Init, HeardInv, At, NoJob, Loop

(* An Off that is on its way stays so until its job begins.                *)
LEMMA OffKept ==
  ASSUME TypeInv, [Next]_vars
  PROVE  /\ OffPending /\ ~Begin => OffPending'
         /\ OffPending' => OffPending \/ offCalled'
<1>a. jobs \in Seq(JobType) /\ DOMAIN jobs = 1 .. Len(jobs) /\ Len(jobs) \in Nat
      /\ offs \in [Clients -> OffType(Ids)]
  BY ListFacts DEF TypeInv, PowerTypes, ThreadTypes
<1>b. ASSUME NEW cmd \in PowerCommands, Submit(cmd)
      PROVE  /\ DOMAIN jobs' = 1 .. Len(jobs) + 1
             /\ jobs'[Len(jobs) + 1].cmd = cmd
             /\ \A i \in DOMAIN jobs : jobs'[i] = jobs[i]
  <2> DEFINE x == [cmd |-> cmd, devices |-> Targets(cmd)]
  <2>1. jobs' = Append(jobs, x) /\ x.cmd = cmd
    BY <1>b DEF Submit
  <2> HIDE DEF x
  <2>2. DOMAIN jobs' = 1 .. Len(jobs) + 1 /\ jobs'[Len(jobs) + 1] = x
        /\ \A i \in 1 .. Len(jobs) : jobs'[i] = jobs[i]
    BY <1>a, <2>1
  <2> QED BY <1>a, <2>1, <2>2
<1>c. /\ \A i \in DOMAIN jobs : i \in 1 .. Len(jobs) + 1
      /\ Len(jobs) + 1 \in 1 .. Len(jobs) + 1
      /\ \A i \in 1 .. Len(jobs) + 1 : i \in DOMAIN jobs \/ i = Len(jobs) + 1
  BY <1>a
<1>1. ASSUME NEW cmd \in PowerCommands \ {"Off"}, Call(cmd)
      PROVE  (OffPending => OffPending') /\ (OffPending' => OffPending)
  <2>1. Submit(cmd) /\ offs' = offs
    BY <1>1 DEF Call
  <2>2. /\ DOMAIN jobs' = 1 .. Len(jobs) + 1
        /\ jobs'[Len(jobs) + 1].cmd = cmd
        /\ \A i \in DOMAIN jobs : jobs'[i] = jobs[i]
    BY <1>b, <2>1
  <2> QED BY <1>c, <2>1, <2>2 DEF OffPending
<1>2. ASSUME NEW c \in Clients, CallOff(c) PROVE OffPending' /\ offCalled'
  <2>1. offs'[c] # NoOff /\ offCalled'
    BY <1>2, <1>a DEF CallOff, NoOff
  <2> QED BY <2>1 DEF OffPending
<1>3. ASSUME NEW c \in Clients, UnsubscribeNext(c) \/ Unsubscribe(c) \/ Unsubscribed(c)
      PROVE  OffPending /\ OffPending'
  <2>1. offs[c] \in OffType(Ids)
    BY <1>a
  <2>2. offs[c].pc # "none"
    BY <1>3 DEF UnsubscribeNext, Unsubscribe, Unsubscribed, OffAt
  <2>3. offs'[c].pc # "none"
    <3>1. CASE UnsubscribeNext(c)
      BY <1>a, <2>1, <2>2, <3>1 DEF UnsubscribeNext, OffGoto, OffType
    <3>2. CASE Unsubscribe(c) \/ Unsubscribed(c)
      BY <1>a, <2>1, <3>2 DEF Unsubscribe, Unsubscribed, OffGoto, OffType
    <3> QED BY <1>3, <3>1, <3>2
  <2> QED BY <2>2, <2>3 DEF OffPending, NoOff
<1>4. ASSUME NEW c \in Clients, SubmitOff(c) PROVE OffPending /\ OffPending'
  <2>1. offs[c].pc = "submit" /\ Submit("Off")
    BY <1>4 DEF SubmitOff, OffAt
  <2>2. "Off" \in PowerCommands
    BY DEF PowerCommands
  <2>3. DOMAIN jobs' = 1 .. Len(jobs) + 1 /\ jobs'[Len(jobs) + 1].cmd = "Off"
    BY <1>b, <2>1, <2>2
  <2> QED BY <1>c, <2>1, <2>3 DEF OffPending, NoOff
<1>5. ASSUME Begin, OffPending' PROVE OffPending
  <2>1. jobs # <<>> /\ jobs' = Tail(jobs) /\ offs' = offs
    BY <1>5 DEF Begin
  <2>2. /\ DOMAIN jobs' = 1 .. Len(jobs) - 1
        /\ \A i \in 1 .. Len(jobs) - 1 : i + 1 \in 1 .. Len(jobs) /\ jobs'[i] = jobs[i + 1]
    <3>1. Tail(jobs) \in Seq(JobType) /\ Len(Tail(jobs)) = Len(jobs) - 1
          /\ \A i \in 1 .. Len(jobs) - 1 : Tail(jobs)[i] = jobs[i + 1]
      BY <1>a, <2>1, ListFacts
    <3>2. \A i \in 1 .. Len(jobs) - 1 : i + 1 \in 1 .. Len(jobs)
      BY <1>a
    <3> QED BY <2>1, <3>1, <3>2, ListFacts
  <2> QED BY <1>5, <1>a, <2>1, <2>2 DEF OffPending
<1>6. ASSUME \/ Execute \/ Ended \/ Check \/ Subscribe \/ AddCallback \/ Read \/ Get \/ Refused
             \/ Removed \/ Assign \/ ShowPower \/ Fails \/ ExecuteLate
             \/ \E d \in Devices : Change(d)
             \/ \E e \in events : Handle(e)
             \/ \E t \in Threads : Finalise(t)
             \/ UNCHANGED vars
      PROVE  UNCHANGED <<jobs, offs>>
  BY <1>6 DEF Finalise, Execute, Ended, Check, Subscribe, AddCallback, Read, Get, Refused, Removed, Raise,
              Assign, ShowPower, Fails, ExecuteLate, Change, Handle, vars, jobVars
<1>7. UNCHANGED <<jobs, offs>> => OffPending' = OffPending
  BY DEF OffPending
<1> QED
  BY <1>1, <1>2, <1>3, <1>4, <1>5, <1>6, <1>7 DEF Next, Worker, OffStep, Threads

(* Nothing that is stored is put away but by an Off on its way, which      *)
(* stays on its way, or by a subscription that unsubscribes itself.        *)
LEMMA StoredKept ==
  ASSUME TypeInv, [Next]_vars
  PROVE  \/ \A d \in Devices : stored[d] # 0 => stored'[d] # 0
         \/ OffPending /\ OffPending' /\ UNCHANGED <<power, job, offCalled>>
         \/ finalised'
<1>a. /\ stored \in [Devices -> Ids \cup {0}] /\ Len(subs) + 1 # 0
      /\ offs \in [Clients -> OffType(Ids)] /\ Device \in Devices
  BY CountFacts DEF TypeInv, SubTypes, ThreadTypes
<1>1. ASSUME NEW c \in Clients, Unsubscribe(c)
      PROVE  OffPending /\ OffPending' /\ UNCHANGED <<power, job, offCalled>>
  <2>1. offs[c].pc = "lock" /\ offs'[c].pc = "flag" /\ UNCHANGED <<power, job, offCalled>>
    BY <1>1, <1>a DEF Unsubscribe, OffAt, OffGoto, OffType, jobVars
  <2> QED BY <2>1 DEF OffPending, NoOff
<1>2. CASE Subscribe
  BY <1>2, <1>a DEF Subscribe, Subscribes
<1>3. ASSUME \/ \E cmd \in PowerCommands : Call(cmd)
             \/ \E c \in Clients : CallOff(c) \/ SubmitOff(c) \/ UnsubscribeNext(c) \/ Unsubscribed(c)
             \/ Begin \/ Execute \/ Ended \/ Check \/ AddCallback \/ Read \/ Get \/ Refused \/ Removed
             \/ Assign \/ ShowPower \/ Fails \/ ExecuteLate
             \/ \E d \in Devices : Change(d)
             \/ \E e \in events : Handle(e)
             \/ UNCHANGED vars
      PROVE  UNCHANGED stored
  BY <1>3 DEF Call, CallOff, SubmitOff, UnsubscribeNext, Unsubscribed, Begin, Execute, Ended, Check,
              AddCallback, Read, Get, Refused, Removed, Raise, Assign, ShowPower, Fails, ExecuteLate,
              Change, Handle, vars, subVars
<1>4. ASSUME NEW t \in Threads, Finalise(t) PROVE finalised'
  BY <1>4 DEF Finalise
<1> QED
  BY <1>1, <1>2, <1>3, <1>4 DEF Next, Worker, OffStep, Threads

LEMMA FinalisedStays == TypeInv /\ [Next]_vars /\ finalised => finalised'
<1> SUFFICES ASSUME [Next]_vars, finalised PROVE finalised'
  OBVIOUS
<1>1. \/ UNCHANGED delVars \/ UNCHANGED finalised
      \/ \E c \in Clients : Unsubscribe(c)
      \/ \E t \in Threads : Finalise(t)
  BY DEF Next, Worker, OffStep, Threads, Call, CallOff, SubmitOff, UnsubscribeNext, Unsubscribed,
         Begin, Execute, Ended, Check, Subscribe, AddCallback, Read, Get, Refused, Removed, Raise,
         Assign, ShowPower, Fails, ExecuteLate, Change, Handle, vars
<1> QED
  BY <1>1 DEF delVars, Unsubscribe, Finalise

LEMMA HeardStep == TypeInv /\ HeardInv /\ [Next]_vars => HeardInv'
<1> SUFFICES ASSUME TypeInv, HeardInv, [Next]_vars PROVE HeardInv'
  OBVIOUS
<1> DEFINE All == \A d \in Devices : stored[d] # 0
<1>a. ASSUME Quiet', ~Begin
      PROVE  Quiet /\ \A d \in Devices : stored[d] # 0 => stored'[d] # 0
  BY <1>a, OffKept, StoredKept, FinalisedStays DEF Quiet
<1>b. /\ job \in WorkType(Ids) /\ Device = Order[job.at] /\ Device \in Devices
      /\ stored \in [Devices -> Ids \cup {0}] /\ Len(subs) + 1 # 0
      /\ \A k \in 1 .. Len(Order) : Order[k] \in Devices
      /\ \A d \in Devices : \E k \in 1 .. Len(Order) : d = Order[k]
      /\ job.at \in 1 .. Len(Order) /\ job.at \in Nat /\ Len(Order) \in Nat
  <2>1. job.at \in 1 .. Len(Order) /\ Len(Order) \in Nat
    BY CountFacts, OrderFacts
  <2>2. job.at \in Nat
    BY <2>1
  <2>3. job \in WorkType(Ids) /\ stored \in [Devices -> Ids \cup {0}]
    BY DEF TypeInv, ThreadTypes, SubTypes
  <2>4. Device = Order[job.at] /\ Device \in Devices
    BY CountFacts DEF Device
  <2>5. Len(subs) + 1 # 0
    <3>1. Len(subs) \in Nat
      BY CountFacts
    <3> QED BY <3>1
  <2>6. /\ \A k \in 1 .. Len(Order) : Order[k] \in Devices
        /\ \A d \in Devices : \E k \in 1 .. Len(Order) : d = Order[k]
    BY OrderFacts
  <2> QED BY <2>1, <2>2, <2>3, <2>4, <2>5, <2>6
<1>c. \A j \in 1 .. job.at : j \in 1 .. Len(Order) /\ (j = job.at \/ j \in 1 .. job.at - 1)
  BY <1>b
<1>d. To["On"] = "ON" /\ \A cmd \in PowerCommands : To[cmd] = "ON" => cmd = "On"
  BY DEF To, PowerCommands
<1>1. ASSUME ~offCalled' PROVE ~OffPending'
  <2>1. CASE ShowPower /\ job.cmd = "On"
    <3>1. offCalled' = OffPending /\ UNCHANGED <<jobs, offs>>
      BY <2>1 DEF ShowPower
    <3>2. OffPending' = OffPending
      BY <3>1 DEF OffPending
    <3> QED BY <1>1, <3>1, <3>2
  <2>2. CASE ~(ShowPower /\ job.cmd = "On")
    <3>1. offCalled' = offCalled \/ offCalled' = TRUE
      BY <2>2 DEF Next, Worker, OffStep, Call, CallOff, SubmitOff, UnsubscribeNext, Unsubscribe,
                  Unsubscribed, Begin, Execute, Ended, Check, Subscribe, AddCallback, Read, Get,
                  Refused, Removed, Raise, Assign, ShowPower, Fails, ExecuteLate, Change, Handle, Finalise,
                  Threads, vars
    <3>2. ~offCalled
      BY <1>1, <3>1
    <3>3. ~OffPending
      BY <3>2 DEF HeardInv
    <3> QED BY <1>1, <3>3, OffKept
  <2> QED BY <2>1, <2>2
<1>2. ASSUME power' = "ON", ~offCalled', ~finalised' PROVE All'
  <2>1. ~OffPending' /\ ~finalised
    BY <1>1, <1>2, FinalisedStays
  <2>2. CASE ShowPower
    <3>1. /\ power' = To[job.cmd] /\ At("power") /\ job.cmd \in PowerCommands
          /\ UNCHANGED <<jobs, offs, stored>>
      BY <2>2, <1>b DEF ShowPower, subVars, WorkType
    <3>2. job.cmd = "On" /\ ~OffPending
      BY <1>2, <1>d, <2>1, <3>1 DEF OffPending
    <3>3. All
      BY <2>1, <3>1, <3>2 DEF HeardInv, Quiet
    <3> QED BY <3>1, <3>3
  <2>3. CASE ~ShowPower
    <3>1. power' = power /\ (offCalled' = offCalled \/ offCalled' = TRUE)
      BY <2>3 DEF Next, Worker, OffStep, Call, CallOff, SubmitOff, UnsubscribeNext, Unsubscribe,
                  Unsubscribed, Begin, Execute, Ended, Check, Subscribe, AddCallback, Read, Get,
                  Refused, Removed, Raise, Assign, Fails, ExecuteLate, Change, Handle, Finalise,
                  Threads, vars, jobVars
    <3>2. All
      BY <1>2, <2>1, <3>1 DEF HeardInv
    <3>3. stored' = stored \/ \A d \in Devices : stored[d] # 0 => stored'[d] # 0
      BY <1>2, <2>1, StoredKept
    <3> QED BY <3>2, <3>3
  <2> QED BY <2>2, <2>3
<1> DEFINE Listens ==
      /\ At("work") => job.at = 1
      /\ job.pc \in Loop \cup {"assign"} => job.cmd = "On"
      /\ job.pc \in Loop /\ Quiet => \A k \in 1 .. job.at - 1 : Subscribed(k)
      /\ job.pc \in {"read", "get"} /\ Quiet => Subscribed(job.at)
      /\ At("assign") \/ (At("power") /\ job.cmd = "On") => ~Quiet \/ All
<1>3. Listens'
  <2>a. Listens
    BY DEF HeardInv
  <2>b. ASSUME Quiet', ~Begin
        PROVE  /\ job.pc \in Loop => \A k \in 1 .. job.at - 1 : stored'[Order[k]] # 0
               /\ job.pc \in {"read", "get"} => stored'[Order[job.at]] # 0
               /\ At("assign") \/ (At("power") /\ job.cmd = "On") => All'
    <3>1. \A k \in 1 .. job.at : stored[Order[k]] # 0 => stored'[Order[k]] # 0
      BY <1>a, <1>b, <1>c, <2>b
    <3>2. \A k \in 1 .. job.at - 1 : k \in 1 .. job.at
      BY <1>b
    <3>3. job.at \in 1 .. job.at
      BY <1>b
    <3>4. job.pc \in Loop => \A k \in 1 .. job.at - 1 : stored'[Order[k]] # 0
      BY <1>a, <2>a, <2>b, <3>1, <3>2 DEF Subscribed
    <3>5. job.pc \in {"read", "get"} => stored'[Order[job.at]] # 0
      BY <1>a, <2>a, <2>b, <3>1, <3>3 DEF Subscribed
    <3>6. At("assign") \/ (At("power") /\ job.cmd = "On") => All'
      BY <1>a, <2>a, <2>b
    <3> QED BY <3>4, <3>5, <3>6
  <2> HIDE DEF All
  <2>1. ASSUME job' = job, ~Begin PROVE Listens'
    BY <2>a, <2>b, <2>1 DEF At, Subscribed
  <2>2. ASSUME job'.pc = "idle" PROVE Listens'
    BY <2>2 DEF At, Loop
  <2>3. CASE Begin
    <3>1. job'.pc = "work" /\ job'.at = 1
      BY <2>3 DEF Begin, NoJob
    <3> QED BY <3>1 DEF At, Loop
  <2>4. CASE Execute
    <3>1. job'.pc = "work" /\ job'.at = job.at /\ At("work")
      BY <2>4, <1>b DEF Execute, At, WorkType
    <3> QED BY <2>a, <3>1 DEF At, Loop
  <2>5. CASE Ended
    <3>1. /\ job'.at = 1 /\ job'.cmd = job.cmd
          /\ IF job.cmd = "On" THEN job'.pc = "check" ELSE job'.pc = "power"
      BY <2>5, <2>a, <1>b DEF Ended, At, Goto, WorkType
    <3>2. 1 .. job'.at - 1 = {}
      BY <3>1
    <3> QED BY <3>1, <3>2 DEF At, Loop
  <2>6. CASE Check
    <3>1. /\ job'.pc \in {"append", "subscribe"} /\ job'.at = job.at /\ job'.cmd = job.cmd
          /\ job.pc = "check" /\ ~Begin
      BY <2>6, <1>b DEF Check, At, Goto, WorkType, Begin
    <3> QED BY <2>a, <2>b, <3>1 DEF At, Loop, Subscribed
  <2>7. CASE Subscribe \/ AddCallback
    <3>1. /\ job'.pc \in {"read", "get"} /\ job'.at = job.at /\ job'.cmd = job.cmd
          /\ job.pc \in {"subscribe", "append"} /\ ~Begin
      BY <2>7, <1>b DEF Subscribe, Subscribes, AddCallback, At, Goto, WorkType, Begin
    <3>2. stored'[Device] # 0
      BY <2>7, <1>b DEF Subscribe, Subscribes, AddCallback
    <3>3. stored'[Order[job'.at]] # 0
      BY <1>b, <3>1, <3>2
    <3> QED BY <2>a, <2>b, <3>1, <3>3 DEF At, Loop, Subscribed
  <2>8. CASE Read
    <3>1. /\ job'.pc = "get" /\ job'.at = job.at /\ job'.cmd = job.cmd
          /\ job.pc = "read" /\ ~Begin
      BY <2>8, <1>b DEF Read, At, Goto, WorkType, Begin
    <3> QED BY <2>a, <2>b, <3>1 DEF At, Loop, Subscribed
  <2>9. CASE Get
    <3>1. /\ job'.cmd = job.cmd /\ job.pc = "get" /\ ~Begin
          /\ \/ job'.pc = "assign" /\ job.at = Len(Order)
             \/ job'.pc = "check" /\ job'.at = job.at + 1
      BY <2>9, <1>b DEF Get, At, WorkType, Begin
    <3>2. ASSUME Quiet' PROVE \A k \in 1 .. job.at : stored'[Order[k]] # 0
      BY <1>c, <2>b, <3>1, <3>2 DEF Loop
    <3>3. ASSUME Quiet', job.at = Len(Order) PROVE All'
      <4>1. \A k \in 1 .. Len(Order) : stored'[Order[k]] # 0
        BY <3>2, <3>3
      <4> QED BY <1>b, <4>1 DEF All
    <3>4. job.at \in Nat
      BY <1>b
    <3>5. job.cmd = "On"
      BY <2>a, <3>1 DEF Loop
    <3>6. CASE job'.pc = "assign" /\ job.at = Len(Order)
      BY <3>1, <3>3, <3>5, <3>6 DEF At, Loop
    <3>7. CASE job'.pc = "check" /\ job'.at = job.at + 1
      <4>0. job'.at - 1 = job.at
        BY <3>4, <3>7
      <4>1. Quiet' => \A k \in 1 .. job'.at - 1 : stored'[Order[k]] # 0
        BY <3>2, <4>0
      <4> QED BY <3>1, <3>5, <3>7, <4>1 DEF At, Loop, Subscribed
    <3> QED BY <3>1, <3>6, <3>7
  <2>10. CASE Assign
    <3>1. job'.pc = "power" /\ At("assign") /\ ~Begin
      BY <2>10, <1>b DEF Assign, At, Goto, WorkType, Begin
    <3> QED BY <2>b, <3>1 DEF At, Loop
  <2>11. CASE Fails \/ Refused \/ Removed \/ ShowPower
    <3>1. job'.pc = "idle"
      BY <2>11 DEF Fails, Refused, Removed, Raise, ShowPower, NoJob
    <3> QED BY <2>2, <3>1
  <2>12. ASSUME \/ \E cmd \in PowerCommands : Call(cmd)
                \/ \E c \in Clients : CallOff(c) \/ OffStep(c)
                \/ ExecuteLate
                \/ \E d \in Devices : Change(d)
                \/ \E e \in events : Handle(e)
                \/ Finalise(0)
                \/ UNCHANGED vars
         PROVE  job' = job
    BY <2>12 DEF Call, Finalise, CallOff, OffStep, SubmitOff, UnsubscribeNext, Unsubscribe, Unsubscribed,
                 ExecuteLate, Change, Handle, vars, jobVars
  <2> QED
    BY <2>1, <2>3, <2>4, <2>5, <2>6, <2>7, <2>8, <2>9, <2>10, <2>11, <2>12 DEF Next, Worker
<1> QED
  BY <1>1, <1>2, <1>3 DEF HeardInv

-----------------------------------------------------------------------------
(* The power states.                                                       *)

LEMMA PowerInit == Init => PowerInv
BY DEF Init, PowerInv, At, NoJob

LEMMA PowerStep == TypeInv /\ PowerInv /\ [Next]_vars => PowerInv'
<1> SUFFICES ASSUME TypeInv, PowerInv, [Next]_vars PROVE PowerInv'
  OBVIOUS
<1> DEFINE Waiting == \A i \in 1 .. Len(jobs) : jobs[i].cmd # "Off" => jobs[i].devices = Devices
           Led == /\ clean => late = {}
                  /\ clean /\ At("idle") /\ power # "OFF" => \A d \in Devices : devPower[d] = power
                  /\ clean /\ ~At("idle") /\ job.cmd # "Off" =>
                       \A d \in Devices : (At("work") /\ d \in job.todo) \/ devPower[d] = To[job.cmd]
<1>a. /\ jobs \in Seq(JobType) /\ Len(jobs) \in Nat
      /\ job \in WorkType(Ids) /\ devPower \in [Devices -> PowerStates]
      /\ clean \in BOOLEAN
  BY ListFacts DEF TypeInv, PowerTypes, ThreadTypes
<1>b. Waiting /\ Led
  BY DEF PowerInv
<1>c. To["Off"] = "OFF"
  BY DEF To
<1>1. Waiting'
  <2>1. ASSUME NEW cmd \in PowerCommands, Submit(cmd) PROVE Waiting'
    <3> DEFINE x == [cmd |-> cmd, devices |-> Targets(cmd)]
    <3>1. jobs' = Append(jobs, x) /\ (x.cmd # "Off" => x.devices = Devices)
      BY <2>1 DEF Submit, Targets
    <3> HIDE DEF x
    <3>2. Len(jobs') = Len(jobs) + 1 /\ jobs'[Len(jobs) + 1] = x
          /\ \A i \in 1 .. Len(jobs) : jobs'[i] = jobs[i]
      BY <1>a, <3>1
    <3>3. \A i \in 1 .. Len(jobs) + 1 : i \in 1 .. Len(jobs) \/ i = Len(jobs) + 1
      BY <1>a
    <3>4. ASSUME NEW i \in 1 .. Len(jobs'), jobs'[i].cmd # "Off" PROVE jobs'[i].devices = Devices
      BY <1>b, <3>1, <3>2, <3>3, <3>4
    <3> QED BY <3>4 DEF Devices
  <2>2. CASE Begin
    <3>1. jobs # <<>> /\ jobs' = Tail(jobs)
      BY <2>2 DEF Begin
    <3>2. Len(jobs') = Len(jobs) - 1 /\ \A i \in 1 .. Len(jobs) - 1 : jobs'[i] = jobs[i + 1]
      BY <1>a, <3>1, ListFacts
    <3>3. \A i \in 1 .. Len(jobs) - 1 : i + 1 \in 1 .. Len(jobs)
      BY <1>a
    <3>4. ASSUME NEW i \in 1 .. Len(jobs'), jobs'[i].cmd # "Off" PROVE jobs'[i].devices = Devices
      BY <1>b, <3>2, <3>3, <3>4
    <3> QED BY <3>4 DEF Devices
  <2>3. "Off" \in PowerCommands
    BY DEF PowerCommands
  <2>4. ASSUME \/ \E c \in Clients : \/ CallOff(c) \/ UnsubscribeNext(c)
                                     \/ Unsubscribe(c) \/ Unsubscribed(c)
               \/ Execute \/ Ended \/ Check \/ Subscribe \/ AddCallback \/ Read \/ Get \/ Refused
               \/ Removed \/ Assign \/ ShowPower \/ Fails \/ ExecuteLate
               \/ \E d \in Devices : Change(d)
               \/ \E e \in events : Handle(e)
               \/ \E t \in Threads : Finalise(t)
               \/ UNCHANGED vars
        PROVE  jobs' = jobs
    BY <2>4 DEF CallOff, Finalise, UnsubscribeNext, Unsubscribe, Unsubscribed, Execute, Ended, Check,
                Subscribe, AddCallback, Read, Get, Refused, Removed, Raise, Assign, ShowPower, Fails,
                ExecuteLate, Change, Handle, vars, jobVars
  <2>5. jobs' = jobs => Waiting'
    BY <1>b DEF Devices
  <2> QED
    BY <2>1, <2>2, <2>3, <2>4, <2>5 DEF Next, Worker, OffStep, Threads, Call, SubmitOff
<1> HIDE DEF Waiting
<1>2. Led'
  <2>1. ASSUME UNCHANGED <<power, job, late, devPower, clean>> PROVE Led'
    BY <1>b, <2>1 DEF At, Devices
  <2>2. CASE Begin
    <3>1. /\ UNCHANGED <<power, late, devPower, clean>> /\ jobs # <<>>
          /\ job'.pc = "work" /\ job'.cmd = Head(jobs).cmd /\ job'.todo = Head(jobs).devices
      BY <2>2 DEF Begin, NoJob
    <3>2. Head(jobs) = jobs[1] /\ 1 \in 1 .. Len(jobs)
      BY <1>a, <3>1, ListFacts
    <3>3. job'.cmd # "Off" => job'.todo = Devices
      BY <1>b, <3>1, <3>2 DEF Waiting
    <3> QED BY <1>b, <3>1, <3>3 DEF At, Devices
  <2>3. CASE Execute
    <3>1. PICK d \in job.todo : /\ devPower' = [devPower EXCEPT ![d] = To[job.cmd]]
                                /\ job' = [job EXCEPT !.todo = job.todo \ {d}]
      BY <2>3 DEF Execute
    <3>2. /\ UNCHANGED <<power, late, clean>> /\ At("work")
          /\ job'.pc = "work" /\ job'.cmd = job.cmd /\ job'.todo = job.todo \ {d}
      BY <2>3, <1>a, <3>1 DEF Execute, At, WorkType
    <3>3. \A b \in Devices : devPower'[b] = IF b = d THEN To[job.cmd] ELSE devPower[b]
      BY <1>a, <3>1
    <3> QED BY <1>b, <3>2, <3>3 DEF At, Devices
  <2>4. CASE Ended
    <3>1. /\ UNCHANGED <<power, late, devPower, clean>> /\ At("work") /\ job.todo = {}
          /\ job'.pc \in {"check", "power"} /\ job'.cmd = job.cmd
      BY <2>4, <1>a DEF Ended, At, Goto, WorkType
    <3> QED BY <1>b, <3>1 DEF At, Devices
  <2>5. CASE Check \/ Subscribe \/ AddCallback \/ Read \/ Get \/ Assign
    <3>1. UNCHANGED <<power, late, devPower, clean>>
      BY <2>5 DEF Check, Subscribe, AddCallback, Read, Get, Assign
    <3>2. /\ job.pc \notin {"idle", "work"} /\ job'.pc \notin {"idle", "work"}
          /\ job'.cmd = job.cmd
      BY <2>5, <1>a DEF Check, Subscribe, Subscribes, AddCallback, Read, Get, Assign, At, Goto, WorkType
    <3> QED BY <1>b, <3>1, <3>2 DEF At, Devices
  <2>6. CASE ShowPower
    <3>1. /\ UNCHANGED <<late, devPower, clean>> /\ At("power")
          /\ power' = To[job.cmd] /\ job'.pc = "idle"
      BY <2>6 DEF ShowPower, NoJob
    <3> QED BY <1>b, <1>c, <3>1 DEF At, Devices
  <2>7. CASE Fails \/ Refused \/ Removed
    <3>1. ~clean'
      BY <2>7 DEF Fails, Refused, Removed, Raise
    <3> QED BY <3>1
  <2>8. CASE ExecuteLate
    <3>1. late # {} /\ clean' = clean
      BY <2>8 DEF ExecuteLate
    <3> QED BY <1>b, <3>1
  <2>9. ASSUME \/ \E cmd \in PowerCommands : Call(cmd)
               \/ \E c \in Clients : CallOff(c) \/ OffStep(c)
               \/ \E d \in Devices : Change(d)
               \/ \E e \in events : Handle(e)
               \/ Finalise(0)
               \/ UNCHANGED vars
        PROVE  UNCHANGED <<power, job, late, devPower, clean>>
    BY <2>9 DEF Call, Finalise, CallOff, OffStep, SubmitOff, UnsubscribeNext, Unsubscribe, Unsubscribed,
                Change, Handle, vars, jobVars
  <2> QED
    BY <2>1, <2>2, <2>3, <2>4, <2>5, <2>6, <2>7, <2>8, <2>9 DEF Next, Worker
<1> QED
  BY <1>1, <1>2 DEF PowerInv, Waiting

-----------------------------------------------------------------------------
(* The theorems.                                                           *)

LEMMA Invariance == Spec => []IInv
<1>1. Init => IInv
  BY TypeInit, CountInit, StoredInit, HeardInit, PowerInit DEF IInv
<1>2. IInv /\ [Next]_vars => IInv'
  BY TypeStep, CountStep, StoredStep, HeardStep, PowerStep DEF IInv
<1> QED
  BY <1>1, <1>2, PTL DEF Spec

(* Whatever the sub-devices, their order and the number of calls: every    *)
(* variable keeps to its type.  In particular no subscription has more     *)
(* callbacks than there were calls of commands.                            *)
THEOREM TypeCorrect == Spec => []TypeOK
<1>1. IInv => TypeOK
  <2> SUFFICES ASSUME IInv PROVE TypeOK
    OBVIOUS
  <2>1. TypeInv /\ CountInv
    BY DEF IInv
  <2>2. ASSUME NEW i \in Ids
        PROVE  /\ subs[i].dev \in Devices /\ subs[i].callbacks \in 0 .. MaxEvents
               /\ subs[i].live \in BOOLEAN /\ subs[i].subscribed \in BOOLEAN
    <3>1. subs[i] \in SubType /\ subs[i].callbacks \in Nat /\ ToCome \in Nat /\ calls \in Nat
      BY <2>1, CountFacts
    <3>2. subs[i].callbacks + ToCome <= calls
      BY <2>1 DEF CountInv
    <3>3. calls <= MaxEvents /\ MaxEvents \in Nat
      BY <2>1, BoundsAssumption DEF TypeInv, PowerTypes
    <3>4. \A n, t, a, m \in Nat : n + t <= a /\ a <= m => n \in 0 .. m
      OBVIOUS
    <3> QED BY <3>1, <3>2, <3>3, <3>4 DEF SubType
  <2>3. \A i \in DOMAIN jobs : jobs[i].cmd \in PowerCommands /\ jobs[i].devices \subseteq Devices
    <3>1. \A i \in DOMAIN jobs : jobs[i] \in JobType
      BY <2>1, ListFacts DEF TypeInv, PowerTypes
    <3> QED BY <3>1 DEF JobType
  <2>4. /\ job.pc \in {"idle", "work", "check", "subscribe", "append", "read", "get", "assign", "power"}
        /\ job.cmd \in PowerCommands /\ job.todo \subseteq Devices /\ job.at \in 1 .. Len(Order)
    BY <2>1 DEF TypeInv, ThreadTypes, WorkType, Pcs, Loop
  <2>7. job.own \in Ids \cup {0} /\ dropped \in [Threads -> SUBSET Ids] /\ lost \subseteq Devices
    BY <2>1 DEF TypeInv, ThreadTypes, WorkType, DelTypes
  <2>5. ToSet(handles) \subseteq Ids
    <3>1. handles \in Seq(Ids)
      BY <2>1 DEF TypeInv, SubTypes
    <3>2. DOMAIN handles = 1 .. Len(handles) /\ \A i \in 1 .. Len(handles) : handles[i] \in Ids
      BY <3>1, ListFacts
    <3> QED BY <3>2 DEF ToSet
  <2>6. \A c \in Clients : offs[c].pc \in {"none", "next", "lock", "flag", "submit"}
    BY <2>1 DEF TypeInv, ThreadTypes, OffType
  <2> QED
    BY <2>1, <2>2, <2>3, <2>4, <2>5, <2>6, <2>7 DEF TypeOK, TypeInv, PowerTypes, EventTypes, SubTypes
<1> QED
  BY <1>1, Invariance, PTL

(* BEAM that is on, and was not called off, hears of every sub-device:     *)
(* however the loop of On that subscribes, the loops of Off that           *)
(* unsubscribe and the jobs overlap (beam_component_manager.py,            *)
(* device_proxy.py), as long as no subscription unsubscribes itself        *)
(* because the last reference to it is gone.                               *)
THEOREM OnIsHeard == Spec => []OnIsSubscribed
<1>1. IInv => OnIsSubscribed
  BY DEF IInv, HeardInv, StoredInv, OnIsSubscribed
<1> QED
  BY <1>1, Invariance, PTL

(* At rest, when nothing has failed, the sub-devices of BEAM that is on or *)
(* in standby are in that state, though Off leaves out the sub-devices     *)
(* that are off when it is called and not when its job begins.             *)
THEOREM PowerIsTrue == Spec => []PowerAgrees
<1>1. IInv => PowerAgrees
  BY DEF IInv, PowerInv, PowerAgrees, AtRest, NoJob, At
<1> QED
  BY <1>1, Invariance, PTL
=============================================================================
