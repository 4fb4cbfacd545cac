----------------------------- MODULE BeamPower -----------------------------
(***************************************************************************)
(* BEAM turns its sub-devices on and off, and while it is on it listens to *)
(* them (beam/beam_component_manager.py, device_proxy.py): the commands    *)
(* On, Off, Standby and Reset, the jobs they become, the subscriptions     *)
(* that On makes once its job has ended and Off ends before its own is     *)
(* queued, the lock of each device proxy, and the events, each handled on  *)
(* a thread of its own.                                                    *)
(*                                                                         *)
(* The executor is taken for what TaskTree promises: jobs one after        *)
(* another, the commands of a job in any order, the first failure fails    *)
(* the job at once and what is still on its way may yet be done.  A        *)
(* command that would lead to the state the device is in is rejected by    *)
(* the Tango base class.                                                   *)
(*                                                                         *)
(* A subscription that is still subscribed when the last reference to it   *)
(* goes unsubscribes itself, in the thread that let go of it and at once   *)
(* (device_proxy.py, __del__): the thread may be holding the write lock    *)
(* that this needs.  What the traceback of an exception may still refer to *)
(* is left out.                                                            *)
(*                                                                         *)
(* One attribute is subscribed to on each sub-device, obsState, of which   *)
(* it matters whether it is FAULT.  Bounds: MaxEvents commands of BEAM and *)
(* changes of obsState, of which MaxChanges are changes; two clients that  *)
(* call Off.                                                               *)
(***************************************************************************)
EXTENDS Naturals, Sequences, SequencesExt, FiniteSets

CONSTANTS Order,      \* the sub-devices, in the order BEAM subscribes to them
          MaxEvents, MaxChanges

Devices == ToSet(Order)

ASSUME OrderAssumption == Order \in Seq(Devices) /\ Len(Order) > 0 /\ IsInjective(Order)
ASSUME BoundsAssumption == MaxEvents \in Nat /\ MaxChanges \in Nat

VARIABLES
  power,     \* the power state BEAM shows
  jobs,      \* the jobs that wait, each a command and its devices
  job,       \* the job at work, or its completion, and where it is
  late,      \* commands of failed jobs that devices may still execute
  devPower,  \* the power state of each sub-device
  faulty,    \* the sub-devices whose obsState is FAULT
  events,    \* the threads that handle an event
  told,      \* the sub-devices whose last fault BEAM was told of
  subs,      \* every subscription object that was made
  stored,    \* of each proxy: the subscription it has for the attribute, if any
  locked,    \* the proxies whose write lock is held
  handles,   \* the subscriptions BEAM knows
  dropped,   \* of each thread: what it has let go of, and must finalise before it goes on
  lost,      \* the proxies whose lock is held by a thread that waits for it
  offs,      \* of each client: where its call of Off is
  offCalled, \* Off was called since On last completed (for the properties)
  clean,     \* nothing has failed (for the properties)
  finalised, \* a subscription has unsubscribed itself (for the properties)
  calls, changes

jobVars == <<power, jobs, job, late, devPower>>
eventVars == <<faulty, events, told>>
delVars == <<dropped, lost, finalised>>
subVars == <<subs, stored, locked, handles>>
vars == <<jobVars, eventVars, subVars, delVars, offs, offCalled, clean, calls, changes>>

Clients == 1 .. 2
Threads == Clients \cup {0}  \* the clients, and the worker
PowerCommands == {"On", "Off", "Standby", "Reset"}
PowerStates == {"OFF", "ON", "STANDBY"}
To == [On |-> "ON", Off |-> "OFF", Standby |-> "STANDBY", Reset |-> "OFF"]

Ids == 1 .. Len(subs)
NoJob == [pc |-> "idle", cmd |-> "On", todo |-> {}, at |-> 1, made |-> <<>>, own |-> 0]
NoOff == [pc |-> "none", left |-> <<>>]

TypeOK ==
  /\ power \in PowerStates
  /\ \A i \in DOMAIN jobs : jobs[i].cmd \in PowerCommands /\ jobs[i].devices \subseteq Devices
  /\ job.pc \in {"idle", "work", "check", "subscribe", "append", "read", "get", "assign", "power"}
  /\ job.cmd \in PowerCommands /\ job.todo \subseteq Devices /\ job.at \in 1 .. Len(Order)
  /\ job.own \in Ids \cup {0}
  /\ late \subseteq PowerCommands \X Devices
  /\ devPower \in [Devices -> PowerStates]
  /\ faulty \subseteq Devices /\ told \subseteq Devices
  /\ events \subseteq [id : Ids, dev : Devices, fault : BOOLEAN]
  /\ \A i \in Ids : /\ subs[i].dev \in Devices /\ subs[i].callbacks \in 0 .. MaxEvents
                    /\ subs[i].live \in BOOLEAN /\ subs[i].subscribed \in BOOLEAN
  /\ stored \in [Devices -> Ids \cup {0}]
  /\ locked \subseteq Devices
  /\ ToSet(handles) \subseteq Ids
  /\ dropped \in [Threads -> SUBSET Ids] /\ lost \subseteq Devices
  /\ \A c \in Clients : offs[c].pc \in {"none", "next", "lock", "flag", "submit"}
  /\ calls \in 0 .. MaxEvents /\ changes \in 0 .. MaxChanges

Init ==
  /\ power = "OFF" /\ jobs = <<>> /\ job = NoJob /\ late = {}
  /\ devPower = [d \in Devices |-> "OFF"]
  /\ faulty = {} /\ events = {} /\ told = {}
  /\ subs = <<>> /\ stored = [d \in Devices |-> 0] /\ locked = {} /\ handles = <<>>
  /\ dropped = [t \in Threads |-> {}] /\ lost = {} /\ finalised = FALSE
  /\ offs = [c \in Clients |-> NoOff]
  /\ offCalled = FALSE /\ clean = TRUE
  /\ calls = 0 /\ changes = 0

-----------------------------------------------------------------------------
(* Clients call commands.                                                  *)

Accepts(cmd) ==
  /\ calls + changes < MaxEvents
  /\ IF cmd = "Reset" THEN power \in {"ON", "STANDBY"} ELSE power # To[cmd]

NotYet(cmd) == {d \in Devices : devPower[d] # To[cmd]}

(* The sub-devices a job commands; Off leaves out those that are off when  *)
(* it is called.  SparingTargets, a mistake, does so for every command.    *)
SparingTargets(cmd) == NotYet(cmd)
Targets(cmd) == IF cmd = "Off" THEN NotYet(cmd) ELSE Devices

Submit(cmd) == jobs' = Append(jobs, [cmd |-> cmd, devices |-> Targets(cmd)])

Call(cmd) ==
  /\ Accepts(cmd)
  /\ Submit(cmd)
  /\ calls' = calls + 1
  /\ UNCHANGED <<power, job, late, devPower, eventVars, subVars, delVars, offs, offCalled, clean, changes>>

CallOff(c) ==
  /\ Accepts("Off") /\ offs[c] = NoOff
  /\ offs' = [offs EXCEPT ![c] = [pc |-> "next", left |-> handles]]
  /\ offCalled' = TRUE
  /\ calls' = calls + 1
  /\ UNCHANGED <<jobVars, eventVars, subVars, delVars, clean, changes>>

-----------------------------------------------------------------------------
(* References to subscriptions: BEAM's handles, what the proxies have      *)
(* stored, the loop of On with the frame that made the last one, the loops *)
(* of Off.  A step of thread t lets go of what it leaves without any.      *)

Kept == ToSet(handles) \cup ToSet(job.made) \cup {job.own} \cup {stored[d] : d \in Devices}
        \cup UNION {ToSet(offs[c].left) : c \in Clients}

LetGo == {i \in Kept \ (Kept' \cup {0}) : subs'[i].subscribed}
LetsGo(t) == dropped' = [dropped EXCEPT ![t] = @ \cup LetGo]

Free(d) == d \notin locked \cup lost

(* Under the lock of its proxy the entry of a subscription is removed,     *)
(* whichever subscription that is.  Were this the last reference to a      *)
(* newer one, the thread now waits for the lock it holds.                  *)
Delete(d) ==
  /\ Free(d)
  /\ stored' = [stored EXCEPT ![d] = 0]
  /\ lost' = IF LetGo = {} THEN lost ELSE lost \cup {d}

Finalise(t) ==
  /\ UNCHANGED <<jobVars, eventVars, locked, handles, offs, offCalled, clean, calls, changes>>
  /\ \E id \in dropped[t] :
       /\ subs' = [subs EXCEPT ![id] = [@ EXCEPT !.live = FALSE, !.subscribed = FALSE, !.callbacks = 0]]
       /\ Delete(subs[id].dev)
       /\ dropped' = [dropped EXCEPT ![t] = (@ \ {id}) \cup LetGo]
  /\ finalised' = TRUE

-----------------------------------------------------------------------------
(* Off in the thread of its client: _unsubscribe_change_events, then the   *)
(* job.                                                                    *)

OffAt(c, pc) == offs[c].pc = pc
OffGoto(c, pc) == offs' = [offs EXCEPT ![c].pc = pc]

UnsubscribeNext(c) ==
  /\ OffAt(c, "next")
  /\ IF offs[c].left = <<>>
     THEN handles' = <<>> /\ OffGoto(c, "submit")
     ELSE /\ offs' = IF subs[Head(offs[c].left)].subscribed
                     THEN [offs EXCEPT ![c].pc = "lock"]
                     ELSE [offs EXCEPT ![c].left = Tail(@)]
          /\ UNCHANGED handles
  /\ UNCHANGED <<jobVars, eventVars, subs, stored, locked, lost, finalised, offCalled, clean, calls, changes>>
  /\ LetsGo(c)

Unsubscribe(c) ==
  /\ OffAt(c, "lock")
  /\ OffGoto(c, "flag")
  /\ UNCHANGED <<jobVars, eventVars, locked, handles, offCalled, clean, calls, changes>>
  /\ LET id == Head(offs[c].left)
     IN subs' = [subs EXCEPT ![id].live = FALSE] /\ Delete(subs[id].dev)
  /\ LetsGo(c)
  /\ finalised' = (finalised \/ LetGo # {})

Unsubscribed(c) ==
  /\ OffAt(c, "flag")
  /\ subs' = [subs EXCEPT ![Head(offs[c].left)] = [@ EXCEPT !.subscribed = FALSE, !.callbacks = 0]]
  /\ offs' = [offs EXCEPT ![c] = [pc |-> "next", left |-> Tail(@.left)]]
  /\ UNCHANGED <<jobVars, eventVars, stored, locked, handles, delVars, offCalled, clean, calls, changes>>

SubmitOff(c) ==
  /\ OffAt(c, "submit")
  /\ Submit("Off")
  /\ offs' = [offs EXCEPT ![c] = NoOff]
  /\ UNCHANGED <<power, job, late, devPower, eventVars, subVars, delVars, offCalled, clean, calls, changes>>

-----------------------------------------------------------------------------
(* Jobs, and what follows when one has ended well                          *)

At(pc) == job.pc = pc
Goto(pc) == job' = [job EXCEPT !.pc = pc]

Begin ==
  /\ At("idle") /\ jobs # <<>>
  /\ job' = [NoJob EXCEPT !.pc = "work", !.cmd = Head(jobs).cmd, !.todo = Head(jobs).devices]
  /\ jobs' = Tail(jobs)
  /\ UNCHANGED <<power, late, devPower, eventVars, subVars, delVars, offs, offCalled, clean, calls, changes>>

Execute ==
  /\ At("work")
  /\ \E d \in job.todo :
       /\ devPower' = [devPower EXCEPT ![d] = To[job.cmd]]
       /\ job' = [job EXCEPT !.todo = @ \ {d}]
  /\ UNCHANGED <<power, jobs, late, eventVars, subVars, delVars, offs, offCalled, clean, calls, changes>>

Fails ==
  /\ At("work")
  /\ \E d \in job.todo : late' = late \cup ({job.cmd} \X (job.todo \ {d}))
  /\ job' = NoJob /\ clean' = FALSE
  /\ UNCHANGED <<power, jobs, devPower, eventVars, subVars, delVars, offs, offCalled, calls, changes>>

ExecuteLate ==
  /\ \E l \in late : late' = late \ {l} /\ devPower' = [devPower EXCEPT ![l[2]] = To[l[1]]]
  /\ UNCHANGED <<power, jobs, job, eventVars, subVars, delVars, offs, offCalled, clean, calls, changes>>

(* The completion callback: On subscribes, every command then shows its    *)
(* power state.                                                            *)
Ended ==
  /\ At("work") /\ job.todo = {}
  /\ Goto(IF job.cmd = "On" THEN "check" ELSE "power")
  /\ UNCHANGED <<power, jobs, late, devPower, eventVars, subVars, delVars, offs, offCalled, clean, calls, changes>>

Device == Order[job.at]

(* subscribe_change_event looks for a subscription outside the lock, adds  *)
(* to the one it finds, else makes one under the lock.                     *)
Check ==
  /\ At("check")
  /\ IF stored[Device] # 0
     THEN Goto("append") /\ UNCHANGED locked
     ELSE Free(Device) /\ Goto("subscribe") /\ locked' = locked \cup {Device}
  /\ UNCHANGED <<power, jobs, late, devPower, eventVars, subs, stored, handles, delVars, offs, offCalled, clean, calls, changes>>

Event(id, d) == [id |-> id, dev |-> d, fault |-> d \in faulty]

(* Tango sends the value of the attribute at once, in this thread; the     *)
(* callback hands it to a thread of its own.                               *)
Subscribes ==
  LET new == Len(subs) + 1
  IN /\ subs' = Append(subs, [dev |-> Device, live |-> TRUE, subscribed |-> TRUE, callbacks |-> 1])
     /\ stored' = [stored EXCEPT ![Device] = new]
     /\ events' = events \cup {Event(new, Device)}
     /\ job' = [job EXCEPT !.pc = "get", !.own = new]

(* SubscribeInThread, a mistake, handles that event in the same thread.    *)
SubscribeInThread ==
  /\ At("subscribe")
  /\ Free(Device)   \* to handle the event this thread would need the lock it holds
  /\ Subscribes
  /\ UNCHANGED <<power, jobs, late, devPower, faulty, told, locked, handles, delVars, offs, offCalled, clean, calls, changes>>

Subscribe ==
  /\ At("subscribe")
  /\ Subscribes
  /\ locked' = locked \ {Device}
  /\ UNCHANGED <<power, jobs, late, devPower, faulty, told, handles, delVars, offs, offCalled, clean, calls, changes>>

AddCallback ==
  /\ At("append") /\ stored[Device] # 0
  /\ subs' = [subs EXCEPT ![stored[Device]].callbacks = @ + 1]
  /\ Goto("read")
  /\ UNCHANGED <<power, jobs, late, devPower, eventVars, stored, locked, handles, delVars, offs, offCalled, clean, calls, changes>>

Read ==
  /\ At("read")
  /\ told' = told \cup (faulty \cap {Device})
  /\ Goto("get")
  /\ UNCHANGED <<power, jobs, late, devPower, faulty, events, subVars, delVars, offs, offCalled, clean, calls, changes>>

(* The subscription is read back and the next sub-device is turned to.     *)
(* GetPastTheEnd, a mistake, turns to one more than there are.             *)
GetPastTheEnd ==
  /\ At("get") /\ stored[Device] # 0
  /\ LET made == Append(job.made, stored[Device])
     IN job' = IF job.at > Len(Order) THEN [job EXCEPT !.pc = "assign", !.made = made, !.own = 0]
               ELSE [job EXCEPT !.pc = "check", !.made = made, !.own = 0, !.at = @ + 1]
  /\ UNCHANGED <<power, jobs, late, devPower, eventVars, subVars, delVars, offs, offCalled, clean, calls, changes>>

Get ==
  /\ At("get") /\ stored[Device] # 0
  /\ LET made == Append(job.made, stored[Device])
     IN job' = IF job.at = Len(Order) THEN [job EXCEPT !.pc = "assign", !.made = made, !.own = 0]
               ELSE [job EXCEPT !.pc = "check", !.made = made, !.own = 0, !.at = @ + 1]
  /\ UNCHANGED <<power, jobs, late, devPower, eventVars, subVars, delVars, offs, offCalled, clean, calls, changes>>

(* A subscription that cannot be made, and one that Off removed while it   *)
(* was looked at, raises: the command has failed.  Shrug, a mistake, goes  *)
(* on and shows the power state.                                           *)
Shrug ==
  /\ Goto("power") /\ clean' = FALSE
  /\ locked' = IF At("subscribe") THEN locked \ {Device} ELSE locked
  /\ UNCHANGED <<power, jobs, late, devPower, eventVars, subs, stored, handles, delVars, offs, offCalled, calls, changes>>

Raise ==
  /\ job' = NoJob /\ clean' = FALSE
  /\ locked' = IF At("subscribe") THEN locked \ {Device} ELSE locked
  /\ UNCHANGED <<power, jobs, late, devPower, eventVars, subs, stored, handles, lost, finalised, offs, offCalled, calls, changes>>
  /\ LetsGo(0)

Refused == (At("subscribe") \/ At("read")) /\ Raise
Removed == (At("append") \/ At("get")) /\ stored[Device] = 0 /\ Raise

Assign ==
  /\ At("assign")
  /\ handles' = job.made
  /\ Goto("power")
  /\ UNCHANGED <<power, jobs, late, devPower, eventVars, subs, stored, locked, lost, finalised, offs, offCalled, clean, calls, changes>>
  /\ LetsGo(0)

OffPending == (\E c \in Clients : offs[c] # NoOff) \/ \E i \in DOMAIN jobs : jobs[i].cmd = "Off"

ShowPower ==
  /\ At("power")
  /\ power' = To[job.cmd]
  /\ job' = NoJob
  /\ offCalled' = IF job.cmd = "On" THEN OffPending ELSE offCalled
  /\ UNCHANGED <<jobs, late, devPower, eventVars, subVars, delVars, offs, clean, calls, changes>>

-----------------------------------------------------------------------------
(* The sub-devices and their events.  A thread hands its event to the      *)
(* callbacks of whatever subscription the proxy has when it gets the lock. *)

Live(d) == {i \in Ids : subs[i].live /\ subs[i].dev = d}

Change(d) ==
  /\ changes < MaxChanges /\ calls + changes < MaxEvents
  /\ changes' = changes + 1
  /\ faulty' = IF d \in faulty THEN faulty \ {d} ELSE faulty \cup {d}
  /\ told' = told \ {d}
  /\ events' = events \cup {[id |-> i, dev |-> d, fault |-> d \notin faulty] : i \in Live(d)}
  /\ UNCHANGED <<jobVars, subVars, delVars, offs, offCalled, clean, calls>>

(* HandleOnceOn, a mistake, tells BEAM only once it shows that it is on.   *)
HandleOnceOn(e) ==
  /\ e \in events /\ Free(e.dev)
  /\ events' = events \ {e}
  /\ told' = IF e.fault /\ stored[e.dev] # 0 /\ power = "ON" THEN told \cup {e.dev} ELSE told
  /\ UNCHANGED <<jobVars, faulty, subVars, delVars, offs, offCalled, clean, calls, changes>>

Handle(e) ==
  /\ e \in events /\ Free(e.dev)
  /\ events' = events \ {e}
  /\ told' = IF e.fault /\ stored[e.dev] # 0 /\ subs[stored[e.dev]].callbacks > 0
             THEN told \cup {e.dev} ELSE told
  /\ UNCHANGED <<jobVars, faulty, subVars, delVars, offs, offCalled, clean, calls, changes>>

-----------------------------------------------------------------------------

(* A thread finalises what it has let go of before it goes on.             *)
GoesOn(t) == dropped[t] = {}

OffStep(c) ==
  \/ Finalise(c)
  \/ GoesOn(c) /\ (UnsubscribeNext(c) \/ Unsubscribe(c) \/ Unsubscribed(c) \/ SubmitOff(c))
Worker ==
  \/ Finalise(0)
  \/ /\ GoesOn(0)
     /\ \/ Begin \/ Execute \/ Ended
        \/ Check \/ Subscribe \/ AddCallback \/ Read \/ Get \/ Removed \/ Assign \/ ShowPower

Next ==
  \/ \E cmd \in PowerCommands \ {"Off"} : Call(cmd)
  \/ \E c \in Clients : CallOff(c) \/ OffStep(c)
  \/ Worker
  \/ GoesOn(0) /\ (Fails \/ Refused)
  \/ ExecuteLate
  \/ \E d \in Devices : Change(d)
  \/ \E e \in events : Handle(e)

Spec == Init /\ [][Next]_vars

(* Every thread goes on, and every command of a sub-device ends; that one  *)
(* fails, or a subscription, is never counted on.                          *)
FairSpec ==
  /\ Spec
  /\ WF_vars(Worker)
  /\ \A c \in Clients : WF_vars(OffStep(c))
  /\ WF_vars(\E e \in events : Handle(e))

-----------------------------------------------------------------------------
(* Properties *)

AtRest == jobs = <<>> /\ job = NoJob /\ late = {} /\ \A c \in Clients : offs[c] = NoOff

(* BEAM that is on, and was not called off, hears of every sub-device:     *)
(* what its proxy has stored is known to Tango and has a callback.  This   *)
(* is so as long as no subscription has unsubscribed itself: one that does *)
(* removes what its proxy has stored since.                                *)
OnIsSubscribed ==
  power = "ON" /\ ~offCalled /\ ~finalised =>
    \A d \in Devices : stored[d] # 0 /\ subs[stored[d]].live /\ subs[stored[d]].callbacks > 0

(* At rest, when nothing has failed, BEAM that is on or in standby has all *)
(* its sub-devices in that state, however the commands overlapped.         *)
PowerAgrees ==
  AtRest /\ clean /\ power # "OFF" => \A d \in Devices : devPower[d] = power

(* BEAM that is on gets to know of a sub-device in FAULT, also of one that *)
(* went there before or while it subscribed: unless the fault is over,     *)
(* BEAM is called off first or a subscription unsubscribed itself.         *)
Unseen == power = "ON" /\ ~offCalled /\ ~finalised /\ ~(faulty \subseteq told)
FaultsAreSeen == []<>~Unseen

(* The locks of the proxies are given back, what was let go of is          *)
(* unsubscribed and Off returns to its client: this can only fail for a    *)
(* proxy whose lock a thread waits for that holds it.                      *)
ThreadsGoOn ==
  []<>(\/ lost # {}
       \/ /\ locked = {} /\ \A t \in Threads : dropped[t] = {}
          /\ \A c \in Clients : offs[c] = NoOff)

-----------------------------------------------------------------------------
(* What the code does not keep to (the configurations that no run of the   *)
(* project uses find the behaviours).                                      *)

(* "Cleanup the subscription when object is getting deleted"               *)
(* (device_proxy.py, __del__): what was let go of comes to be unsubscribed. *)
(* It does not, when it was let go of under the lock of its proxy.         *)
DroppedIsCleanedUp ==
  \A t \in Threads : dropped[t] # {} ~> dropped[t] = {}

(* BEAM that is on hears of its sub-devices whatever was deleted.          *)
OnIsAlwaysSubscribed ==
  power = "ON" /\ ~offCalled => \A d \in Devices : stored[d] # 0

(* BEAM that is off has its sub-devices off: not those that were off when  *)
(* Off was called and that a job ahead of it has turned on since.          *)
OffIsOff ==
  AtRest /\ clean /\ power = "OFF" => \A d \in Devices : devPower[d] = "OFF"
=============================================================================
