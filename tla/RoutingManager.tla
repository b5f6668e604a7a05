--------------------------- MODULE RoutingManager ---------------------------
(***************************************************************************)
(* How a request for an output device reaches the codec, in whale/.        *)
(*                                                                         *)
(*   framework --> audio_event_list --> event thread --> out->devices and  *)
(*   switch_device_cmd_list --> routing thread --> mixer                   *)
(*                                                                         *)
(* A stream that starts queues a command for its own device and waits for  *)
(* it.  Lists and semaphores are those of audio_control.cpp; streams are   *)
(* those of audio_hw.c.  adev->lock and output_list_lock are held by no    *)
(* thread that waits here, and are left out; actl->lock is kept, because   *)
(* do_select_device may release it twice, and any unlock frees it.         *)
(***************************************************************************)
EXTENDS Naturals, Sequences

CONSTANTS Streams,    \* output streams, each with the thread that plays it
          Devices,    \* output devices the framework may ask for
          Routable,   \* the devices that have a route in the route table
          Default,    \* the device of a stream that is opened
          Setter,     \* the framework thread that asks for devices
          Event,      \* audio_event_thread_entry
          Router,     \* stream_routing_thread_entry
          Closer,     \* the thread that runs adev_close
          None,
          AccessFails,  \* whether device_access_enable may fail to wake the DSP
          MaxRequests,  \* bound: requests of the framework
          MaxPosts      \* bound: value of either semaphore when it is posted

Threads == Streams \cup {Setter, Event, Router, Closer}

ASSUME DevicesAssumption == Default \in Devices /\ Routable \subseteq Devices /\ None \notin Devices
ASSUME ThreadsAssumption ==
    /\ Setter \notin {Event, Router, Closer} /\ Event \notin {Router, Closer} /\ Router # Closer
    /\ Streams \cap {Setter, Event, Router, Closer} = {}
    /\ None \notin Threads
ASSUME BoundsAssumption == MaxRequests \in Nat /\ MaxPosts \in Nat /\ AccessFails \in BOOLEAN

VARIABLES
    dev, standby, outLock,       \* devices, standby and lock of each stream
    usecase, ctlLock, ctlDev,    \* usecase, lock and out_devices of actl
    vbc, route,                  \* pre_out_ctl of the vbc and of the device routes
    events, evSem, evExit,       \* the event manager
    cmds, sem, exit,             \* the routing manager
    answered,                    \* sync_sem of the command each stream waits for
    pc, seen, want,              \* where each thread is; the usecase it read; the device it was asked for
    cur, todo,                   \* the router's command; streams the event thread must still set
    requests                     \* how often the framework asked

streamVars == <<dev, standby, outLock>>
evVars == <<events, evSem, evExit>>
rtVars == <<cmds, sem, exit>>
mixVars == <<vbc, route>>
ctlVars == <<usecase, ctlLock, ctlDev>>
locals == <<seen, want, cur, todo>>
vars == <<dev, standby, outLock, usecase, ctlLock, ctlDev, vbc, route, events,
          evSem, evExit, cmds, sem, exit, answered, pc, seen, want, cur, todo,
          requests>>

\* A struct switch_device_cmd: by names the stream that waits, if any.
Commands == [device : Devices, by : Streams \cup {None}, force : BOOLEAN]
NoCommand == [device |-> Default, by |-> None, force |-> FALSE]

TypeOK ==
    /\ dev \in [Streams -> Devices] /\ standby \in [Streams -> BOOLEAN]
    /\ outLock \in [Streams -> Threads \cup {None}]
    /\ usecase \subseteq Streams /\ ctlLock \in Threads \cup {None}
    /\ ctlDev \in Devices \cup {None}
    /\ vbc \in Routable \cup {None} /\ route \in Routable \cup {None}
    /\ events \in Seq(Devices) /\ evSem \in Nat /\ evExit \in BOOLEAN
    /\ cmds \in Seq(Commands) /\ sem \in Nat /\ exit \in BOOLEAN
    /\ answered \in [Streams -> Nat]
    /\ pc \in [Threads -> {"idle", "on", "onRead", "onWrite", "onUnlock", "vbcLock",
                           "vbcApply", "pcm", "send", "post", "wait", "release", "off",
                           "offTest", "offWrite", "offUnlock", "top", "look", "apply",
                           "select", "test", "enable", "decide", "switch", "relock",
                           "done", "drain", "exited", "join", "joinEvent",
                           "closed", "aborted"}]
    /\ seen \in [Streams -> SUBSET Streams] /\ want \in [{Setter, Event} -> Devices]
    /\ cur \in Commands /\ todo \subseteq Streams
    /\ requests \in 0 .. MaxRequests

Goto(t, where) == pc' = [pc EXCEPT ![t] = where]
At(t, where) == pc[t] = where
Playing(s) == standby[s] = FALSE

\* stream_routing_manager_create and audio_event_manager_create: empty lists.
Init ==
    /\ dev = [s \in Streams |-> Default] /\ standby = [s \in Streams |-> TRUE]
    /\ outLock = [s \in Streams |-> None]
    /\ usecase = {} /\ ctlLock = None /\ ctlDev = None
    /\ vbc = None /\ route = None
    /\ events = <<>> /\ evSem = 0 /\ evExit = FALSE
    /\ cmds = <<>> /\ sem = 0 /\ exit = FALSE
    /\ answered = [s \in Streams |-> 0]
    /\ pc = [t \in Threads |-> IF t \in {Event, Router} THEN "top" ELSE "idle"]
    /\ seen = [s \in Streams |-> {}] /\ want = [t \in {Setter, Event} |-> Default]
    /\ cur = NoCommand /\ todo = {}
    /\ requests = 0

(* pthread_mutex_lock and pthread_mutex_unlock of actl->lock.                *)
Lock(t) == ctlLock = None /\ ctlLock' = t
Unlock == ctlLock' = None

-----------------------------------------------------------------------------
(* out_write of a stream in standby: out->lock, then start_output_stream,    *)
(* whose first half is set_usecase(on).                                      *)
StartEnter(s) ==
    /\ At(s, "idle") /\ At(Closer, "idle") /\ ~Playing(s) /\ outLock[s] = None
    /\ outLock' = [outLock EXCEPT ![s] = s] /\ Goto(s, "on")
    /\ UNCHANGED <<dev, standby, ctlVars, mixVars, evVars, rtVars, answered, locals, requests>>
UsecaseLock(s) ==
    /\ pc[s] \in {"on", "off"} /\ Lock(s)
    /\ Goto(s, IF At(s, "on") THEN "onRead" ELSE "offTest")
    /\ UNCHANGED <<streamVars, usecase, ctlDev, mixVars, evVars, rtVars, answered, locals, requests>>

\* The DSP cannot be woken, or the usecase is on already: set_usecase is -1.
UsecaseRefused(s) ==
    /\ At(s, "onRead") /\ Unlock /\ Goto(s, "release")
    /\ UNCHANGED <<streamVars, usecase, ctlDev, mixVars, evVars, rtVars, answered, locals, requests>>

\* actl->usecase |= usecase is a load and a store.
UsecaseRead(s) ==
    /\ At(s, "onRead") /\ s \notin usecase /\ Goto(s, "onWrite")
    /\ seen' = [seen EXCEPT ![s] = usecase]
    /\ UNCHANGED <<streamVars, ctlVars, mixVars, evVars, rtVars, answered, want, cur, todo, requests>>
UsecaseOn(s) ==
    /\ At(s, "onWrite") /\ usecase' = seen[s] \cup {s} /\ Goto(s, "onUnlock")
    /\ seen' = [seen EXCEPT ![s] = {}]
    /\ UNCHANGED <<streamVars, ctlLock, ctlDev, mixVars, evVars, rtVars, answered, want, cur, todo, requests>>
UsecaseUnlock(s) ==
    /\ pc[s] \in {"onUnlock", "offUnlock"} /\ Unlock
    /\ Goto(s, IF At(s, "onUnlock") THEN "vbcLock" ELSE "release")
    /\ UNCHANGED <<streamVars, usecase, ctlDev, mixVars, evVars, rtVars, answered, locals, requests>>

(* switch_vbc_route: the mixer controls of the DSP side.                     *)
VbcRoute(d) == vbc' = IF d \in Routable THEN d ELSE vbc
SwitchVbcLock(s) ==
    /\ At(s, "vbcLock") /\ Lock(s) /\ Goto(s, "vbcApply")
    /\ UNCHANGED <<streamVars, usecase, ctlDev, mixVars, evVars, rtVars, answered, locals, requests>>
SwitchVbcRoute(s) ==
    /\ At(s, "vbcApply") /\ VbcRoute(dev[s]) /\ Unlock /\ Goto(s, "pcm")
    /\ UNCHANGED <<streamVars, usecase, ctlDev, route, evVars, rtVars, answered, locals, requests>>

(* pcm_open, which may fail: then the usecase is switched off again.         *)
PcmOpen(s) ==
    /\ At(s, "pcm") /\ (Goto(s, "send") \/ Goto(s, "off"))
    /\ UNCHANGED <<streamVars, ctlVars, mixVars, evVars, rtVars, answered, locals, requests>>

(* select_device_cmd_send: append under cmd_lock, then post.                 *)
Send(t, cmd) == cmds' = Append(cmds, cmd) /\ Goto(t, "post")
StartForces_Not(s) == FALSE
StartForces(s) == TRUE
SendSync(s) ==
    /\ At(s, "send") /\ Send(s, [device |-> dev[s], by |-> s, force |-> StartForces(s)])
    /\ UNCHANGED <<streamVars, ctlVars, mixVars, evVars, sem, exit, answered, locals, requests>>
SendPost_OnlyFirst(t) ==
    /\ At(t, "post") /\ t \in Streams \cup {Event}
    /\ sem' = IF Len(cmds) = 1 THEN sem + 1 ELSE sem
    /\ Goto(t, IF t = Event THEN "top" ELSE "wait")
    /\ UNCHANGED <<streamVars, ctlVars, mixVars, evVars, cmds, exit, answered, locals, requests>>
SendPost(t) ==
    /\ At(t, "post") /\ t \in Streams \cup {Event}
    /\ \/ sem < MaxPosts /\ sem' = sem + 1
       \/ At(Router, "exited") /\ UNCHANGED sem
    /\ Goto(t, IF t = Event THEN "top" ELSE "wait")
    /\ UNCHANGED <<streamVars, ctlVars, mixVars, evVars, cmds, exit, answered, locals, requests>>

(* sem_wait(&cmd->sync_sem), after which the stream is started.              *)
StartDone(s) ==
    /\ At(s, "wait") /\ answered[s] > 0
    /\ answered' = [answered EXCEPT ![s] = @ - 1]
    /\ standby' = [standby EXCEPT ![s] = FALSE] /\ Goto(s, "release")
    /\ UNCHANGED <<dev, outLock, ctlVars, mixVars, evVars, rtVars, locals, requests>>
Release(s) ==
    /\ At(s, "release") /\ outLock' = [outLock EXCEPT ![s] = None] /\ Goto(s, "idle")
    /\ UNCHANGED <<dev, standby, ctlVars, mixVars, evVars, rtVars, answered, locals, requests>>

(* do_output_standby and do_normal_output_standby.                           *)
Standby(s) ==
    /\ At(s, "idle") /\ At(Closer, "idle") /\ Playing(s) /\ outLock[s] = None
    /\ outLock' = [outLock EXCEPT ![s] = s]
    /\ standby' = [standby EXCEPT ![s] = TRUE] /\ Goto(s, "off")
    /\ UNCHANGED <<dev, ctlVars, mixVars, evVars, rtVars, answered, locals, requests>>
\* Only when another stream has overwritten actl->usecase is the bit gone.
UsecaseTest(s) ==
    /\ At(s, "offTest")
    /\ IF s \in usecase
         THEN seen' = [seen EXCEPT ![s] = usecase] /\ Goto(s, "offWrite") /\ UNCHANGED ctlLock
         ELSE Unlock /\ Goto(s, "release") /\ UNCHANGED seen
    /\ UNCHANGED <<streamVars, usecase, ctlDev, mixVars, evVars, rtVars, answered, want, cur, todo, requests>>
\* With no usecase left, close_all_control_unlock turns every route off.
UsecaseOff(s) ==
    /\ At(s, "offWrite") /\ usecase' = seen[s] \ {s} /\ Goto(s, "offUnlock")
    /\ IF usecase' = {} THEN vbc' = None /\ route' = None ELSE UNCHANGED mixVars
    /\ seen' = [seen EXCEPT ![s] = {}]
    /\ UNCHANGED <<streamVars, ctlLock, ctlDev, evVars, rtVars, answered, want, cur, todo, requests>>

-----------------------------------------------------------------------------
(* out_set_parameters writes out->devices and queues an event;               *)
(* adev_create_audio_patch only queues the event.                            *)
Request ==
    /\ At(Setter, "idle") /\ At(Closer, "idle") /\ requests < MaxRequests
    /\ \E d \in Devices :
         /\ want' = [want EXCEPT ![Setter] = d]
         /\ \/ \E s \in Streams : outLock[s] = None /\ dev' = [dev EXCEPT ![s] = d]
            \/ UNCHANGED dev
    /\ requests' = requests + 1 /\ Goto(Setter, "send")
    /\ UNCHANGED <<standby, outLock, ctlVars, mixVars, evVars, rtVars, answered, seen, cur, todo>>
(* create_audio_event: append under audio_event_lock, then post.             *)
CreateEvent ==
    /\ At(Setter, "send") /\ events' = Append(events, want[Setter]) /\ Goto(Setter, "post")
    /\ want' = [want EXCEPT ![Setter] = Default]
    /\ UNCHANGED <<streamVars, ctlVars, mixVars, evSem, evExit, rtVars, answered, seen, cur, todo, requests>>
PostEvent_Not ==
    /\ At(Setter, "post") /\ Goto(Setter, "idle")
    /\ UNCHANGED <<streamVars, ctlVars, mixVars, evVars, rtVars, answered, locals, requests>>
PostEvent ==
    /\ At(Setter, "post") /\ evSem < MaxPosts /\ evSem' = evSem + 1 /\ Goto(Setter, "idle")
    /\ UNCHANGED <<streamVars, ctlVars, mixVars, events, evExit, rtVars, answered, locals, requests>>

-----------------------------------------------------------------------------
(* audio_event_thread_entry                                                  *)
EventTop ==
    /\ At(Event, "top") /\ Goto(Event, IF evExit THEN "drain" ELSE "look")
    /\ UNCHANGED <<streamVars, ctlVars, mixVars, evVars, rtVars, answered, locals, requests>>
EventEmpty ==
    /\ At(Event, "look") /\ events = <<>> /\ Goto(Event, "wait")
    /\ UNCHANGED <<streamVars, ctlVars, mixVars, evVars, rtVars, answered, locals, requests>>
EventPop ==
    /\ At(Event, "look") /\ events # <<>> /\ events' = Tail(events)
    /\ want' = [want EXCEPT ![Event] = Head(events)]
    /\ todo' = IF At(Closer, "idle") THEN Streams ELSE {}
    /\ Goto(Event, "apply")
    /\ UNCHANGED <<streamVars, ctlVars, mixVars, evSem, evExit, rtVars, answered, seen, cur, requests>>
EventWait ==
    /\ At(Event, "wait") /\ evSem > 0 /\ evSem' = evSem - 1 /\ Goto(Event, "top")
    /\ UNCHANGED <<streamVars, ctlVars, mixVars, events, evExit, rtVars, answered, locals, requests>>
(* adev_out_devices_check: each stream in turn, under its lock.              *)
EventApply(s) ==
    /\ At(Event, "apply") /\ s \in todo /\ outLock[s] = None
    /\ dev' = [dev EXCEPT ![s] = want[Event]] /\ todo' = todo \ {s}
    /\ UNCHANGED <<standby, outLock, ctlVars, mixVars, evVars, rtVars, answered, pc, seen, want, cur, requests>>
EventSend ==
    /\ At(Event, "apply") /\ todo = {}
    /\ Send(Event, [device |-> want[Event], by |-> None, force |-> FALSE])
    /\ want' = [want EXCEPT ![Event] = Default]
    /\ UNCHANGED <<streamVars, ctlVars, mixVars, evVars, sem, exit, answered, seen, cur, todo, requests>>
\* After stream_routing_manager_close the command goes to a list nobody reads,
\* under a destroyed mutex: the C library may end the process instead.
EventAborts ==
    /\ At(Event, "apply") /\ todo = {} /\ At(Closer, "joinEvent")
    /\ pc' = [t \in Threads |-> "aborted"]
    /\ UNCHANGED <<streamVars, ctlVars, mixVars, evVars, rtVars, answered, locals, requests>>
EventDrain ==
    /\ At(Event, "drain") /\ events' = <<>> /\ Goto(Event, "exited")
    /\ UNCHANGED <<streamVars, ctlVars, mixVars, evSem, evExit, rtVars, answered, locals, requests>>

-----------------------------------------------------------------------------
(* stream_routing_thread_entry                                               *)
RouterTop ==
    /\ At(Router, "top") /\ Goto(Router, IF exit THEN "drain" ELSE "look")
    /\ UNCHANGED <<streamVars, ctlVars, mixVars, evVars, rtVars, answered, locals, requests>>
RouterEmpty ==
    /\ At(Router, "look") /\ cmds = <<>> /\ Goto(Router, "wait")
    /\ UNCHANGED <<streamVars, ctlVars, mixVars, evVars, rtVars, answered, locals, requests>>
TakeHead_Keeps == cur' = Head(cmds) /\ cmds' = cmds
TakeHead_Last == cur' = cmds[Len(cmds)] /\ cmds' = SubSeq(cmds, 1, Len(cmds) - 1)
TakeHead == cur' = Head(cmds) /\ cmds' = Tail(cmds)
RouterPop ==
    /\ At(Router, "look") /\ cmds # <<>> /\ TakeHead /\ Goto(Router, "select")
    /\ UNCHANGED <<streamVars, ctlVars, mixVars, evVars, sem, exit, answered, seen, want, todo, requests>>
RouterWait ==
    /\ At(Router, "wait") /\ sem > 0 /\ sem' = sem - 1 /\ Goto(Router, "top")
    /\ UNCHANGED <<streamVars, ctlVars, mixVars, evVars, cmds, exit, answered, locals, requests>>

(* do_select_device, from its lock on.                                       *)
SelectLock ==
    /\ At(Router, "select") /\ Lock(Router) /\ Goto(Router, "test")
    /\ UNCHANGED <<streamVars, usecase, ctlDev, mixVars, evVars, rtVars, answered, locals, requests>>
SelectIdle ==
    /\ At(Router, "test") /\ usecase = {} /\ Unlock /\ Goto(Router, "done")
    /\ UNCHANGED <<streamVars, usecase, ctlDev, mixVars, evVars, rtVars, answered, locals, requests>>
\* The device is selected already: the lock is released, and a forced command
\* goes on without it.
SelectSame ==
    /\ At(Router, "test") /\ usecase # {} /\ cur.device = ctlDev /\ Unlock
    /\ Goto(Router, IF cur.force THEN "enable" ELSE "done")
    /\ UNCHANGED <<streamVars, usecase, ctlDev, mixVars, evVars, rtVars, answered, locals, requests>>
SelectOther ==
    /\ At(Router, "test") /\ usecase # {} /\ cur.device # ctlDev /\ Goto(Router, "enable")
    /\ UNCHANGED <<streamVars, ctlVars, mixVars, evVars, rtVars, answered, locals, requests>>
SelectEnable ==
    /\ At(Router, "enable") /\ VbcRoute(cur.device) /\ Goto(Router, "decide")
    /\ UNCHANGED <<streamVars, ctlVars, route, evVars, rtVars, answered, locals, requests>>
SelectNoAccess ==
    /\ AccessFails /\ At(Router, "enable") /\ Unlock /\ Goto(Router, "done")
    /\ UNCHANGED <<streamVars, usecase, ctlDev, mixVars, evVars, rtVars, answered, locals, requests>>
\* Only without the lock can the usecase be gone by now.
SelectDecide ==
    /\ At(Router, "decide") /\ Unlock
    /\ IF usecase # {} \/ cur.by = None
         THEN Goto(Router, "switch") /\ UNCHANGED ctlDev
         ELSE Goto(Router, "done") /\ ctlDev' = cur.device
    /\ UNCHANGED <<streamVars, usecase, mixVars, evVars, rtVars, answered, locals, requests>>
(* do_switch_out_devices, under lock_route; without a route for the device   *)
(* it falls back to the device in use.                                       *)
SwitchRoute ==
    /\ At(Router, "switch") /\ Goto(Router, "relock")
    /\ route' \in IF cur.device \in Routable THEN {cur.device}
                  ELSE {route} \cup (Routable \cap {ctlDev})
    /\ UNCHANGED <<streamVars, ctlVars, vbc, evVars, rtVars, answered, locals, requests>>
SelectRelock ==
    /\ At(Router, "relock") /\ ctlLock = None
    /\ ctlDev' = IF cur.device \in Routable THEN cur.device ELSE ctlDev
    /\ Unlock /\ Goto(Router, "done")
    /\ UNCHANGED <<streamVars, usecase, mixVars, evVars, rtVars, answered, locals, requests>>

(* A waiting stream is answered; any other command is freed.                 *)
Answer(cmd) ==
    answered' = IF cmd.by = None THEN answered ELSE [answered EXCEPT ![cmd.by] = @ + 1]
RouterDone ==
    /\ At(Router, "done") /\ Answer(cur) /\ cur' = NoCommand /\ Goto(Router, "top")
    /\ UNCHANGED <<streamVars, ctlVars, mixVars, evVars, rtVars, seen, want, todo, requests>>
RouterDrain ==
    /\ At(Router, "drain") /\ cmds # <<>> /\ Answer(Head(cmds)) /\ cmds' = Tail(cmds)
    /\ UNCHANGED <<streamVars, ctlVars, mixVars, evVars, sem, exit, pc, locals, requests>>
RouterExit ==
    /\ At(Router, "drain") /\ cmds = <<>> /\ Goto(Router, "exited")
    /\ UNCHANGED <<streamVars, ctlVars, mixVars, evVars, rtVars, answered, locals, requests>>

-----------------------------------------------------------------------------
(* adev_close, when every stream is in standby and no call is under way:     *)
(* the routing manager is closed first, the event manager second.            *)
CloseRouting ==
    /\ At(Closer, "idle") /\ At(Setter, "idle") /\ (At(Event, "apply") => todo = {})
    /\ \A s \in Streams : At(s, "idle") /\ ~Playing(s)
    /\ exit' = TRUE /\ Goto(Closer, "post")
    /\ UNCHANGED <<streamVars, ctlVars, mixVars, evVars, cmds, sem, answered, locals, requests>>
ClosePost_Not ==
    /\ At(Closer, "post") /\ Goto(Closer, "join")
    /\ UNCHANGED <<streamVars, ctlVars, mixVars, evVars, rtVars, answered, locals, requests>>
ClosePost ==
    /\ At(Closer, "post") /\ Goto(Closer, "join")
    /\ \/ sem < MaxPosts /\ sem' = sem + 1
       \/ At(Router, "exited") /\ UNCHANGED sem
    /\ UNCHANGED <<streamVars, ctlVars, mixVars, evVars, cmds, exit, answered, locals, requests>>
CloseEvents ==
    /\ At(Closer, "join") /\ At(Router, "exited") /\ evSem < MaxPosts
    /\ evExit' = TRUE /\ evSem' = evSem + 1 /\ Goto(Closer, "joinEvent")
    /\ UNCHANGED <<streamVars, ctlVars, mixVars, events, rtVars, answered, locals, requests>>
Closed ==
    /\ At(Closer, "joinEvent") /\ At(Event, "exited") /\ Goto(Closer, "closed")
    /\ UNCHANGED <<streamVars, ctlVars, mixVars, evVars, rtVars, answered, locals, requests>>

-----------------------------------------------------------------------------
StreamContinues(s) ==
    \/ UsecaseLock(s) \/ UsecaseRefused(s) \/ UsecaseRead(s) \/ UsecaseOn(s)
    \/ UsecaseUnlock(s) \/ SwitchVbcLock(s) \/ SwitchVbcRoute(s) \/ PcmOpen(s)
    \/ SendSync(s) \/ SendPost(s) \/ StartDone(s) \/ Release(s)
    \/ UsecaseTest(s) \/ UsecaseOff(s)
SetterContinues == CreateEvent \/ PostEvent
EventContinues ==
    \/ EventTop \/ EventEmpty \/ EventPop \/ EventWait
    \/ (\E s \in Streams : EventApply(s)) \/ EventSend \/ EventAborts \/ SendPost(Event) \/ EventDrain
RouterContinues ==
    \/ RouterTop \/ RouterEmpty \/ RouterPop \/ RouterWait
    \/ SelectLock \/ SelectIdle \/ SelectSame \/ SelectOther \/ SelectEnable
    \/ SelectNoAccess \/ SelectDecide \/ SwitchRoute \/ SelectRelock
    \/ RouterDone \/ RouterDrain \/ RouterExit
CloserContinues == ClosePost \/ CloseEvents \/ Closed

Next ==
    \/ \E s \in Streams : StartEnter(s) \/ Standby(s) \/ StreamContinues(s)
    \/ Request \/ SetterContinues \/ EventContinues \/ RouterContinues
    \/ CloseRouting \/ CloserContinues

Spec == Init /\ [][Next]_vars

(* A thread inside a call goes on, and the kernel hands a free lock to each  *)
(* of its waiters in the end.  Nobody has to start, stop, ask or close.      *)
Fairness ==
    /\ \A s \in Streams : SF_vars(StreamContinues(s))
    /\ SF_vars(SetterContinues) /\ SF_vars(EventContinues)
    /\ SF_vars(RouterContinues) /\ SF_vars(CloserContinues)
FairSpec == Spec /\ Fairness

-----------------------------------------------------------------------------
Busy == (pc[Event] \in {"apply", "post"}) \/ ~(pc[Router] \in {"top", "look", "wait"})
Settled == events = <<>> /\ cmds = <<>> /\ At(Setter, "idle") /\ ~Busy

\* No thread sleeps on a semaphore while its list holds work and nobody is
\* about to post: neither the routing thread nor the event thread.
NoLostWakeup ==
    /\ At(Router, "wait") /\ sem = 0
         => (cmds = <<>> \/ \E t \in Streams \cup {Event} : At(t, "post")) /\ (exit => At(Closer, "post"))
    /\ At(Event, "wait") /\ evSem = 0 => (events = <<>> \/ At(Setter, "post")) /\ ~evExit

\* A struct switch_device_cmd is freed by the stream that waits for it: its
\* command is in the list or in the hands of the routing thread exactly until
\* the answer, so that none is posted to after free and none is forgotten.
Waiting(s) == pc[s] \in {"post", "wait"} /\ answered[s] = 0
CommandsOwned ==
    \A s \in Streams : Waiting(s) <=> cur.by = s \/ \E i \in DOMAIN cmds : cmds[i].by = s

\* Whatever the order in which requests, starts and stops meet: once all lists
\* are empty, a stream that plays is heard on the device it stands for, if the
\* route table knows all devices and the DSP wakes when asked.
RoutedAsAsked ==
    Settled => \A s \in Streams : Playing(s) /\ At(s, "idle")
                                  => route = dev[s] /\ vbc = dev[s] /\ ctlDev = dev[s]

\* A stream that plays is heard: its start did not return before a route was
\* on, and no late command turns it off.
PlayingIsHeard == \A s \in Streams : Playing(s) => route # None

\* A start or a stop gives out->lock back: the routing thread answers.
StreamReturns == \A s \in Streams : outLock[s] = s ~> outLock[s] = None

\* Every request of the framework reaches the event thread.
RequestServed == events # <<>> ~> events = <<>> \/ At(Event, "aborted")

\* adev_close comes to its end.
CloseCompletes == At(Closer, "post") ~> pc[Closer] \in {"closed", "aborted"}

\* "should add lock if call this function without any locks": the mixer
\* controls are switched from one vbc route to another under actl->lock only.
MixerUnderLock ==
    [][vbc # None /\ vbc' \notin {None, vbc} => ctlLock \in Threads /\ pc'[ctlLock] # pc[ctlLock]]_vars
=============================================================================
