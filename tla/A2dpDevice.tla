----------------------------- MODULE A2dpDevice -----------------------------
(***************************************************************************)
(* The wrapper device of the A2DP HAL, a2dp_offload_hw/audio_a2dp_hw.c,    *)
(* and the thread that listens to the DSP, dsp_monitor.c.                  *)
(*                                                                         *)
(* A wrapper stream drives two inner streams, the one of the Bluetooth     *)
(* stack (default_output) and the one of the sound card (data_output).     *)
(* Every reason to silence A2DP (SCO, suspend, call, VoIP, FM, disconnect, *)
(* a DSP crash) raises a flag in a critical section of its own; then       *)
(* check_a2dp_suspend looks at all flags, sets `bypass' and puts the       *)
(* active streams in standby.                                              *)
(*                                                                         *)
(* Lock order: sprd_adev->lock before out->lock.  A critical section that  *)
(* takes no further lock and does not block is one step.                   *)
(***************************************************************************)
EXTENDS Naturals, Sequences, FiniteSets

CONSTANTS Streams,      \* wrapper streams, each with the thread that plays it
          Offload,      \* the streams opened with COMPRESS_OFFLOAD
          Controllers,  \* threads that call set_parameters
          Monitor,      \* the DSP monitor thread
          None,
          Keys          \* the keys of set_parameters, in the order it looks for them

Threads == Streams \cup Controllers \cup {Monitor}

\* What each key of adev_set_parameters raises and drops.
Effects == [A2dpSuspended   |-> {[up |-> {"suspended"}, down |-> {}], [up |-> {}, down |-> {"suspended"}]},
            BT_SCO          |-> {[up |-> {"sco"}, down |-> {}], [up |-> {}, down |-> {"sco"}]},
            disconnect      |-> {[up |-> {"disconnected"}, down |-> {"sco", "suspended"}]},
            connect         |-> {[up |-> {}, down |-> {"disconnected"}]},
            handleFm        |-> {[up |-> {"fm"}, down |-> {}], [up |-> {}, down |-> {"fm"}]},
            a2dp_voip_start |-> {[up |-> {"voip"}, down |-> {}], [up |-> {}, down |-> {"voip"}]},
            setMode         |-> {[up |-> {"inCall"}, down |-> {}], [up |-> {}, down |-> {"inCall"}]}]
Reasons == {"suspended", "sco", "disconnected", "fm", "voip", "inCall", "force"}

ASSUME StreamsAssumption == Offload \subseteq Streams
ASSUME ThreadsAssumption ==
    /\ Streams \cap Controllers = {}
    /\ Monitor \notin Streams \cup Controllers
    /\ None \notin Threads
ASSUME KeysAssumption == Keys \in Seq(DOMAIN Effects)

VARIABLES
    adev,      \* who holds sprd_adev->lock
    outLock,   \* who holds out->lock of each stream
    active,    \* active_offload_stream and active_pcm_stream
    raised,    \* the flags that ask for silence
    bypass,    \* sprd_adev->bypass
    standby,   \* out->standby
    on,        \* the inner streams that play
    open,      \* the streams that are not closed
    pc, at,    \* where each thread is; the next key a controller looks for
    dirty,     \* check_a2dp_status of a set_parameters call
    msg,       \* the message the monitor handles
    timedOut,  \* dsp_assert_time_out
    bthal,     \* the state reported to the audio pipe
    untold,    \* history: the last report failed
    crossed    \* history: streams restarted by a write that had passed the
               \* bypass test before they were put in standby

lockVars == <<adev, outLock>>
flagVars == <<raised, bypass>>
streamVars == <<standby, on, crossed>>
callVars == <<pc, at, dirty>>
monVars == <<msg, timedOut, bthal, untold>>
vars == <<adev, outLock, active, raised, bypass, standby, on, open, pc, at,
          dirty, msg, timedOut, bthal, untold, crossed>>

Kinds == {"offload", "pcm"}
KindOf(s) == IF s \in Offload THEN "offload" ELSE "pcm"
Inner == {"default", "data"}
Messages == {"TIMEOUT", "ASSERT", "ASSERT_EPIPE", "STATUS_CHECK", "BOOT_OK"}

TypeOK ==
    /\ adev \in Threads \cup {None}
    /\ outLock \in [Streams -> Streams \cup {None}]
    /\ active \in [Kinds -> Streams \cup {None}]
    /\ raised \subseteq Reasons /\ bypass \in BOOLEAN
    /\ standby \in [Streams -> BOOLEAN]
    /\ on \in [Streams -> SUBSET Inner]
    /\ open \subseteq Streams /\ crossed \subseteq Streams
    /\ pc \in [Threads -> {"idle", "bypassTest", "gap", "write", "standby", "clear",
                           "close", "closed", "keys", "check", "checkPcm",
                           "checkOffload", "flag", "pipe"}]
    /\ at \in [Controllers -> 1 .. Len(Keys) + 1]
    /\ dirty \in [Controllers -> BOOLEAN]
    /\ msg \in Messages \cup {"NET_MSG"} /\ timedOut \in BOOLEAN
    /\ bthal \in {"running", "idle"} /\ untold \in BOOLEAN

Goto(t, where) == pc' = [pc EXCEPT ![t] = where]

Init ==
    /\ adev = None /\ outLock = [s \in Streams |-> None]
    /\ active = [k \in Kinds |-> None]
    /\ raised = {} /\ bypass = FALSE
    /\ standby = [s \in Streams |-> FALSE] /\ on = [s \in Streams |-> {}]
    /\ open = Streams /\ crossed = {}
    /\ pc = [t \in Threads |-> "idle"]
    /\ at = [c \in Controllers |-> 1] /\ dirty = [c \in Controllers |-> FALSE]
    /\ msg = "NET_MSG" /\ timedOut = FALSE /\ bthal = "running" /\ untold = FALSE

-----------------------------------------------------------------------------
(* A stream is left without its inner streams running.  A stream whose       *)
(* standby flag is set already is left alone.                                *)
OutStandby(s) ==
    /\ on' = [on EXCEPT ![s] = IF standby[s] THEN @ ELSE {}]
    /\ standby' = [standby EXCEPT ![s] = TRUE]

(* out_write: the first critical section, under both locks ...               *)
WriteEnter(s) ==
    /\ pc[s] = "idle" /\ s \in open /\ adev = None
    /\ adev' = s /\ Goto(s, "bypassTest")
    /\ UNCHANGED <<outLock, active, flagVars, streamVars, open, at, dirty, monVars>>

OtherActive_Ignored(s) == FALSE
OtherActive(s) == active[KindOf(s)] \notin {None, s}

(* ... ends with the write thrown away, or goes on to the second section.    *)
Bypassed(s) ==
    /\ pc[s] = "bypassTest" /\ outLock[s] = None
    /\ bypass \/ OtherActive(s)
    /\ adev' = None /\ Goto(s, "idle")
    /\ UNCHANGED <<outLock, active, flagVars, streamVars, open, at, dirty, monVars>>
NotBypassed(s) ==
    /\ pc[s] = "bypassTest" /\ outLock[s] = None
    /\ ~bypass /\ ~OtherActive(s)
    /\ standby' = [standby EXCEPT ![s] = FALSE]
    /\ active' = [active EXCEPT ![KindOf(s)] = s]
    /\ adev' = None /\ Goto(s, "gap")
    /\ UNCHANGED <<outLock, flagVars, on, crossed, open, at, dirty, monVars>>

(* Between the two sections the stream holds no lock.                        *)
WriteRelock(s) ==
    /\ pc[s] = "gap" /\ outLock[s] = None
    /\ outLock' = [outLock EXCEPT ![s] = s] /\ Goto(s, "write")
    /\ UNCHANGED <<adev, active, flagVars, streamVars, open, at, dirty, monVars>>

(* The inner writes: a failure of the first leaves the second out.           *)
InnerWrite(s) ==
    /\ pc[s] = "write"
    /\ \E ok \in {{}, {"default"}, Inner} :
         /\ on' = [on EXCEPT ![s] = @ \cup ok]
         /\ crossed' = IF standby[s] /\ ok # {} THEN crossed \cup {s} ELSE crossed
    /\ outLock' = [outLock EXCEPT ![s] = None] /\ Goto(s, "idle")
    /\ UNCHANGED <<adev, active, flagVars, standby, open, at, dirty, monVars>>

(* out_standby: the stream first, the device's pointers in a section of      *)
(* their own after it.                                                       *)
StandbyEnter(s) ==
    /\ pc[s] = "idle" /\ s \in open /\ outLock[s] = None
    /\ outLock' = [outLock EXCEPT ![s] = s] /\ Goto(s, "standby")
    /\ UNCHANGED <<adev, active, flagVars, streamVars, open, at, dirty, monVars>>

StandbyInner_KeepsLock(s) ==
    /\ pc[s] = "standby"
    /\ OutStandby(s) /\ Goto(s, "clear")
    /\ UNCHANGED <<outLock, adev, active, flagVars, crossed, open, at, dirty, monVars>>
StandbyInner(s) ==
    /\ pc[s] = "standby"
    /\ OutStandby(s)
    /\ outLock' = [outLock EXCEPT ![s] = None] /\ Goto(s, "clear")
    /\ UNCHANGED <<adev, active, flagVars, crossed, open, at, dirty, monVars>>

Forget(s) == active' = [k \in Kinds |-> IF active[k] = s THEN None ELSE active[k]]

StandbyClear(s) ==
    /\ pc[s] = "clear" /\ adev = None
    /\ Forget(s) /\ Goto(s, "idle")
    /\ UNCHANGED <<lockVars, flagVars, streamVars, open, at, dirty, monVars>>

(* out_set_parameters with closing, A2dpSuspended or disconnect, called by   *)
(* the playing thread or on its behalf.                                      *)
StreamParams(s) ==
    /\ pc[s] = "idle" /\ s \in open /\ adev = None /\ outLock[s] = None
    /\ OutStandby(s)
    /\ UNCHANGED <<lockVars, active, flagVars, crossed, open, callVars, monVars>>

(* adev_close_output_stream: the inner streams are closed and the memory     *)
(* freed with only sprd_adev->lock held.                                     *)
CloseEnter(s) ==
    /\ pc[s] = "idle" /\ s \in open /\ adev = None
    /\ adev' = s /\ Goto(s, "close")
    /\ UNCHANGED <<outLock, active, flagVars, streamVars, open, at, dirty, monVars>>

Close_KeepsPointer(s) ==
    /\ pc[s] = "close"
    /\ on' = [on EXCEPT ![s] = {}] /\ crossed' = crossed \ {s}
    /\ open' = open \ {s}
    /\ adev' = None /\ Goto(s, "closed")
    /\ UNCHANGED <<outLock, active, flagVars, standby, at, dirty, monVars>>
Close(s) ==
    /\ pc[s] = "close"
    /\ on' = [on EXCEPT ![s] = {}] /\ crossed' = crossed \ {s}
    /\ Forget(s) /\ open' = open \ {s}
    /\ adev' = None /\ Goto(s, "closed")
    /\ UNCHANGED <<outLock, flagVars, standby, at, dirty, monVars>>

-----------------------------------------------------------------------------
(* adev_set_parameters: the keys present are handled in order, each in a     *)
(* critical section of its own.                                              *)
ParamsEnter(c) ==
    /\ pc[c] = "idle" /\ Goto(c, "keys")
    /\ UNCHANGED <<lockVars, active, flagVars, streamVars, open, at, dirty, monVars>>

\* setMode calls adev_set_mode, which checks before the next key is looked at.
SetFlag(c) ==
    /\ pc[c] = "keys" /\ adev = None
    /\ \E i \in at[c] .. Len(Keys) : \E e \in Effects[Keys[i]] :
         /\ raised' = (raised \ e.down) \cup e.up
         /\ at' = [at EXCEPT ![c] = i + 1]
         /\ IF Keys[i] = "setMode"
            THEN Goto(c, "check") /\ UNCHANGED dirty
            ELSE dirty' = [dirty EXCEPT ![c] = TRUE] /\ UNCHANGED pc
    /\ UNCHANGED <<lockVars, active, bypass, streamVars, open, monVars>>

ParamsDone_NoCheck(c) ==
    /\ pc[c] = "keys" /\ Goto(c, "idle")
    /\ at' = [at EXCEPT ![c] = 1] /\ dirty' = [dirty EXCEPT ![c] = FALSE]
    /\ UNCHANGED <<lockVars, active, flagVars, streamVars, open, monVars>>
ParamsDone(c) ==
    /\ pc[c] = "keys"
    /\ Goto(c, IF dirty[c] THEN "check" ELSE "idle")
    /\ at' = [at EXCEPT ![c] = 1] /\ dirty' = [dirty EXCEPT ![c] = FALSE]
    /\ UNCHANGED <<lockVars, active, flagVars, streamVars, open, monVars>>

-----------------------------------------------------------------------------
(* check_a2dp_suspend, which holds sprd_adev->lock from end to end: no       *)
(* reason left, or one, and then the active streams are put in standby.      *)
\* Where check_a2dp_suspend returns to; at is back at 1 when the last key is
\* done, so a controller with a larger one was called by adev_set_mode.
Caller(t) == IF t = Monitor THEN "pipe" ELSE IF at[t] > 1 THEN "keys" ELSE "idle"

CheckClear(t) ==
    /\ pc[t] = "check" /\ adev = None /\ raised = {}
    /\ bypass' = FALSE /\ Goto(t, Caller(t))
    /\ UNCHANGED <<lockVars, active, raised, streamVars, open, at, dirty, monVars>>

CheckRaised_LeavesStreams(t) ==
    /\ pc[t] = "check" /\ adev = None /\ raised # {}
    /\ bypass' = TRUE /\ Goto(t, Caller(t))
    /\ UNCHANGED <<lockVars, active, raised, streamVars, open, at, dirty, monVars>>
CheckRaised(t) ==
    /\ pc[t] = "check" /\ adev = None /\ raised # {}
    /\ bypass' = TRUE /\ adev' = t /\ Goto(t, "checkPcm")
    /\ UNCHANGED <<outLock, active, raised, streamVars, open, at, dirty, monVars>>

SilenceActive(kind) ==
    LET s == active[kind] IN
    IF s = None THEN UNCHANGED <<standby, on>>
    ELSE outLock[s] = None /\ OutStandby(s)

CheckPcm(t) ==
    /\ pc[t] = "checkPcm" /\ SilenceActive("pcm") /\ Goto(t, "checkOffload")
    /\ UNCHANGED <<lockVars, active, flagVars, crossed, open, at, dirty, monVars>>
CheckOffload(t) ==
    /\ pc[t] = "checkOffload" /\ SilenceActive("offload")
    /\ adev' = None /\ Goto(t, Caller(t))
    /\ UNCHANGED <<outLock, active, flagVars, crossed, open, at, dirty, monVars>>

-----------------------------------------------------------------------------
(* agdsp_msg_process.  A TIMEOUT falls through to the case of an ASSERT; an  *)
(* ASSERT_EPIPE after it is waited out and ignored.                          *)
Receive ==
    /\ pc[Monitor] = "idle"
    /\ \E m \in Messages :
         IF m = "ASSERT_EPIPE" /\ timedOut
         THEN UNCHANGED <<pc, msg, timedOut>>
         ELSE /\ msg' = m /\ Goto(Monitor, "flag")
              /\ timedOut' = (m = "TIMEOUT" \/ (timedOut /\ m \notin {"STATUS_CHECK", "BOOT_OK"}))
    /\ UNCHANGED <<lockVars, active, flagVars, streamVars, open, at, dirty, bthal, untold>>

Recovered == msg \in {"STATUS_CHECK", "BOOT_OK"}

(* adev_a2dp_force_stanby                                                    *)
ForceStandby_NotOnEpipe ==
    /\ pc[Monitor] = "flag" /\ adev = None
    /\ raised' = IF Recovered THEN raised \ {"force"} ELSE IF msg = "ASSERT_EPIPE" THEN raised ELSE raised \cup {"force"}
    /\ Goto(Monitor, "check")
    /\ UNCHANGED <<lockVars, active, bypass, streamVars, open, at, dirty, monVars>>
ForceStandby ==
    /\ pc[Monitor] = "flag" /\ adev = None
    /\ raised' = IF Recovered THEN raised \ {"force"} ELSE raised \cup {"force"}
    /\ Goto(Monitor, "check")
    /\ UNCHANGED <<lockVars, active, bypass, streamVars, open, at, dirty, monVars>>

(* AUDIO_PIPE_BTHAL_STATE_SET: when the ioctl fails the error is logged.     *)
ReportState ==
    /\ pc[Monitor] = "pipe"
    /\ \/ bthal' = (IF Recovered THEN "running" ELSE "idle") /\ untold' = FALSE
       \/ UNCHANGED bthal /\ untold' = TRUE
    /\ msg' = "NET_MSG" /\ Goto(Monitor, "idle")
    /\ UNCHANGED <<lockVars, active, flagVars, streamVars, open, at, dirty, timedOut>>

-----------------------------------------------------------------------------
StreamContinues(s) ==
    \/ Bypassed(s) \/ NotBypassed(s) \/ WriteRelock(s) \/ InnerWrite(s)
    \/ StandbyInner(s) \/ StandbyClear(s) \/ Close(s)
StreamCalls(s) ==
    WriteEnter(s) \/ StandbyEnter(s) \/ StreamParams(s) \/ CloseEnter(s)
CheckContinues(t) == CheckClear(t) \/ CheckRaised(t) \/ CheckPcm(t) \/ CheckOffload(t)
ParamsContinue(c) == SetFlag(c) \/ ParamsDone(c) \/ CheckContinues(c)
MonitorContinues == ForceStandby \/ ReportState \/ CheckContinues(Monitor)

Next ==
    \/ \E s \in Streams : StreamCalls(s) \/ StreamContinues(s)
    \/ \E c \in Controllers : ParamsEnter(c) \/ ParamsContinue(c)
    \/ Receive \/ MonitorContinues

Spec == Init /\ [][Next]_vars

(* A thread inside a call goes on, and the kernel hands a lock that is free  *)
(* again and again to each of its waiters; nobody has to make another call.  *)
Fairness ==
    /\ \A s \in Streams : SF_vars(StreamContinues(s))
    /\ \A c \in Controllers : SF_vars(ParamsContinue(c))
    /\ SF_vars(MonitorContinues)
FairSpec == Spec /\ Fairness

-----------------------------------------------------------------------------
\* Threads that will look at the flags again before their call returns.
Checking == {c \in Controllers : (pc[c] = "keys" /\ dirty[c]) \/ pc[c] = "check"}
              \cup (IF pc[Monitor] = "check" THEN {Monitor} ELSE {})
InCheck == {t \in Threads : pc[t] \in {"checkPcm", "checkOffload"}}

\* The bypass flag is the disjunction of all reasons, whatever the order in
\* which several threads raise and drop them, once nobody has a check to do.
BypassCurrent == Checking = {} => (bypass <=> raised # {})

\* While there is a reason for silence and no check is under way no inner
\* stream plays, except one restarted by a write that had passed the bypass
\* test before.
QuietWhenBypassed ==
    Checking \cup InCheck = {} /\ raised # {}
      => \A s \in Streams : on[s] # {} => s \in crossed

\* After a DSP crash the bypass holds until recovery is handled, whatever other
\* threads raise, drop and check meanwhile; and what the pipe tells the driver
\* about the Bluetooth HAL is true again after each report that did not fail.
PipeTellsTruth ==
    pc[Monitor] = "idle" =>
        /\ "force" \in raised => bypass
        /\ ~untold => (bthal = "idle" <=> "force" \in raised)

\* Two streams of one kind never play together, unless one was restarted.
OneStreamPerKind ==
    \A s, t \in Streams : s # t /\ KindOf(s) = KindOf(t) /\ on[s] # {} /\ on[t] # {}
                            => {s, t} \cap crossed # {}

\* Nobody reaches a stream that is freed: not the device's pointers, not a
\* thread that holds or waits for its lock.
ClosedUnused ==
    \A s \in Streams \ open : /\ outLock[s] = None /\ on[s] = {}
                              /\ \A k \in Kinds : active[k] # s

\* Every call returns: the two locks are taken in one order, and released.
CallsReturn ==
    \A t \in Threads : pc[t] \notin {"idle", "closed"} ~> pc[t] \in {"idle", "closed"}

\* "force all standby": once the monitor has handled a crash of the DSP, no
\* inner stream plays.
AllInStandby == pc[Monitor] = "idle" /\ "force" \in raised => \A s \in Streams : on[s] = {}
=============================================================================
