--------------------------- MODULE OffloadStream ---------------------------
(***************************************************************************)
(* The compress-offload output stream of the A2DP HAL:                     *)
(*   a2dp_offload_hw/offload_stream/offload_stream.c  (offload thread,     *)
(*     start / stop / standby / drain / flush / pause / resume)            *)
(*   a2dp_offload_hw/offload_stream/out_stream.c      (out_write,          *)
(*     out_standby, sprd_close_output_stream)                              *)
(*                                                                         *)
(* Two kinds of threads call into one stream.  The Player is the playback  *)
(* thread of the framework: it writes, drains, pauses, resumes, flushes,   *)
(* and in the end closes the stream.  A Controller is any other thread of  *)
(* the HAL that forces the stream into standby (the DSP monitor, a         *)
(* set_parameters call); `write' and `standby' reach the stream through    *)
(* the wrapper of audio_a2dp_hw.c, which serialises them with a lock of    *)
(* its own (wlock), the other calls do not.  A fourth thread, the offload  *)
(* thread, executes the blocking driver calls that the commands in cmds    *)
(* ask for.                                                                *)
(*                                                                         *)
(* `lock' is out->lock, `waiters' is the wait set of the ONE condition     *)
(* variable audio_offload_cond, which serves two predicates: "a command    *)
(* is queued" (waited for by the offload thread) and "the offload thread   *)
(* is not inside a driver call" (waited for by whoever stops the stream).  *)
(***************************************************************************)
EXTENDS Naturals, Sequences, FiniteSets

CONSTANTS Player,       \* the playback thread
          Controllers,  \* threads that force standby
          Setters,      \* threads that call set_parameters with new metadata
          Metadata,     \* values of the stream metadata
          DefaultMeta,  \* the metadata of a stream that was put in standby
          NoMeta,       \* the driver has not been given any metadata
          Thread,       \* the offload thread
          None,         \* no owner of a lock
          MaxCmds       \* bound: commands queued by the Player

ASSUME ThreadsAssumption ==
    /\ {Player, Thread, None} \cap (Controllers \cup Setters) = {}
    /\ Player # Thread /\ Player # None /\ Thread # None
    /\ Controllers \cap Setters = {}
ASSUME MetadataAssumption ==
    /\ DefaultMeta \in Metadata
    /\ NoMeta \notin Metadata
ASSUME BoundAssumption == MaxCmds \in Nat \ {0}

Clients == {Player} \cup Controllers
Callers == Clients \cup Setters

VARIABLES
    lock,        \* out->lock
    wlock,       \* sprd_a2dp_stream_out->lock of the wrapper
    waiters,     \* threads asleep on audio_offload_cond
    pc, op,      \* where each client is, and in which call
    tpc, cur,    \* where the offload thread is, and its command
    using,       \* the handle the driver call of the thread runs on
    cmds,        \* audio_offload_cmd_list
    blocked,     \* is_audio_offload_thread_blocked
    state,       \* audio_offload_state
    started,     \* is_offload_compress_started
    standby,     \* out->standby
    standbyFun,  \* out->standby_fun # NULL
    compress,    \* out->compress
    usecase,     \* the UC_BT_OFFLOAD bit of stream_ctl->usecase
    md, needMeta,\* the metadata and is_offload_need_set_metadata
    dev,         \* what the compress driver was last told to do
    devMeta,     \* the metadata the driver was last given
    awaiting,    \* the callback event the Player waits for
    openFailed,  \* the last attempt to open the device failed
    upset        \* history: what came between stream and driver since a stop

lockVars  == <<lock, wlock, waiters>>
callVars  == <<pc, op>>
thrVars   == <<tpc, cur, using>>
streamVars == <<state, started, standby, standbyFun, compress, usecase>>
metaVars  == <<md, needMeta>>
devVars   == <<dev, devMeta>>
ghostVars == <<awaiting, openFailed, upset>>
vars == <<lock, wlock, waiters, pc, op, tpc, cur, using, cmds, blocked,
          state, started, standby, standbyFun, compress, usecase, md, needMeta,
          dev, devMeta, awaiting, openFailed, upset>>

Cmd == {"WAIT_FOR_BUFFER", "PARTIAL_DRAIN", "DRAIN", "EXIT"}
Event(cmd) == IF cmd = "WAIT_FOR_BUFFER" THEN "WRITE_READY" ELSE "DRAIN_READY"

LockTypes ==
    /\ lock \in Clients \cup {Thread, None}
    /\ wlock \in Clients \cup {None}
    /\ waiters \subseteq Clients \cup {Thread}
CallTypes ==
    /\ pc \in [Callers -> {"idle", "start", "meta", "metaClear", "data", "sb",
                           "stop", "check", "waiting", "closeDev", "exitCmd",
                           "join", "release", "closed", "raise"}]
    /\ op \in [Clients -> {"none", "write", "standby", "flush", "close",
                           "destroy"}]
ThreadTypes ==
    /\ tpc \in {"init", "initStarted", "lock", "top", "waiting", "call", "busy",
                "relock", "exited"}
    /\ cur \in Cmd \cup {"NONE"}
    /\ using \in {"none", "null", "open", "dangling"}
    /\ blocked \in BOOLEAN
ListTypes == cmds \in Seq(Cmd)
StreamTypes ==
    /\ state \in {"STOPED", "PLAYING", "PAUSED"}
    /\ started \in BOOLEAN
    /\ standby \in BOOLEAN
    /\ standbyFun \in BOOLEAN
    /\ compress \in {"null", "open"}
    /\ usecase \in BOOLEAN
DriverTypes ==
    /\ md \in Metadata
    /\ needMeta \in BOOLEAN
    /\ dev \in {"closed", "setup", "running", "paused"}
    /\ devMeta \in Metadata \cup {NoMeta}
    /\ awaiting \in {"none", "WRITE_READY", "DRAIN_READY"}
    /\ openFailed \in BOOLEAN
    /\ upset \subseteq {"refused", "reset"}
TypeOK ==
    /\ LockTypes /\ CallTypes /\ ThreadTypes
    /\ ListTypes /\ StreamTypes /\ DriverTypes

(* sprd_open_output_stream: the stream is in standby, the thread created.  *)
Init ==
    /\ lock = None /\ wlock = None /\ waiters = {}
    /\ pc = [c \in Callers |-> "idle"] /\ op = [c \in Clients |-> "none"]
    /\ tpc = "init" /\ cur = "NONE" /\ using = "none"
    /\ cmds = << >> /\ blocked = FALSE
    /\ state = "STOPED" /\ started = FALSE
    /\ standby = TRUE /\ standbyFun = FALSE
    /\ compress = "null" /\ usecase = FALSE
    /\ md = DefaultMeta /\ needMeta = TRUE
    /\ dev = "closed" /\ devMeta = NoMeta
    /\ awaiting = "none" /\ openFailed = FALSE /\ upset = {}

(***************************************************************************)
(* Lock and condition variable.                                            *)
(***************************************************************************)
(* pthread_cond_signal: at most one sleeper is woken, and it may be any.   *)
Signal ==
    IF waiters = {} THEN UNCHANGED waiters
    ELSE \E w \in waiters : waiters' = waiters \ {w}

(* A spurious wake-up, which POSIX allows.                                 *)
SpuriousWakeup ==
    /\ \E w \in waiters : waiters' = waiters \ {w}
    /\ UNCHANGED <<lock, wlock, callVars, thrVars, cmds, blocked, streamVars,
                   metaVars, devVars, ghostVars>>

(* A mutant: no wake-up.                                                   *)
SendCmd_NoSignal(cmd) == cmds' = Append(cmds, cmd) /\ UNCHANGED waiters

(* audio_send_offload_cmd, called with the lock held.                      *)
SendCmd(cmd) == cmds' = Append(cmds, cmd) /\ Signal

(* The stream still accepts calls: nobody has started to close it.         *)
Alive == \A c \in Clients : op[c] \notin {"close", "destroy"} /\ pc[c] # "closed"

Goto(c, label) == pc' = [pc EXCEPT ![c] = label]

(***************************************************************************)
(* Calls that hold the lock over several steps.                            *)
(***************************************************************************)
Enter(c, call, label) ==
    /\ pc[c] = "idle" /\ lock = None /\ Alive
    /\ lock' = c
    /\ op' = [op EXCEPT ![c] = call]
    /\ Goto(c, label)

(* out_write of the wrapper, then of the stream.  The Player does not      *)
(* write before the callback that a short write made it wait for.          *)
Write(c) ==
    /\ awaiting = "none" /\ wlock = None
    /\ Enter(c, "write", IF standby THEN "start" ELSE "meta")
    /\ wlock' = c
    /\ UNCHANGED <<waiters, thrVars, cmds, blocked, streamVars, metaVars,
                   devVars, ghostVars>>

(* out_standby.  The Player gives up waiting for a callback.               *)
Standby(c) ==
    /\ wlock = None
    /\ Enter(c, "standby", IF standbyFun THEN "sb" ELSE "release")
    /\ wlock' = c
    /\ awaiting' = IF c = Player THEN "none" ELSE awaiting
    /\ UNCHANGED <<waiters, thrVars, cmds, blocked, streamVars, metaVars,
                   devVars, openFailed, upset>>

(* offload_flush.                                                          *)
Flush(c) ==
    /\ Enter(c, "flush", IF standby THEN "release" ELSE "stop")
    /\ awaiting' = "none"
    /\ UNCHANGED <<wlock, waiters, thrVars, cmds, blocked, streamVars, metaVars,
                   devVars, openFailed, upset>>

(* sprd_close_output_stream: standby first, then the thread is destroyed.  *)
(* The framework closes a stream that no thread is using any more.         *)
Close(c) ==
    /\ \A d \in Callers : pc[d] = "idle"
    /\ Enter(c, "close", IF standbyFun THEN "sb" ELSE "release")
    /\ awaiting' = "none"
    /\ UNCHANGED <<wlock, waiters, thrVars, cmds, blocked, streamVars, metaVars,
                   devVars, openFailed, upset>>

(* audio_start_compress_output.  The bit of the usecase is set first and   *)
(* is not taken back when the device cannot be opened; out_write then      *)
(* calls standby_fun, if there is one.                                     *)
StartOk(c) ==
    /\ pc[c] = "start"
    /\ usecase' = TRUE /\ compress' = "open" /\ dev' = "setup"
    /\ standbyFun' = TRUE /\ standby' = FALSE /\ openFailed' = FALSE
    /\ Goto(c, "meta")
    /\ UNCHANGED <<lockVars, op, thrVars, cmds, blocked, state, started,
                   metaVars, devMeta, awaiting, upset>>

StartFails(c) ==
    /\ pc[c] = "start"
    /\ usecase' = TRUE /\ compress' = "null" /\ openFailed' = TRUE
    /\ Goto(c, IF standbyFun THEN "sb" ELSE "release")
    /\ UNCHANGED <<lockVars, op, thrVars, cmds, blocked, state, started,
                   standby, standbyFun, metaVars, devVars, awaiting, upset>>

(* out_write_compress, first part: new metadata is sent to the driver and  *)
(* then the flag is cleared, while set_parameters writes both unlocked.    *)
SendMetadata(c) ==
    /\ pc[c] = "meta"
    /\ IF needMeta THEN devMeta' = md /\ Goto(c, "metaClear")
                   ELSE UNCHANGED devMeta /\ Goto(c, "data")
    /\ UNCHANGED <<lockVars, op, thrVars, cmds, blocked, streamVars, metaVars,
                   dev, ghostVars>>

ClearNeedMeta(c) ==
    /\ pc[c] = "metaClear"
    /\ needMeta' = FALSE
    /\ Goto(c, "data")
    /\ UNCHANGED <<lockVars, op, thrVars, cmds, blocked, streamVars, md,
                   devVars, ghostVars>>

(* compress_start, compress_pause, compress_resume: the driver refuses a   *)
(* call that its own state does not allow, and may refuse any other; the   *)
(* stream does not look at the result.                                     *)
Ask(from, to) ==
    \/ dev = from /\ dev' = to /\ UNCHANGED upset
    \/ dev = from /\ UNCHANGED dev /\ upset' = upset \cup {"refused"}
    \/ dev # from /\ UNCHANGED <<dev, upset>>

(* out_write_compress, second part: a short write queues a command, and    *)
(* the device is started whatever offload_write returned.                  *)
StartDevice ==
    IF started THEN UNCHANGED <<started, state, dev, upset>>
    ELSE started' = TRUE /\ state' = "PLAYING" /\ Ask("setup", "running")

WriteFull(c) ==
    /\ pc[c] = "data"
    /\ StartDevice /\ Goto(c, "release")
    /\ UNCHANGED <<lockVars, op, thrVars, cmds, blocked, standby, standbyFun,
                   compress, usecase, metaVars, devMeta, awaiting, openFailed>>

WriteShort(c) ==
    /\ pc[c] = "data"
    /\ Len(cmds) < MaxCmds
    /\ SendCmd("WAIT_FOR_BUFFER")
    /\ awaiting' = "WRITE_READY"
    /\ StartDevice /\ Goto(c, "release")
    /\ UNCHANGED <<lock, wlock, op, thrVars, blocked, standby, standbyFun,
                   compress, usecase, metaVars, devMeta, openFailed>>

WriteFails(c) ==
    /\ pc[c] = "data"
    /\ StartDevice /\ Goto(c, "sb")
    /\ UNCHANGED <<lockVars, op, thrVars, cmds, blocked, standby, standbyFun,
                   compress, usecase, metaVars, devMeta, awaiting, openFailed>>

(* Mutant: the flag is left to the caller. *)
EnterStandby_KeepsFlag(c) ==
    /\ pc[c] = "sb"
    /\ Goto(c, IF standby THEN "release" ELSE "stop")
    /\ UNCHANGED <<lockVars, op, thrVars, cmds, blocked, streamVars, metaVars,
                   devVars, ghostVars>>

(* do_offload_output_standby: nothing to do in standby; otherwise the flag *)
(* is raised BEFORE the device is stopped and closed.                      *)
EnterStandby(c) ==
    /\ pc[c] = "sb"
    /\ standby' = TRUE
    /\ Goto(c, IF standby THEN "release" ELSE "stop")
    /\ UNCHANGED <<lockVars, op, thrVars, cmds, blocked, state, started,
                   standbyFun, compress, usecase, metaVars, devVars, ghostVars>>

(* audio_stop_compress_output.  With no device it neither stops nor waits; *)
(* with one, compress_stop brings the device back to where open left it.   *)
AfterStop(c) ==
    IF op[c] = "flush" THEN "release"
    ELSE IF op[c] = "destroy" THEN "exitCmd"
    ELSE "closeDev"

(* Mutants: the state, or the need for metadata, survives the stop. *)
Stop_KeepsState(c) ==
    /\ pc[c] = "stop"
    /\ started' = FALSE /\ needMeta' = TRUE /\ upset' = {}
    /\ IF compress = "open"
         THEN dev' = "setup" /\ devMeta' = NoMeta /\ Goto(c, "check")
         ELSE UNCHANGED devVars /\ Goto(c, AfterStop(c))
    /\ UNCHANGED <<lockVars, op, thrVars, cmds, blocked, state, standby,
                   standbyFun, compress, usecase, md, awaiting, openFailed>>
Stop_KeepsMetadata(c) ==
    /\ pc[c] = "stop"
    /\ state' = "STOPED" /\ started' = FALSE /\ upset' = {}
    /\ IF compress = "open"
         THEN dev' = "setup" /\ devMeta' = NoMeta /\ Goto(c, "check")
         ELSE UNCHANGED devVars /\ Goto(c, AfterStop(c))
    /\ UNCHANGED <<lockVars, op, thrVars, cmds, blocked, standby, standbyFun,
                   compress, usecase, metaVars, awaiting, openFailed>>

Stop(c) ==
    /\ pc[c] = "stop"
    /\ state' = "STOPED" /\ started' = FALSE /\ needMeta' = TRUE /\ upset' = {}
    /\ IF compress = "open"
         THEN dev' = "setup" /\ devMeta' = NoMeta /\ Goto(c, "check")
         ELSE UNCHANGED devVars /\ Goto(c, AfterStop(c))
    /\ UNCHANGED <<lockVars, op, thrVars, cmds, blocked, standby, standbyFun,
                   compress, usecase, md, awaiting, openFailed>>

(* Mutant: the device is closed under the call of the thread. *)
CheckBlocked_NoWait(c) ==
    /\ pc[c] = "check"
    /\ Goto(c, AfterStop(c))
    /\ UNCHANGED <<lockVars, op, thrVars, cmds, blocked, streamVars, metaVars,
                   devVars, ghostVars>>

(* "wait for finishing processing the command": the wait releases the lock.*)
CheckBlocked(c) ==
    /\ pc[c] = "check"
    /\ IF blocked
         THEN /\ waiters' = waiters \cup {c} /\ lock' = None
              /\ Goto(c, "waiting")
         ELSE UNCHANGED <<waiters, lock>> /\ Goto(c, AfterStop(c))
    /\ UNCHANGED <<wlock, op, thrVars, cmds, blocked, streamVars, metaVars,
                   devVars, ghostVars>>

Wakeup(c) ==
    /\ pc[c] = "waiting" /\ c \notin waiters /\ lock = None
    /\ lock' = c
    /\ Goto(c, "check")
    /\ UNCHANGED <<wlock, waiters, op, thrVars, cmds, blocked, streamVars,
                   metaVars, devVars, ghostVars>>

(* Mutant: set_usecase(UC_BT_OFFLOAD, false) is forgotten. *)
CloseDevice_KeepsUsecase(c) ==
    /\ pc[c] = "closeDev"
    /\ md' = DefaultMeta
    /\ compress' = "null" /\ dev' = "closed" /\ devMeta' = NoMeta
    /\ using' = IF using = "open" THEN "dangling" ELSE using
    /\ Goto(c, "release")
    /\ UNCHANGED <<lockVars, op, tpc, cur, cmds, blocked, state, started,
                   standby, standbyFun, usecase, needMeta, ghostVars>>

(* The rest of do_offload_output_standby.                                  *)
CloseDevice(c) ==
    /\ pc[c] = "closeDev"
    /\ md' = DefaultMeta
    /\ compress' = "null" /\ dev' = "closed" /\ devMeta' = NoMeta
    /\ using' = IF using = "open" THEN "dangling" ELSE using
    /\ usecase' = FALSE
    /\ Goto(c, "release")
    /\ UNCHANGED <<lockVars, op, tpc, cur, cmds, blocked, state, started,
                   standby, standbyFun, needMeta, ghostVars>>

(* Unlock.  out_standby raises the flag once more before it returns; close *)
(* goes on to audio_offload_destroy_thread.                                *)
Return(c) ==
    /\ pc[c] = "release" /\ op[c] # "close"
    /\ lock' = None
    /\ wlock' = IF wlock = c THEN None ELSE wlock
    /\ standby' = (standby \/ (op[c] = "standby" /\ standbyFun))
    /\ op' = [op EXCEPT ![c] = "none"]
    /\ Goto(c, "idle")
    /\ UNCHANGED <<waiters, thrVars, cmds, blocked, state, started, standbyFun,
                   compress, usecase, metaVars, devVars, ghostVars>>

(* sprd_close_output_stream drops the lock and takes it again twice on its *)
(* way to audio_offload_destroy_thread.                                    *)
CloseStandbyDone(c) ==
    /\ pc[c] = "release" /\ op[c] = "close"
    /\ lock' = None
    /\ standby' = (standby \/ standbyFun)
    /\ op' = [op EXCEPT ![c] = "destroy"]
    /\ Goto(c, "idle")
    /\ UNCHANGED <<wlock, waiters, thrVars, cmds, blocked, state, started,
                   standbyFun, compress, usecase, metaVars, devVars, ghostVars>>

DestroyThread(c) ==
    /\ pc[c] = "idle" /\ op[c] = "destroy" /\ lock = None
    /\ lock' = c
    /\ Goto(c, "stop")
    /\ UNCHANGED <<wlock, waiters, op, thrVars, cmds, blocked, streamVars,
                   metaVars, devVars, ghostVars>>

SendExit(c) ==
    /\ pc[c] = "exitCmd"
    /\ SendCmd("EXIT")
    /\ lock' = None
    /\ Goto(c, "join")
    /\ UNCHANGED <<wlock, op, thrVars, blocked, streamVars, metaVars, devVars,
                   ghostVars>>

(* Mutant: close does not join the thread. *)
Join_NoWait(c) ==
    /\ pc[c] = "join"
    /\ Goto(c, "closed")
    /\ UNCHANGED <<lockVars, op, thrVars, cmds, blocked, streamVars, metaVars,
                   devVars, ghostVars>>

Join(c) ==
    /\ pc[c] = "join" /\ tpc = "exited"
    /\ Goto(c, "closed")
    /\ UNCHANGED <<lockVars, op, thrVars, cmds, blocked, streamVars, metaVars,
                   devVars, ghostVars>>

(***************************************************************************)
(* Calls that are one critical section.                                    *)
(***************************************************************************)
Idle(c) == pc[c] = "idle" /\ lock = None /\ Alive

(* offload_pause and offload_resume. *)
Pause(c) ==
    /\ Idle(c)
    /\ compress = "open" /\ state = "PLAYING"
    /\ state' = "PAUSED" /\ Ask("running", "paused")
    /\ UNCHANGED <<lockVars, callVars, thrVars, cmds, blocked, started, standby,
                   standbyFun, compress, usecase, metaVars, devMeta, awaiting, openFailed>>

Resume(c) ==
    /\ Idle(c)
    /\ compress = "open" /\ state = "PAUSED"
    /\ state' = "PLAYING" /\ Ask("paused", "running")
    /\ UNCHANGED <<lockVars, callVars, thrVars, cmds, blocked, started, standby,
                   standbyFun, compress, usecase, metaVars, devMeta, awaiting, openFailed>>

(* offload_drain.  The Player drains when it waits for no other event.     *)
Drain(c, cmd) ==
    /\ Idle(c)
    /\ awaiting = "none" /\ Len(cmds) < MaxCmds
    /\ SendCmd(cmd)
    /\ awaiting' = "DRAIN_READY"
    /\ UNCHANGED <<lock, wlock, callVars, thrVars, blocked, streamVars,
                   metaVars, devVars, openFailed, upset>>

(* audio_get_compress_metadata, reached from out_set_parameters without    *)
(* the lock: the value is stored, then the flag is raised.                 *)
StoreMetadata(s) ==
    /\ pc[s] = "idle" /\ Alive
    /\ md' \in Metadata
    /\ Goto(s, "raise")
    /\ UNCHANGED <<lockVars, op, thrVars, cmds, blocked, streamVars, needMeta,
                   devVars, ghostVars>>

RaiseNeedMeta(s) ==
    /\ pc[s] = "raise"
    /\ needMeta' = TRUE
    /\ Goto(s, "idle")
    /\ UNCHANGED <<lockVars, op, thrVars, cmds, blocked, streamVars, md,
                   devVars, ghostVars>>

(***************************************************************************)
(* audio_offload_thread_loop.                                              *)
(***************************************************************************)
(* The thread resets two fields before it takes the lock, perhaps those of *)
(* a stream that plays by then.                                            *)
ThreadInit ==
    \/ /\ tpc = "init"
       /\ state' = "STOPED" /\ tpc' = "initStarted"
       /\ upset' = IF state = "STOPED" THEN upset ELSE upset \cup {"reset"}
       /\ UNCHANGED started
    \/ /\ tpc = "initStarted"
       /\ started' = FALSE /\ tpc' = "lock"
       /\ upset' = IF started THEN upset \cup {"reset"} ELSE upset
       /\ UNCHANGED state

ThreadStarts ==
    /\ ThreadInit
    /\ UNCHANGED <<lockVars, callVars, cur, using, cmds, blocked, standby,
                   standbyFun, compress, usecase, metaVars, devVars, awaiting,
                   openFailed>>

(* Taking the lock, at first and after pthread_cond_wait.                  *)
ThreadLocks ==
    /\ lock = None
    /\ \/ tpc = "lock"
       \/ tpc = "waiting" /\ Thread \notin waiters
    /\ lock' = Thread /\ tpc' = "top"
    /\ UNCHANGED <<wlock, waiters, callVars, cur, using, cmds, blocked,
                   streamVars, metaVars, devVars, ghostVars>>

ThreadWaits ==
    /\ tpc = "top" /\ cmds = << >>
    /\ waiters' = waiters \cup {Thread} /\ lock' = None /\ tpc' = "waiting"
    /\ UNCHANGED <<wlock, callVars, cur, using, cmds, blocked, streamVars,
                   metaVars, devVars, ghostVars>>

NextCmd(cmd) == tpc = "top" /\ cmds # << >> /\ Head(cmds) = cmd

(* A command that finds no device is dropped, without a callback.          *)
ThreadDrops ==
    /\ \E cmd \in Cmd \ {"EXIT"} : NextCmd(cmd)
    /\ compress = "null"
    /\ cmds' = Tail(cmds)
    /\ Signal
    /\ UNCHANGED <<lock, wlock, callVars, thrVars, blocked, streamVars,
                   metaVars, devVars, ghostVars>>

ThreadTakes ==
    /\ \E cmd \in Cmd \ {"EXIT"} : NextCmd(cmd) /\ cur' = cmd
    /\ compress = "open"
    /\ cmds' = Tail(cmds)
    /\ blocked' = TRUE
    /\ lock' = None /\ tpc' = "call"
    /\ UNCHANGED <<wlock, waiters, callVars, using, streamVars, metaVars,
                   devVars, ghostVars>>

(* The driver call reads out->compress after the unlock.                   *)
ThreadCalls ==
    /\ tpc = "call"
    /\ using' = compress /\ tpc' = "busy"
    /\ UNCHANGED <<lockVars, callVars, cur, cmds, blocked, streamVars, metaVars,
                   devVars, ghostVars>>

(* The driver call returns (the fairness condition says when it must).     *)
ThreadCallReturns ==
    /\ tpc = "busy"
    /\ using' = "none" /\ tpc' = "relock"
    /\ UNCHANGED <<lockVars, callVars, cur, cmds, blocked, streamVars, metaVars,
                   devVars, ghostVars>>

(* Mutants: the waiters, or the callback, are forgotten. *)
ThreadFinishes_NoSignal ==
    /\ tpc = "relock" /\ lock = None
    /\ lock' = Thread
    /\ blocked' = FALSE
    /\ awaiting' = IF awaiting = Event(cur) THEN "none" ELSE awaiting
    /\ cur' = "NONE" /\ tpc' = "top"
    /\ UNCHANGED <<wlock, waiters, callVars, using, cmds, streamVars, metaVars,
                   devVars, openFailed, upset>>
ThreadFinishes_NoCallback ==
    /\ tpc = "relock" /\ lock = None
    /\ lock' = Thread
    /\ blocked' = FALSE
    /\ Signal
    /\ cur' = "NONE" /\ tpc' = "top"
    /\ UNCHANGED <<wlock, callVars, using, cmds, streamVars, metaVars, devVars,
                   ghostVars>>

(* Lock, clear the flag, "send finish processing signal", call back.       *)
ThreadFinishes ==
    /\ tpc = "relock" /\ lock = None
    /\ lock' = Thread
    /\ blocked' = FALSE
    /\ Signal
    /\ awaiting' = IF awaiting = Event(cur) THEN "none" ELSE awaiting
    /\ cur' = "NONE" /\ tpc' = "top"
    /\ UNCHANGED <<wlock, callVars, using, cmds, streamVars, metaVars, devVars,
                   openFailed, upset>>

(* EXIT: the rest of the list is freed.                                    *)
ThreadExits ==
    /\ NextCmd("EXIT")
    /\ cmds' = << >>
    /\ Signal
    /\ lock' = None /\ tpc' = "exited"
    /\ UNCHANGED <<wlock, callVars, cur, using, blocked, streamVars, metaVars,
                   devVars, ghostVars>>

(***************************************************************************)
(* Specification.                                                          *)
(***************************************************************************)
UnderLock(c) ==
    \/ StartOk(c) \/ StartFails(c)
    \/ SendMetadata(c) \/ ClearNeedMeta(c)
    \/ WriteFull(c) \/ WriteShort(c) \/ WriteFails(c)
    \/ EnterStandby(c) \/ Stop(c) \/ CheckBlocked(c) \/ CloseDevice(c)
    \/ Return(c) \/ CloseStandbyDone(c) \/ SendExit(c)

PlayerCalls ==
    \/ Write(Player) \/ Flush(Player) \/ Close(Player)
    \/ Pause(Player) \/ Resume(Player)
    \/ \E cmd \in {"PARTIAL_DRAIN", "DRAIN"} : Drain(Player, cmd)

ClientStep(c) == UnderLock(c) \/ Wakeup(c) \/ DestroyThread(c) \/ Join(c)

ThreadStep ==
    \/ ThreadStarts \/ ThreadLocks \/ ThreadWaits
    \/ ThreadDrops \/ ThreadTakes \/ ThreadCalls \/ ThreadCallReturns
    \/ ThreadFinishes \/ ThreadExits

Next ==
    \/ PlayerCalls
    \/ \E c \in Clients : Standby(c) \/ ClientStep(c)
    \/ \E s \in Setters : StoreMetadata(s) \/ RaiseNeedMeta(s)
    \/ ThreadStep
    \/ SpuriousWakeup

Spec == Init /\ [][Next]_vars

(* Threads that can run do run, a mutex is granted in the end to a thread  *)
(* that keeps asking for it, and a driver call returns unless the device   *)
(* is paused or the driver refused to start it: compress_stop ends a wait  *)
(* or a drain, playing completes it.  Nothing obliges a client to make a   *)
(* call.                                                                   *)
Proceeds == dev # "paused" /\ (dev = "setup" => upset = {})

Fairness ==
    /\ \A c \in Clients : WF_vars(UnderLock(c) \/ Join(c))
                          /\ SF_vars(Wakeup(c)) /\ SF_vars(DestroyThread(c))
    /\ WF_vars(ThreadStarts \/ ThreadWaits \/ ThreadDrops \/ ThreadTakes
               \/ ThreadCalls \/ ThreadExits)
    /\ WF_vars(ThreadCallReturns /\ Proceeds)
    /\ SF_vars(ThreadLocks) /\ SF_vars(ThreadFinishes)

FairSpec == Spec /\ Fairness

(***************************************************************************)
(* Safety.                                                                 *)
(***************************************************************************)
(* A driver call of the offload thread runs on an open device: nobody      *)
(* closes the device, or finds it already closed, while the thread is      *)
(* inside the call, although the thread holds no lock there.               *)
CallHandleLive ==
    /\ using # "dangling"
    /\ tpc = "busy" => using = "open"

(* A write that got past the standby test writes to an open device, also   *)
(* when a standby or a flush of another thread slept in between.           *)
WriteHasDevice ==
    \A c \in Clients :
        pc[c] \in {"meta", "metaClear", "data"} => compress = "open" /\ ~standby

(* Whenever no thread is inside the stream, it is in standby exactly when  *)
(* its device is closed; and the device is open only while the usecase     *)
(* keeps the DSP awake and the route on.  The bit of the usecase outlives  *)
(* the device only after a failed open.                                    *)
StandbyMatchesHandle ==
    (lock = None /\ \A c \in Clients : pc[c] # "waiting") =>
        /\ standby <=> compress = "null"
        /\ compress = "open" => usecase
        /\ usecase /\ compress = "null" => openFailed

(* The state the stream believes in is the one the driver is in.           *)
SameState ==
    /\ state = "PLAYING" <=> dev = "running"
    /\ state = "PAUSED" <=> dev = "paused"

(* Stream and driver agree, through writes, pauses, flushes and standbys   *)
(* of all threads, unless since the last stop the driver refused a call or *)
(* the new thread reset the state late: the stream ignores every result,   *)
(* and each of its stops, a flush or a standby, makes both agree again.    *)
(* (After a late reset of a paused stream the next write starts the paused *)
(* device, in vain, and the stream believes that it plays.)                *)
StateMatchesDevice == upset = {} => SameState

(* The driver is never running without metadata: a stop, which drops the   *)
(* metadata in the driver, makes the next write send it again.  (It        *)
(* follows from ObeysDriver, which the run checks in its place.)           *)
PlayingHasMetadata == dev \in {"running", "paused"} => devMeta # NoMeta

(* The stream uses the compress device as CompressDriver allows, although  *)
(* the offload thread makes its calls without the lock, and a flush, a     *)
(* forced standby or a pause may come between any two of its steps: no     *)
(* close under a call, no second open, no start without metadata.          *)
Driver == INSTANCE CompressDriver
    WITH device <- dev, metadata <- devMeta, NeedsMetadata <- TRUE,
         call <- IF using = "none" THEN "none" ELSE "pending"
ObeysDriver == Driver!DriverSpec

(* When close has returned, the thread is gone, nobody sleeps on the       *)
(* condition variable that was destroyed, the device is closed, and no     *)
(* command was left behind.                                                *)
ClosedIsClean ==
    pc[Player] = "closed" =>
        /\ tpc = "exited" /\ waiters = {} /\ cmds = << >>
        /\ compress = "null" /\ standby /\ lock = None

(* The offload thread does not sleep on a queued command, and whoever      *)
(* waits for it to finish a command sleeps only while it is inside one.    *)
NoLostWakeup ==
    /\ Thread \in waiters => cmds = << >>
    /\ \A c \in Clients : c \in waiters => blocked

(* Two threads stop the stream at the same time: the one signal per event  *)
(* may then wake the wrong one.                                            *)
Rivals == \E c, d \in Clients : c # d /\ {pc[c], pc[d]} \subseteq {"check", "waiting"}

(* No wake-up is lost as long as one thread at a time stops the stream,    *)
(* although two predicates share one condition variable and each event     *)
(* signals once.                                                           *)
LoneWakeups == []~Rivals => []NoLostWakeup

(***************************************************************************)
(* Liveness.                                                               *)
(***************************************************************************)
(* Whoever stops the stream gets out again, unless the Player goes on for  *)
(* ever asking for drains while it waits: the comments of the code say     *)
(* that the offload thread, when it has processed its command, awakens     *)
(* "where is waiting for this information".                                *)
StopReturns ==
    <>[](cmds = << >>) =>
        \A c \in Clients : pc[c] = "stop" ~> pc[c] \in {"idle", "closed"}

(* ... if it is the only one to stop it.                                   *)
LoneStopReturns == []~Rivals => StopReturns

(* A close that was begun ends, with the thread joined.                    *)
CloseCompletes == op[Player] = "close" ~> pc[Player] = "closed"
LoneCloseCompletes == []~Rivals => CloseCompletes

(* A Player that made a short write, or asked for a drain, on an open      *)
(* device gets its callback, unless it pauses the device or gives up, or   *)
(* the driver refused to start the device.                                 *)
CallbackArrives ==
    \A e \in {"WRITE_READY", "DRAIN_READY"} :
        (awaiting = e /\ compress = "open")
            ~> (awaiting # e \/ ~Proceeds)

(* The callback arrives if no other thread forces the stream to standby.   *)
Unforced == \A c \in Controllers : pc[c] = "idle"
UnforcedCallback == []Unforced => CallbackArrives
=============================================================================
