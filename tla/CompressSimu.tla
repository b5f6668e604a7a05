---------------------------- MODULE CompressSimu ----------------------------
(***************************************************************************)
(* The software compress device of the legacy HAL                          *)
(* (normal/compress_simu/compress_simu.c): it has the interface of a       *)
(* compress driver, but a thread of its own decodes the data and feeds the *)
(* PCM device.  Three threads meet in it:                                  *)
(*   player   the framework's thread, in calls of normal/audio_offload.c;  *)
(*            it holds out->lock throughout, except while it is "blocked"; *)
(*   offload  the offload thread of the HAL, in the blocking calls wait,   *)
(*            drain, next_track and partial_drain, without out->lock;      *)
(*   decoder  thread_func.                                                 *)
(* Client calls send commands to the decoder; a synchronous one waits for  *)
(* its answer with compress->lock held.  Data are counted in frames; the   *)
(* decoder looks ten bytes beyond a frame before it takes it, so the last  *)
(* one in the source ring, or the piece of one, stays there.  The position *)
(* counters are kept as differences: pcm is decoded - played, and song is  *)
(* songs_pcm_bytes - played_pcm_bytes, what is left of a song that has     *)
(* been drained.  The PCM device never fails, and its position and the     *)
(* clock are choices in every pass of the decoder.  History variables:     *)
(* due, the frames a drain was called for that are not played yet (a       *)
(* partial drain: not decoded); lost, those of them that the decoder has   *)
(* given up and that never will be; early, the drain may be told of an end *)
(* of data that was noticed before it.                                     *)
(***************************************************************************)
EXTENDS Integers, Sequences

CONSTANTS
    MaxSrc,     \* frames that fit in the source ring
    Fragment,   \* fill level at which the writer is called again
    MaxPcm,     \* frames that fit in pcm_stream
    MaxCmds,    \* bound: a write waits while so many commands are queued
    MaxAsked    \* bound: requests of the framework that are not finished

ASSUME BoundsAssumption ==
    /\ MaxSrc \in Nat \ {0} /\ MaxPcm \in Nat \ {0} /\ Fragment \in Nat
    /\ MaxCmds \in Nat \ {0} /\ MaxAsked \in Nat \ {0}

VARIABLES
    player,         \* what the framework's thread is doing
    standby,        \* its stop is the first half of a standby
    hal,            \* out->audio_offload_state
    asked,          \* out->audio_offload_cmd_list
    offload,        \* where the offload thread is
    lock, posted,   \* compress->lock; sync_sem of the pending command
    state, cmds,    \* compress->state, "closed" without a handle; cmd_list
    decoder, isStart,
    src, pcm, song, noSrc, behind, pending,
    slipped,        \* frames were given up that played_pcm_bytes does not count
    due, lost, early,
    bufferReady, drainOk, partialOk, partialBreak, delayBreak,
    opened, setNext, transition, draining, nextStream, streamBreak,
    client, cur, next

caller == <<player, standby, hal, asked>>
wire == <<lock, posted, state, cmds, decoder>>
data == <<src, pcm, song, noSrc, behind, pending, slipped>>
history == <<due, lost, early>>
flags == <<bufferReady, drainOk, partialOk, partialBreak, delayBreak>>
avail == <<nextStream, streamBreak>>
tracks == <<opened, setNext, client, cur, next>>
gapless == <<tracks, transition, draining, avail>>
vars == <<caller, offload, wire, isStart, data, history, flags, gapless>>

None == -1
Requests == {"wait", "drain", "partial"}
Commands == {"start", "pause", "changeDev", "resume", "stop", "close",
             "drain", "partialDrain", "nextTrack", "sendData"}
PlayerAt == {"idle", "start", "pause", "setDev", "resume", "stop", "blocked",
             "close", "join"}
OffloadAt == {"idle", "wait", "waitSleep", "drain", "drainSync", "drainCheck",
              "drainSleep", "drainWoken", "next", "availSleep", "availWoken",
              "nextSync",
              "partial", "partialSync", "partialCheck", "partialSleep",
              "partialWoken", "delay", "flip", "drained", "finish"}
States == {"open", "start", "pause", "resume", "stop", "exit", "closed"}

ThreadTypes ==
    /\ player \in PlayerAt /\ standby \in BOOLEAN
    /\ hal \in {"stopped", "playing", "paused"} /\ asked \in Seq(Requests)
    /\ offload \in OffloadAt

WireTypes ==
    /\ lock \in {"none", "player", "offload"} /\ posted \in BOOLEAN
    /\ state \in States /\ cmds \in Seq(Commands)
    /\ decoder \in {"top", "sleep", "process", "ok", "noData", "noPcm", "gone"}

DataTypes ==
    /\ isStart \in BOOLEAN /\ noSrc \in BOOLEAN
    /\ behind \in BOOLEAN /\ pending \in BOOLEAN /\ slipped \in BOOLEAN
    /\ src \in 0..MaxSrc /\ pcm \in 0..MaxPcm /\ song \in {None} \cup 0..MaxPcm
    /\ due \in 0..(MaxSrc + MaxPcm) /\ lost \in Nat /\ lost <= due /\ early \in BOOLEAN

FlagTypes ==
    /\ bufferReady \in BOOLEAN /\ drainOk \in BOOLEAN /\ partialOk \in BOOLEAN
    /\ partialBreak \in BOOLEAN /\ delayBreak \in BOOLEAN

TrackTypes ==
    /\ opened \in [1..2 -> BOOLEAN] /\ setNext \in BOOLEAN
    /\ transition \in BOOLEAN /\ draining \in BOOLEAN
    /\ nextStream \in BOOLEAN /\ streamBreak \in BOOLEAN
    /\ client \in 1..2 /\ cur \in 1..2 /\ next \in 0..2

TypeOK == ThreadTypes /\ WireTypes /\ DataTypes /\ FlagTypes /\ TrackTypes

Init ==
    /\ player = "idle" /\ standby = FALSE /\ hal = "stopped" /\ asked = <<>>
    /\ offload = "idle" /\ lock = "none" /\ posted = FALSE
    /\ state = "open" /\ cmds = <<>> /\ decoder = "top" /\ isStart = FALSE
    /\ src = 0 /\ pcm = 0 /\ song = None /\ noSrc = FALSE /\ behind = FALSE
    /\ pending = FALSE /\ slipped = FALSE /\ due = 0 /\ lost = 0 /\ early = FALSE
    /\ bufferReady = FALSE /\ drainOk = FALSE /\ partialOk = FALSE
    /\ partialBreak = FALSE /\ delayBreak = FALSE
    /\ opened = [id \in 1..2 |-> FALSE] /\ setNext = FALSE
    /\ transition = FALSE /\ draining = FALSE
    /\ nextStream = FALSE /\ streamBreak = FALSE
    /\ client = 1 /\ cur = 1 /\ next = 0

Running == state \in {"start", "pause", "resume"}
NextStreamId == 3 - client

\* Mutant: the decoder is not signalled.
Send_NoSignal(c) ==
    /\ cmds' = Append(cmds, c)
    /\ UNCHANGED decoder

\* compress_send_cmd: queue the command and signal the decoder.
Send(c) ==
    /\ cmds' = Append(cmds, c)
    /\ decoder' = IF decoder = "sleep" THEN "top" ELSE decoder

\* A synchronous command of a thread that holds compress->lock until the answer.
SendSync(who, c) ==
    /\ lock = "none"
    /\ lock' = who
    /\ Send(c)
    /\ UNCHANGED posted

\* sem_wait returns; the thread goes on and releases compress->lock.
Answered(who) ==
    /\ lock = who /\ posted
    /\ posted' = FALSE
    /\ UNCHANGED <<state, cmds, decoder>>

MayAsk == Len(asked) + (IF offload = "idle" THEN 0 ELSE 1) < MaxAsked

----------------------------------------------------------------------------
\* The calls of the framework's thread, each with out->lock held.  A call
\* begins when it gets compress->lock.

\* The framework writes to a stream that it has not paused.  Everything fits
\* or nothing is taken; a write that was not taken asks for a callback.
Write ==
    /\ player = "idle" /\ state # "closed" /\ hal # "paused"
    /\ lock = "none" /\ Len(cmds) < MaxCmds
    /\ player' = IF hal = "stopped" THEN "start" ELSE "idle"
    /\ \/ /\ src < MaxSrc
          /\ src' = src + 1
          /\ Send("sendData")
          /\ UNCHANGED asked
       \/ /\ src = MaxSrc /\ MayAsk
          /\ asked' = Append(asked, "wait")
          /\ UNCHANGED <<src, cmds, decoder>>
    /\ UNCHANGED <<standby, hal, offload, lock, posted, state, isStart, pcm,
                   song, noSrc, behind, pending, slipped, history, flags, gapless>>

\* offload_drain: only out->lock is taken.
CallDrain(r) ==
    /\ player = "idle" /\ state # "closed" /\ hal # "paused" /\ MayAsk
    /\ asked' = Append(asked, r)
    /\ UNCHANGED <<player, standby, hal, offload, wire, isStart, data, history, flags, gapless>>

\* The first write of a stream starts it.
Start ==
    /\ player = "start"
    /\ SendSync("player", "start")
    /\ state' = "start"
    /\ UNCHANGED <<caller, offload, isStart, data, history, flags, gapless>>

\* Mutant: the command is not waited for.
Pause_Async ==
    /\ player = "idle" /\ hal = "playing" /\ lock = "none"
    /\ Send("pause")
    /\ state' = "pause" /\ hal' = "paused"
    /\ UNCHANGED <<player, standby, asked, offload, lock, posted, isStart, data,
                   history, flags, gapless>>

Pause ==
    /\ player = "idle" /\ hal = "playing"
    /\ player' = "pause"
    /\ SendSync("player", "pause")
    /\ state' = "pause"
    /\ UNCHANGED <<standby, hal, asked, offload, isStart, data, history, flags, gapless>>

\* compress_set_dev comes before compress_resume; it has nothing to do unless
\* the device has changed.
SetDevice ==
    /\ player = "idle" /\ hal = "paused"
    /\ \/ player' = "setDev" /\ SendSync("player", "changeDev")
       \/ player' = "resume" /\ lock = "none" /\ UNCHANGED <<lock, posted, cmds, decoder>>
    /\ UNCHANGED <<state, standby, hal, asked, offload, isStart, data, history, flags, gapless>>

Resume ==
    /\ player = "resume" /\ state = "pause"
    /\ SendSync("player", "resume")
    /\ state' = "resume"
    /\ UNCHANGED <<caller, offload, isStart, data, history, flags, gapless>>

\* audio_stop_compress_output, of a flush or of a standby.
Stop(forStandby) ==
    /\ player = "idle" /\ state # "closed"
    /\ standby' = forStandby /\ hal' = "stopped"
    /\ IF Running
       THEN player' = "stop" /\ SendSync("player", "stop") /\ state' = "stop"
       ELSE player' = "blocked" /\ lock = "none" /\ UNCHANGED wire
    /\ UNCHANGED <<asked, offload, isStart, data, history, flags, gapless>>

Close ==
    /\ player = "close"
    /\ SendSync("player", "close")
    /\ state' = "exit"
    /\ UNCHANGED <<caller, offload, isStart, data, history, flags, gapless>>

\* What the caller does after its synchronous command.
Return ==
    /\ player \notin {"idle", "blocked", "join"}
    /\ Answered("player")
    /\ lock' = IF player = "close" THEN lock ELSE "none"
    /\ player' = CASE player = "setDev" -> "resume"
                   [] player = "stop" -> "blocked"
                   [] player = "close" -> "join"
                   [] OTHER -> "idle"
    /\ hal' = CASE player \in {"start", "resume"} -> "playing"
                [] player = "pause" -> "paused"
                [] OTHER -> hal
    /\ UNCHANGED <<standby, asked, offload, isStart, data, history, flags, gapless>>

\* Mutant: the thread is not waited for.
Unblocked_NoWait ==
    /\ player = "blocked"
    /\ player' = IF standby THEN "close" ELSE "idle"
    /\ standby' = FALSE
    /\ UNCHANGED <<hal, asked, offload, wire, isStart, data, history, flags, gapless>>

\* audio_stop_compress_output waits, without out->lock, for the offload thread.
Unblocked ==
    /\ player = "blocked" /\ offload = "idle"
    /\ player' = IF standby THEN "close" ELSE "idle"
    /\ standby' = FALSE
    /\ UNCHANGED <<hal, asked, offload, wire, isStart, data, history, flags, gapless>>

\* The decoder has ended: everything is freed.
Join ==
    /\ player = "join" /\ decoder = "gone"
    /\ player' = "idle" /\ state' = "closed" /\ lock' = "none"
    /\ cmds' = <<>> /\ isStart' = FALSE
    /\ src' = 0 /\ pcm' = 0 /\ song' = None /\ noSrc' = FALSE /\ behind' = FALSE
    /\ pending' = FALSE /\ slipped' = FALSE
    /\ due' = 0 /\ lost' = 0 /\ early' = FALSE
    /\ bufferReady' = FALSE /\ drainOk' = FALSE /\ partialOk' = FALSE
    /\ partialBreak' = FALSE /\ delayBreak' = FALSE
    /\ opened' = [id \in 1..2 |-> FALSE] /\ setNext' = FALSE
    /\ transition' = FALSE /\ draining' = FALSE
    /\ nextStream' = FALSE /\ streamBreak' = FALSE
    /\ client' = 1 /\ cur' = 1 /\ next' = 0
    /\ UNCHANGED <<standby, hal, asked, offload, posted, decoder>>

\* The next write opens a new handle.
Open ==
    /\ player = "idle" /\ state = "closed"
    /\ state' = "open" /\ decoder' = "top"
    /\ UNCHANGED <<caller, offload, lock, posted, cmds, isStart, data, history, flags, gapless>>

----------------------------------------------------------------------------
\* The offload thread of the HAL.

OutLockFree == player \in {"idle", "blocked"}

\* A request without a handle is dropped.
TakeRequest ==
    /\ offload = "idle" /\ OutLockFree /\ asked # <<>>
    /\ asked' = Tail(asked)
    /\ offload' = IF state = "closed" THEN "idle"
                  ELSE IF Head(asked) = "partial" THEN "next" ELSE Head(asked)
    /\ due' = 0 /\ lost' = 0 /\ early' = FALSE
    /\ UNCHANGED <<player, standby, hal, wire, isStart, data, flags, gapless>>

\* The callback, and the signal for whoever waits in a stop.
Finish ==
    /\ offload \in {"finish", "drained"} /\ OutLockFree
    /\ offload' = "idle"
    /\ due' = 0 /\ lost' = 0 /\ early' = FALSE
    /\ UNCHANGED <<caller, wire, isStart, data, flags, gapless>>

\* compress_wait
WaitForBuffer ==
    /\ offload = "wait"
    /\ offload' = IF bufferReady THEN "finish" ELSE "waitSleep"
    /\ bufferReady' = FALSE
    /\ UNCHANGED <<caller, wire, isStart, data, history, drainOk, partialOk,
                   partialBreak, delayBreak, gapless>>

\* compress_drain
Drain ==
    /\ offload = "drain"
    /\ IF Running
       THEN /\ SendSync("offload", "drain")
            /\ offload' = "drainSync"
            /\ due' = src + pcm /\ lost' = 0 /\ UNCHANGED early
            /\ UNCHANGED state
       ELSE /\ lock = "none" /\ offload' = "finish"
            /\ UNCHANGED <<wire, history>>
    /\ UNCHANGED <<caller, isStart, data, flags, gapless>>

DrainSent ==
    /\ offload = "drainSync"
    /\ Answered("offload")
    /\ lock' = "none"
    /\ offload' = "drainCheck"
    /\ UNCHANGED <<caller, isStart, data, history, flags, gapless>>

DrainWaits ==
    /\ offload \in {"drainCheck", "drainWoken"}
    /\ offload' = IF offload = "drainWoken" \/ drainOk THEN "drained" ELSE "drainSleep"
    /\ drainOk' = FALSE
    /\ UNCHANGED <<caller, wire, isStart, data, history, bufferReady, partialOk,
                   partialBreak, delayBreak, gapless>>

\* compress_next_track: the other stream is opened; the command is sent.
OpenNext ==
    /\ opened' = [opened EXCEPT ![NextStreamId] = TRUE]
    /\ setNext' = TRUE
    /\ Send("nextTrack")
    /\ lock' = "offload"
    /\ offload' = "nextSync"
    /\ UNCHANGED <<posted, state, client, cur, next>>

\* While the stream that comes next is still the one that fades out, the
\* thread waits for the end of the transition, with compress->lock held.
NextTrack ==
    /\ offload = "next" /\ lock = "none"
    /\ IF Running /\ opened[NextStreamId] /\ transition
       THEN /\ lock' = "offload" /\ nextStream' = TRUE
            /\ offload' = IF streamBreak THEN "availWoken" ELSE "availSleep"
            /\ UNCHANGED <<posted, state, cmds, decoder, tracks, streamBreak>>
       ELSE /\ UNCHANGED avail
            /\ IF Running /\ ~opened[NextStreamId]
               THEN OpenNext
               ELSE offload' = "partial" /\ UNCHANGED <<wire, tracks>>
    /\ UNCHANGED <<caller, isStart, data, history, flags, transition, draining>>

StreamAvailable ==
    /\ offload = "availWoken"
    /\ streamBreak' = FALSE
    /\ IF streamBreak
       THEN offload' = "partial" /\ lock' = "none" /\ UNCHANGED <<posted, state, cmds, decoder, tracks>>
       ELSE OpenNext
    /\ UNCHANGED <<caller, isStart, data, history, flags, transition, draining, nextStream>>

NextTrackSent ==
    /\ offload = "nextSync"
    /\ Answered("offload")
    /\ lock' = "none"
    /\ offload' = "partial"
    /\ UNCHANGED <<caller, isStart, data, history, flags, gapless>>

\* compress_partial_drain
PartialDrain ==
    /\ offload = "partial"
    /\ IF Running
       THEN /\ SendSync("offload", "partialDrain")
            /\ offload' = "partialSync"
            /\ due' = src /\ lost' = 0 /\ UNCHANGED early
            /\ UNCHANGED state
       ELSE /\ lock = "none" /\ offload' = "finish"
            /\ UNCHANGED <<wire, history>>
    /\ UNCHANGED <<caller, isStart, data, flags, gapless>>

PartialDrainSent ==
    /\ offload = "partialSync"
    /\ Answered("offload")
    /\ lock' = "none"
    /\ draining' = TRUE
    /\ early' = (partialOk \/ decoder = "noData" \/ transition \/ ~setNext)
    /\ offload' = "partialCheck"
    /\ UNCHANGED <<caller, isStart, data, due, lost, flags, tracks, transition, avail>>

PartialDrainSleeps ==
    /\ offload = "partialCheck" /\ ~partialOk /\ ~partialBreak
    /\ offload' = "partialSleep"
    /\ UNCHANGED <<caller, wire, isStart, data, history, flags, gapless>>

\* The wait is over; a stop has broken it, or the transition begins.
PartialDrainWaited ==
    /\ \/ offload = "partialWoken"
       \/ offload = "partialCheck" /\ (partialOk \/ partialBreak)
    /\ partialOk' = FALSE /\ partialBreak' = FALSE /\ draining' = FALSE
    /\ IF partialBreak
       THEN offload' = "finish" /\ UNCHANGED transition
       ELSE offload' = "delay" /\ transition' = TRUE
    /\ UNCHANGED <<caller, wire, isStart, data, history, bufferReady, drainOk,
                   delayBreak, tracks, avail>>

\* The timed wait ends by itself or is broken by a stop.
DelayOver ==
    /\ offload = "delay"
    /\ delayBreak' = FALSE
    /\ IF delayBreak
       THEN offload' = "finish" /\ transition' = FALSE
       ELSE offload' = "flip" /\ UNCHANGED transition
    /\ UNCHANGED <<caller, wire, isStart, data, history, bufferReady, drainOk,
                   partialOk, partialBreak, tracks, draining, avail>>

FlipStream ==
    /\ offload = "flip" /\ lock = "none"
    /\ client' = NextStreamId
    /\ offload' = "finish"
    /\ UNCHANGED <<caller, wire, isStart, data, history, flags, opened, setNext,
                   cur, next, transition, draining, avail>>

----------------------------------------------------------------------------
\* The decoder's notifications wake the offload thread where it sleeps.

\* drain_waiting, partial_drain_waiting
DrainWaiting == offload \in {"drainSleep", "drainWoken", "partialSleep", "partialWoken"}

LeftOf(frames, n) == IF frames = None THEN None ELSE IF n < frames THEN frames - n ELSE 0

\* A drain owes what was written before it until it is played, a partial
\* drain until it is decoded.  What is lost is never played.
DrainCalled == offload \in {"drainSync", "drainCheck", "drainSleep", "drainWoken"}

Owed(decoded, played) ==
    LET n == IF DrainCalled THEN played ELSE decoded
    IN  IF n < due - lost THEN due - n ELSE lost

\* The decoder gives up n decoded frames; the oldest are those that are due.
Lost(owed, n) ==
    IF ~DrainCalled THEN lost ELSE IF lost + n < owed THEN lost + n ELSE owed

\* One pass of thread_func takes a command, if there is one, and goes on to
\* audio_process while the device runs.
AfterCommand(runs) == decoder' = IF runs THEN "process" ELSE "top"

\* Mutant: the command that opens the next track is not answered.
Take_Unanswered(c) ==
    /\ decoder = "top" /\ cmds # <<>> /\ Head(cmds) = c
    /\ cmds' = Tail(cmds)
    /\ posted' = (posted \/ c \notin {"sendData", "nextTrack"})
    /\ UNCHANGED <<lock, state>>

Take(c) ==
    /\ decoder = "top" /\ cmds # <<>> /\ Head(cmds) = c
    /\ cmds' = Tail(cmds)
    /\ posted' = (posted \/ c # "sendData")
    /\ UNCHANGED <<lock, state>>

DecoderSleeps ==
    /\ decoder = "top" /\ cmds = <<>> /\ state \in {"open", "pause", "stop"}
    /\ decoder' = "sleep"
    /\ UNCHANGED <<caller, offload, lock, posted, state, cmds, isStart, data, history, flags, gapless>>

\* With nothing more to decode the device may be found stopped; it is opened
\* again, and what it has not played is given to it once more, or given up
\* and counted as played when it is too little to start the device with.
DecoderGoesOn ==
    /\ decoder = "top" /\ cmds = <<>> /\ isStart
    /\ state \notin {"open", "pause", "stop"}
    /\ decoder' = "process"
    /\ \/ UNCHANGED <<pending, pcm, song, lost>>
       \/ pcm > 0 /\ noSrc /\ pending' = TRUE /\ UNCHANGED <<pcm, song, lost>>
       \/ /\ pcm \in 1..(MaxPcm - 1) /\ noSrc /\ pending' = FALSE
          /\ pcm' = 0 /\ song' = LeftOf(song, pcm) /\ lost' = Lost(due, pcm)
    /\ UNCHANGED <<caller, offload, lock, posted, state, cmds, isStart, src,
                   noSrc, behind, slipped, due, early, flags, gapless>>

\* Mutant: a stop does not tell the drains.
DoStop_ForgetsDrains ==
    /\ Take("stop")
    /\ AfterCommand(FALSE)
    /\ isStart' = FALSE
    /\ src' = 0 /\ pcm' = 0 /\ song' = None /\ noSrc' = FALSE
    /\ slipped' = FALSE /\ due' = 0 /\ lost' = 0 /\ early' = FALSE
    /\ bufferReady' = TRUE
    /\ offload' = IF offload = "waitSleep" THEN "wait" ELSE offload
    /\ UNCHANGED <<caller, behind, pending, drainOk, partialOk, partialBreak, delayBreak, gapless>>

\* Everything is dropped and every waiter is told, in one critical section
\* after the other; nobody can start a new wait before the answer.
DoStop ==
    /\ Take("stop")
    /\ AfterCommand(FALSE)
    /\ isStart' = FALSE
    /\ src' = 0 /\ pcm' = 0 /\ song' = None /\ noSrc' = FALSE
    /\ slipped' = FALSE /\ due' = 0 /\ lost' = 0 /\ early' = FALSE
    /\ bufferReady' = TRUE /\ drainOk' = TRUE
    /\ partialBreak' = TRUE /\ delayBreak' = TRUE
    /\ nextStream' = FALSE
    /\ streamBreak' = (streamBreak \/ nextStream)
    /\ offload' = CASE offload = "waitSleep" -> "wait"
                     [] offload = "drainSleep" -> "drainWoken"
                     [] offload = "partialSleep" -> "partialWoken"
                     [] offload = "availSleep" -> "availWoken"
                     [] OTHER -> offload
    /\ UNCHANGED <<caller, behind, pending, partialOk, tracks, transition, draining>>

DoStart ==
    /\ Take("start")
    /\ AfterCommand(TRUE)
    /\ isStart' = TRUE
    /\ pcm' = 0 /\ noSrc' = FALSE /\ behind' = FALSE /\ pending' = FALSE
    /\ drainOk' = FALSE /\ partialOk' = FALSE
    /\ partialBreak' = FALSE /\ delayBreak' = FALSE
    /\ UNCHANGED <<caller, offload, src, song, slipped, history, bufferReady, gapless>>

\* The position is read once more; the data the device has not played stay.
DoPause ==
    /\ Take("pause")
    /\ AfterCommand(FALSE)
    /\ isStart' = FALSE /\ behind' = FALSE
    /\ \E n \in 0..pcm :
          /\ pcm' = pcm - n
          /\ song' = LeftOf(song, n)
          /\ due' = Owed(0, n) /\ UNCHANGED <<lost, early>>
    /\ UNCHANGED <<caller, offload, src, noSrc, pending, slipped, flags, gapless>>

\* The ring of decoded data is replaced by an empty one: its data are lost,
\* and the resume that follows counts them as played.
DoChangeDev ==
    /\ Take("changeDev")
    /\ AfterCommand(isStart)
    /\ pcm' = 0
    /\ song' = LeftOf(song, pcm)
    /\ lost' = Lost(due, pcm)
    /\ UNCHANGED <<caller, offload, isStart, src, noSrc, behind, pending, slipped,
                   due, early, flags, gapless>>

\* The decoded data that are left go to the device again before more is decoded.
DoResume ==
    /\ Take("resume")
    /\ AfterCommand(TRUE)
    /\ isStart' = TRUE /\ behind' = FALSE /\ slipped' = FALSE
    /\ pending' = (pending \/ pcm > 0)
    /\ UNCHANGED <<caller, offload, src, pcm, song, noSrc, history, flags, gapless>>

DoNextTrack ==
    /\ Take("nextTrack")
    /\ AfterCommand(isStart)
    /\ next' = NextStreamId
    /\ UNCHANGED <<caller, offload, isStart, data, history, flags, opened, setNext,
                   client, cur, transition, draining, avail>>

\* drain, partialDrain and sendData only start a pass.
DoNothing ==
    /\ \E c \in {"drain", "partialDrain", "sendData"} : Take(c)
    /\ AfterCommand(isStart)
    /\ early' = (early \/ (Head(cmds) = "drain" /\ drainOk))
    /\ UNCHANGED <<caller, offload, isStart, data, due, lost, flags, gapless>>

DoClose ==
    /\ Take("close")
    /\ decoder' = "gone"
    /\ UNCHANGED <<caller, offload, isStart, data, history, flags, gapless>>

----------------------------------------------------------------------------
\* audio_process

\* compress_gapless_transition_check, once the drained song has been played.
EndTransition ==
    /\ transition' = FALSE
    /\ IF setNext /\ opened[cur]
       THEN setNext' = FALSE /\ opened' = [opened EXCEPT ![cur] = FALSE]
       ELSE UNCHANGED <<setNext, opened>>
    /\ nextStream' = FALSE
    /\ IF next \notin {0, cur}
       THEN cur' = next /\ next' = 0
       ELSE UNCHANGED <<cur, next>>
    /\ UNCHANGED <<client, draining, streamBreak>>

\* The second half of a pass: the device has moved on by n frames since the
\* position was last taken over, and given frames are given up.  Beyond the
\* data there are it counts as one frame more; the position is then not taken
\* over on the early return.  After frames were given up in PassFindsEnd the
\* counters notice the end of a song late, at the latest when the data run out.
Play(decoded, noData, frames, n, given) ==
    LET have == pcm + decoded
        beyond == n > have
        left == LeftOf(frames, n)
        over == transition /\ left \in {None, 0}
        ended == beyond /\ ~transition /\ noSrc'
    IN  \E ends \in BOOLEAN :
        /\ ends => over
        /\ over => ends \/ (slipped /\ ~beyond /\ left = 0)
        /\ pcm' = IF beyond THEN 0 ELSE have - n - given
        /\ song' = IF ends THEN None ELSE LeftOf(left, given)
        /\ behind' = ended
        /\ slipped' = (slipped /\ ~beyond)
        /\ due' = Owed(decoded, n) /\ lost' = Lost(due', given) /\ UNCHANGED early
        /\ decoder' = IF ended THEN "noPcm" ELSE IF noData THEN "noData" ELSE "ok"
        /\ IF ends THEN EndTransition ELSE UNCHANGED gapless
        /\ offload' = IF offload = "waitSleep" /\ bufferReady' THEN "wait"
                      ELSE IF offload = "availSleep" /\ ends THEN "availWoken"
                      ELSE offload

Moves(have) == (IF behind THEN 1 ELSE 0)..(have + 1)

\* Decoded data wait for the device, or there is no room for more; the device
\* does not run dry meanwhile.  When the source has run out and what is left
\* does not make the device start, it is given up and counted as played.
PassBusy(n, given) ==
    /\ decoder = "process" /\ (pending \/ pcm = MaxPcm)
    /\ n \in 0..pcm
    /\ pending' \in BOOLEAN /\ (pending' => pending /\ given = 0 /\ n < pcm)
    /\ given = 0 \/ (pending /\ noSrc /\ given = pcm - n)
    /\ UNCHANGED <<src, noSrc, bufferReady>>
    /\ Play(0, FALSE, song, n, given)
    /\ UNCHANGED <<caller, lock, posted, state, cmds, isStart, drainOk,
                   partialOk, partialBreak, delayBreak>>

\* A frame is decoded when another one follows it.
PassDecodes(n) ==
    /\ decoder = "process" /\ ~pending /\ src > 1 /\ pcm < MaxPcm
    /\ n \in Moves(pcm + 1)
    /\ UNCHANGED pending
    /\ src' = src - 1 /\ noSrc' = FALSE
    /\ bufferReady' = (bufferReady \/ (src' <= Fragment /\ ~DrainWaiting))
    /\ Play(1, FALSE, song, n, 0)
    /\ UNCHANGED <<caller, lock, posted, state, cmds, isStart, drainOk,
                   partialOk, partialBreak, delayBreak>>

OutOfData == decoder = "process" /\ ~pending /\ src <= 1 /\ pcm < MaxPcm

\* A device found stopped is opened again, while a song fades out or a
\* partial drain waits; too little data to start it are given up.
Reopens(n, given) ==
    \/ given = 0 /\ n \in Moves(pcm) /\ pending' = FALSE
    \/ given = 0 /\ n = 0 /\ (transition \/ draining) /\ pending' = (pcm > 0)
    \/ given = pcm /\ n = 0 /\ (transition \/ draining) /\ pending' = FALSE

\* Mutant: the end of the song is not remembered.
PassFindsNoData_Forgets(n, given) ==
    /\ OutOfData /\ (transition \/ draining \/ pcm > 0)
    /\ Reopens(n, given)
    /\ noSrc' = TRUE /\ bufferReady' = TRUE
    /\ Play(0, TRUE, LeftOf(song, given), n, given)
    /\ UNCHANGED <<caller, lock, posted, state, cmds, isStart, src, drainOk,
                   partialOk, partialBreak, delayBreak>>

\* There is nothing more to decode.  A partial drain that waits makes the
\* decoder remember where the song ends.
PassFindsNoData(n, given) ==
    /\ OutOfData /\ (transition \/ draining \/ pcm > 0)
    /\ Reopens(n, given)
    /\ noSrc' = TRUE /\ bufferReady' = TRUE
    /\ LET end == IF setNext /\ draining /\ ~transition THEN pcm ELSE song
       IN  Play(0, TRUE, LeftOf(end, given), n, given)
    /\ UNCHANGED <<caller, lock, posted, state, cmds, isStart, src, drainOk,
                   partialOk, partialBreak, delayBreak>>

\* Mutant: the end is reported while decoded frames are left.
PassFindsEnd_TooEarly ==
    /\ OutOfData /\ ~transition /\ ~draining
    /\ noSrc' = TRUE /\ bufferReady' = TRUE
    /\ offload' = IF offload = "waitSleep" THEN "wait" ELSE offload
    /\ decoder' = "noPcm"
    /\ UNCHANGED <<caller, lock, posted, state, cmds, isStart, src, pcm, song, behind,
                   pending, slipped, history, drainOk, partialOk, partialBreak,
                   delayBreak, gapless>>

\* Nothing is left to decode or to play, or what is left to play has not been
\* played a second after the end of the data was first noticed (end_ts, which
\* only decoding clears, not a pause) and is given up.
PassFindsEnd ==
    /\ OutOfData /\ ~transition /\ ~draining
    /\ pcm = 0 \/ noSrc
    /\ pcm' = 0 /\ song' = LeftOf(song, pcm) /\ lost' = Lost(due, pcm)
    /\ slipped' = (slipped \/ pcm > 0)
    /\ noSrc' = TRUE /\ bufferReady' = TRUE
    /\ offload' = IF offload = "waitSleep" THEN "wait" ELSE offload
    /\ decoder' = "noPcm"
    /\ UNCHANGED <<caller, lock, posted, state, cmds, isStart, src, behind, pending,
                   due, early, drainOk, partialOk, partialBreak, delayBreak, gapless>>

\* Mutant: partial_drain_ok is not cleared.
PassOk_KeepsFlag ==
    /\ decoder = "ok" /\ decoder' = "top"
    /\ UNCHANGED <<caller, offload, lock, posted, state, cmds, isStart, data,
                   history, flags, gapless>>

\* What thread_func makes of the result.
PassOk ==
    /\ decoder = "ok" /\ decoder' = "top"
    /\ partialOk' = FALSE
    /\ UNCHANGED <<caller, offload, lock, posted, state, cmds, isStart, data, history,
                   bufferReady, drainOk, partialBreak, delayBreak, gapless>>

NotifyPartialDrain ==
    /\ decoder = "noData" /\ decoder' = "top"
    /\ partialOk' = TRUE
    /\ offload' = IF offload = "partialSleep" THEN "partialWoken" ELSE offload
    /\ UNCHANGED <<caller, lock, posted, state, cmds, isStart, data, history,
                   bufferReady, drainOk, partialBreak, delayBreak, gapless>>

NotifyDrain ==
    /\ decoder = "noPcm" /\ decoder' = "top"
    /\ drainOk' = TRUE
    /\ offload' = IF offload = "drainSleep" THEN "drainWoken" ELSE offload
    /\ UNCHANGED <<caller, lock, posted, state, cmds, isStart, data, history,
                   bufferReady, partialOk, partialBreak, delayBreak, gapless>>

----------------------------------------------------------------------------

PlayerInside ==
    Start \/ Resume \/ Close \/ Return \/ Unblocked \/ Join

PlayerCalls ==
    \/ Write \/ Pause \/ SetDevice \/ Open
    \/ \E r \in {"drain", "partial"} : CallDrain(r)
    \/ \E b \in BOOLEAN : Stop(b)

OffloadSteps ==
    \/ TakeRequest \/ Finish \/ WaitForBuffer \/ Drain \/ DrainSent \/ DrainWaits
    \/ NextTrack \/ StreamAvailable \/ NextTrackSent \/ PartialDrain
    \/ PartialDrainSent \/ PartialDrainSleeps \/ PartialDrainWaited
    \/ DelayOver \/ FlipStream

DecoderCommands ==
    \/ DoStop \/ DoStart \/ DoPause \/ DoChangeDev \/ DoResume \/ DoNextTrack
    \/ DoNothing \/ DoClose

Passes ==
    \/ \E n \in 0..(MaxPcm + 1), given \in 0..MaxPcm :
          PassBusy(n, given) \/ PassFindsNoData(n, given)
    \/ \E n \in 0..(MaxPcm + 1) : PassDecodes(n)
    \/ PassFindsEnd

DecoderSteps ==
    \/ DecoderSleeps \/ DecoderGoesOn \/ DecoderCommands \/ Passes
    \/ PassOk \/ NotifyPartialDrain \/ NotifyDrain

Next == PlayerCalls \/ PlayerInside \/ OffloadSteps \/ DecoderSteps

Spec == Init /\ [][Next]_vars

----------------------------------------------------------------------------
\* Properties

\* Between two calls of the framework's thread the decoder does what the
\* stream's state says: it runs, with the PCM device open, exactly in a stream
\* that was started or resumed.  The state is written by the callers under
\* compress->lock, the device by the decoder.
StateMatchesDecoder ==
    lock # "player" => (isStart <=> state \in {"start", "resume"})

\* A decoder that sleeps without a timeout has no command to answer, and
\* outside of a call it has given the device back.
PausedIsQuiet ==
    decoder = "sleep" => cmds = <<>> /\ (lock # "player" => ~isStart)

\* Whoever holds compress->lock while it waits for an answer has a command in
\* the list, and the decoder is awake to take it.
AnswerComes ==
    (lock # "none" /\ ~posted /\ player # "join"
        /\ offload \notin {"availSleep", "availWoken"})
    => /\ decoder # "sleep"
       /\ \E i \in DOMAIN cmds : cmds[i] # "sendData"

\* When everybody else is quiet, a drain sleeps only in a paused stream: its
\* wake-up is never lost, neither to the end of the data nor to a stop.
SleeperHasWaker ==
    (decoder = "sleep" /\ lock = "none" /\ offload \in {"drainSleep", "partialSleep"})
    => state = "pause"

\* When a partial drain goes on to the next song, all that was written before
\* it has been decoded but the last frame, which the decoder never takes alone:
\* an end of data noticed earlier does not count, because the commands of the
\* writes in between have each cleared it.
PartialDecoded == offload \in {"delay", "flip"} => due <= 1

\* When a drain returns, every frame written before it has been played or
\* dropped by a stop, but the last one, which is not decoded, and those the
\* decoder gave up (the tail of a stall or of a long pause, of a change of the
\* device, or too little to start it).  Not so if the end had been reported
\* before the decoder took the drain: drain_ok of an underrun survives, and
\* such a drain returns early.
DrainPlaysOut == offload = "drained" /\ ~early => due <= 1 + lost

\* While the drained song fades out the decoder knows where it ends, unless
\* the end of the data was noticed before the drain's flag was up, or a
\* transition that was still running took the mark of the next stream away.
SongHasEnd == (offload = "delay" /\ isStart /\ transition /\ ~early) => song # None

\* The HAL uses the device as CompressDriver allows, although two threads call
\* it: it is started, paused and resumed only from the right state, and freed
\* only when the offload thread has left its blocking call.
DeviceState ==
    CASE state = "closed" -> "closed"
      [] state \in {"start", "resume"} -> "running"
      [] state = "pause" -> "paused"
      [] OTHER -> "setup"
Calling == offload \notin {"idle", "drained", "finish"}
Driver == INSTANCE CompressDriver
    WITH Metadata <- {}, NoMeta <- None, NeedsMetadata <- FALSE,
         device <- DeviceState, metadata <- None,
         call <- IF Calling THEN "pending" ELSE "none"
HalObeysDriver == Driver!DriverSpec

=============================================================================
