# TLA+ models of the Spreadtrum audio HAL

This directory holds TLA+ specifications of the parts of the audio HAL whose
correctness depends on how threads, locks, queues and failures interleave, the
TLC configurations that check them on small instances, and TLAPS proofs of the
properties that hold for every instance.

`PROJECT.json` is the index: components, runs, the source lines of every
definition, the mutants that show that a property can fail, the findings, the
hazards and the theorems.

    tlc -workers 2 -config OffloadStream.cfg OffloadStream.tla
    tlapm OffloadStreamProofs.tla

Contents: [1 The system](#1-the-system), [2 The plan](#2-the-plan),
[3 The models](#3-the-models), [4 The runs](#4-the-runs),
[5 Findings](#5-findings), [6 Fairness](#6-fairness),
[7 What is proved](#7-what-is-proved), [8 What is only model-checked](#8-what-is-only-model-checked),
[9 What is not modelled](#9-what-is-not-modelled).

## 1 The system

The repository has three HALs and the tools around them.

| directory | what it is |
| --- | --- |
| `a2dp_offload_hw/` | the A2DP HAL: a wrapper around the HAL of the Bluetooth stack that can hand encoding to the audio DSP ("offload") |
| `whale/` | the current primary HAL: streams, routing, use cases, DSP power, calls, radio, parameters |
| `normal/` | the primary HAL of older platforms: the same parts in an older form, with vendor libraries |
| `tool/` | factory tests, the tuning server, command line tools |
| `engineconfigurable_apm/` | makefiles |

There are no design documents; what is said here is read from the code and its
comments.

### 1.1 A2DP HAL

**Offload stream** (`offload_stream/offload_stream.c`, `out_stream.c`).
*State*: `out->lock`, one condition variable, the command list, the flag that
the offload thread is inside a driver call, `standby`, `compress`,
`audio_offload_state`, `is_offload_compress_started`, the metadata and the flag
that it must be sent, the use case bit.
*Operations*: write, standby, drain, flush, pause, resume, set_parameters
(metadata), close; the offload thread takes a command, calls the driver without
the lock, and calls back.
*Hard*: the stop waits for the thread and gives the lock away in the middle; one
condition variable serves two predicates; `set_parameters` runs without the lock;
the thread uses `out->compress` without the lock; a failed start; close.
*Correct when*: a driver call never runs on a closed device; flags and device
agree; no wake-up is lost; a callback that is waited for comes; close leaves
nothing behind.

**Wrapper device** (`audio_a2dp_hw.c`). Every wrapper stream drives an inner
stream of the Bluetooth stack and one of the sound card.
*State*: the device lock, a lock for each stream, the two active pointers, the
flags that ask for silence (SCO, suspend, call, VoIP, FM, disconnect, DSP
crash), `bypass`, `standby` of each stream.
*Operations*: write, standby, close, set_parameters of stream and device,
set_mode, check_a2dp_suspend.
*Hard*: flags are changed in one critical section and looked at in another; a
write tests `bypass`, releases both locks and writes.
*Correct when*: `bypass` ends as the disjunction of the flags; what is silenced
stays silent; one stream of a kind plays; a freed stream is out of reach; the two
locks never deadlock.

**DSP monitor** (`dsp_monitor.c`). A thread reads crash and recovery messages from
the audio pipe, raises or drops the force flag of the wrapper and tells the
driver whether the Bluetooth HAL is idle. *Correct when* what it tells is true.

**Mixer stream** (`out_stream.c`): a plain PCM stream beside the offload stream.

### 1.2 The current HAL

**Output routing** (`audio_control.cpp`, `audio_hw.c`). Three kinds of threads
work on one route:

    framework --out_set_parameters--> audio_event_list --> event thread
        event thread: out->devices of every stream, then a command
    stream --start_output_stream (forced, waits)--> switch_device_cmd_list
        routing thread: do_select_device --> vbc route, device route

*State*: both lists and semaphores, exit flags, `actl->lock`, `actl->usecase`,
`actl->out_devices`, the vbc and device routes, device, standby and lock of each
stream. *Hard*: requests, starts and stops cross in two queues; a stream waits for
the routing thread with its lock held; `do_select_device` releases and retakes
its lock; shutting both threads down. *Correct when* no thread sleeps on work,
every start and stop returns, the last device asked for wins, and a stream that
plays is heard.

**DSP power vote** (`audio_param/dsp_control.c`, `set_usecase`, `fm.c`). The DSP may
sleep when no thread accesses it and no use case wants it. *State*: the mixer
control, a counter of accesses, the wish of the use cases, the radio's permission.
*Hard*: the two votes are kept under different locks; each mixer write may fail
half way. *Correct when* whoever needs the DSP finds it awake, and it sleeps
otherwise.

**Ring buffer** (`ring_buffer.c`). A byte queue between a recording and a playing
thread. *Hard*: free-running unsigned counters, copies across the end.
*Correct when* it is a bounded queue.

**Modes and voice call** (`adev_set_mode`, `voice_call.c`, `dsp_control.c`). The audio
service and the modem monitor decide, a control thread of the DSP does the work:

    adev_set_mode, first route in a call --send_cmd_to_dsp_thread--> mailbox of one place
    tuning tool --------------------------------------------------> (tx.cmd, tx.sem)
        control thread: start_voice_call, stop_voice_call --set_usecase(UC_CALL)--> DSP vote
    messages of the DSP: a crash forces every stream in standby, a boot starts the call again

*State*: `call_mode`, `call_start`, `call_status`, the mailbox and its semaphore,
`voice_out->standby`, `UC_CALL`, `is_agdsp_asserted`. *Hard*: the decision is made under
`adev->lock` and sent after it; the mailbox keeps one command; a hang-up on a
Bluetooth headset runs in the caller and not through the mailbox; a start may fail at
each step. *Correct when* the last decision wins, `call_status` says whether a call is
up, and the stream, the use case and the DSP agree.

**Not modelled yet**: the offload stream of this HAL (`audio_offload.c`), input
streams, the monitors (`audio_monitor.c`), the threads that log and dump the DSP,
parameter files, sound trigger, smart amplifier.

### 1.3 The HAL of older platforms

**Software compress device** (`normal/compress_simu/compress_simu.c`). It offers the
calls of a compress driver to the offload stream of `normal/audio_offload.c`, but
decodes the data in a thread of its own and feeds a PCM device.
*State*: `compress->lock`, the state of the stream, the command list and the semaphore
of its synchronous commands, the source ring and the decoded data, the flags
`buffer_ready`, `drain_ok`, `partial_drain_ok` with their condition variables, and the
gapless state: two stream slots, the transition, the marks of the song that fades out.
*Operations*: write, start, pause, resume, stop, set_dev, wait, drain, next_track,
partial_drain, close; the decoder takes a command, decodes, plays, notifies.
*Hard*: synchronous calls hold `compress->lock` while they wait for the decoder, which
itself sleeps; three different waits with flags that outlive what raised them; the
order of partial drain, next track and the data of the next song.
*Correct when* whoever waits is answered, the device is open exactly while the stream
plays, a drain returns when its data are played and not before, and the end of a song
that fades out is known. The current HAL has no such device; the rest of `normal/` is
an older form of `whale/`.

### 1.4 How the parts meet

* The A2DP wrapper calls the offload stream's `write`, `standby` and `close`
  through the inner stream `data_output`. `OffloadStream` keeps the wrapper's lock
  (`wlock`), which serialises writes and standbys; `A2dpDevice` keeps the inner
  streams as "plays or not".
* The DSP monitor calls into the wrapper (`adev_a2dp_force_stanby`), and takes part
  in its locks; both are in `A2dpDevice`.
* Streams of the current HAL call `set_usecase`, which votes for the DSP
  (`DspAccess`) and is the condition of the routing thread (`RoutingManager`); the
  routing thread takes an access to the DSP while it switches. The models share no
  variable: `RoutingManager` has the result of that access as a choice
  (`AccessFails`), and `DspAccess` has the routing thread as one of its `Accessors`.
* `VoiceCall` extends `DspAccess`: the call is one of its use cases, and every step a
  call's thread takes in `set_usecase` is a step of `DspAccess`, beside the radio, the
  other use cases and the accesses, which go on meanwhile.
* `CompressSimu` has the compress device together with the player's thread and the
  offload thread of `normal/audio_offload.c` that call it.

## 2 The plan

Ordered by how much of the system's work hangs on a part and how hard it is to test.

| # | module | composes | abstract specification | theorems | state |
| --- | --- | --- | --- | --- | --- |
| 1 | `OffloadStream` | stream, offload thread, wrapper lock | `CompressDriver`, how a compress device may be used | types, safety by an inductive invariant, no lost wake-up; obeys the driver | done |
| 2 | `RingBuffer` | | `BoundedFifo` | implements it, for every size | done |
| 3 | `A2dpDevice` | wrapper, streams, DSP monitor | | types, every safety property, the order of the locks | done |
| 4 | `RoutingManager` | streams, event thread, routing thread, close | | types, no lost wake-up, every waiting stream owns one command; for one stream: what plays is heard, the last request wins, the mixer is switched under its lock | done |
| 5 | `DspAccess` | use cases, radio, accesses | | count, awake, asleep | done |
| 6 | `VoiceCall` | framework, modem monitor, messages of the DSP, control thread; extends `DspAccess` | `DspAccess` | implements it; every safety property | done |
| 7 | `CompressSimu` | player, offload thread, decoder | `CompressDriver` | every safety property; the HAL obeys the driver | done |
| 8 | `WhaleOffload` | the compress stream of the current HAL: no wrapper lock, a set_usecase that fails when the bit is on guards a restart during the wait of a standby | `CompressDriver` too | as 1 | planned |
| 9 | `InputStreams` | start, standby, the list of inputs, device switches of inputs | | | planned |
| 10 | `ModemMonitor` | connection, assert messages, close | | | planned |
| 11 | `MixerStream` | the mixer stream and the shared use case word of the A2DP HAL | | | planned |

Every safety property of the passing runs is a theorem. Worth proving next: a
refinement of `RoutingManager` to a queue that answers each forced command once.

## 3 The models

A critical section that blocks on nothing and takes no further lock is one action;
every point where a thread releases a lock, waits, or touches shared state outside
a lock separates two actions. `pc` says where each thread is. Definitions whose name
ends in `_Something` (`Stop_KeepsState`) are plausible slips of the definition
before the underscore, used only as mutants.

### 3.1 OffloadStream

| variable | in the code |
| --- | --- |
| `lock`, `wlock` | `out->lock`, the lock of the wrapper stream |
| `waiters` | who sleeps on `audio_offload_cond` |
| `cmds`, `blocked` | `audio_offload_cmd_list`, `is_audio_offload_thread_blocked` |
| `tpc`, `cur`, `using` | the offload thread, its command, the handle its driver call runs on |
| `state`, `started`, `standby`, `standbyFun`, `compress`, `usecase` | the fields of these names |
| `md`, `needMeta` | the metadata and `is_offload_need_set_metadata` |
| `dev`, `devMeta` | what the compress driver was last told (external) |
| `awaiting`, `openFailed` | history: the callback the player waits for; a failed open |

`Signal` wakes any one sleeper, and `SpuriousWakeup` is what POSIX allows. `Stop`,
`CheckBlocked`, `Wakeup` are the three parts of `audio_stop_compress_output`:
before, at, and after its wait. The player waits for `WRITE_READY` before it writes
again, as the framework does. Close comes when no thread is inside the stream. Data
is not modelled: a write is full, short or failed.

`CompressDriver` says how a compress device may be used by any client with any number
of threads: opened once; metadata before a start; paused and resumed only from the
other of the two; closed only when it is stopped, has dropped its metadata, and no thread
is inside a blocking call. `ObeysDriver` is the refinement: `device` is `dev`, `metadata`
is `devMeta`, and a call is under way while `using` holds the device's handle. Locks,
lists, flags and sleeping threads are all stutters of it. `NeedsMetadata` says whether
a start needs them: the Bluetooth offload device does, the software device of
`CompressSimu`, the contract's other client, is never given any. That a device which plays
has its metadata (`PlayingHasMetadata`) is one consequence of the contract.

### 3.2 A2dpDevice (MCA2dpDevice)

`raised` is the set of flags that ask for silence, `Effects` what each key of
set_parameters does to it; `Keys` fixes the order in which the keys are looked
for. `SetFlag` is one key, in a critical section of its own; `ParamsDone` goes to
the check if one is due; `CheckClear`, `CheckRaised`, `CheckPcm`, `CheckOffload` are
check_a2dp_suspend. `Receive`, `ForceStandby`, `ReportState` are the DSP monitor.
`NotBypassed`, `WriteRelock`, `InnerWrite` are the two critical sections of out_write
with the gap between them. `crossed` is history: streams that a write restarted
after it had passed the bypass test and was then put in standby. `MCA2dpDevice` gives `Keys` its
values and a symmetry over the PCM streams for the run without liveness.

### 3.3 RingBuffer, BoundedFifo

`in`, `out` are the counters, with `Modulus` values; `CopyIn` and `CopyOut` are the two
memcpy calls. Each call holds `ring_buf->lock`, so it is one action. `given` and `got`
are the caller's data, put in the state so that the abstract queue sees the same
calls with the same data. `Content` is the refinement mapping.

### 3.4 RoutingManager

`events`, `evSem`, `evExit` and `cmds`, `sem`, `exit` are the two managers. A stream goes
through `on .. onUnlock` (set_usecase), `vbcLock`, `vbcApply` (switch_vbc_route), `pcm`,
`send`, `post`, `wait` and `release`; the routing thread through `select .. relock`, the
parts of do_select_device between its lock operations. `ctlLock` is `actl->lock` with its
real weakness: an unlock frees it whoever holds it, because do_select_device may
unlock twice. `Request` is out_set_parameters of the framework, `EventApply` and
`EventSend` are what the event thread does with it. `CloseRouting` to `Closed` is
adev_close.

Left out: `adev->lock` and `output_list_lock` (no thread that waits here holds
them); failures of small allocations; input devices and the FM volume command; USB,
SCO and call detours of do_select_device; the contents of the route table, of which
only "has a route or not" (`Routable`) is kept. Sections under `cmd_lock` and
`audio_event_lock` are atomic, so the repeated unlock in the loop that answers the
rest of the list (`audio_control.cpp:1224`) is not seen. What a C library does with a
destroyed mutex is the action `EventAborts`.

### 3.5 DspAccess

`PairEnter`, `PairLeave` are dsp_sleep_ctrl_pair, `SleepCtrl` is dsp_sleep_ctrl, each with a
variant in which the mixer refuses the write. `UsecaseWake .. UsecaseSleep` are the two
halves of set_usecase, which holds `actl->lock` between them (`op`), while threads with
other locks come in. `refused` records which values the mixer has refused so far, so
that a property can say up to which failure it holds.

### 3.6 VoiceCall

| variable | in the code |
| --- | --- |
| `callMode`, `callStart`, `callStatus`, `asserted` | `call_mode` (a call or not), `call_start`, `call_status`, `is_agdsp_asserted` of `adev` |
| `cmd`, `posts` | `tx.cmd` and the value of `tx.sem` |
| `standby` | `voice_out->standby`; the use case `UC_CALL` is in `usecase` of `DspAccess` |
| `pc` | the audio service, the modem monitor, the DSP's message thread, the control thread |
| `fresh`, `slip` | history: nobody has taken the command; what went wrong since the last one |

`SetMode`, `IsBtVoice`, `SetRoute` are the decisions; `SendVoice` and `SendUpdate` put a
command in the mailbox, over whatever is there; `TakeCommand` is the control thread. `PreStart` to
`Started` is start_voice_call with its two ways to fail, `StopPre` to `StopStatus` is
stop_voice_call, which any thread may run; `DspAsserts` enters it in the middle, as
force_all_standby does.

The code does not keep its promise in every history, and `slip` names when: a
command that was sent in another order than it was decided (`crossed`), overwritten by
an update of the tuning tool (`overwritten`), a start that `failed`, and a start that has
`overlapped` a Bluetooth hang-up, which may leave the status wrong for good.
`HangUpWins` and `StatusMatches` say that nothing else can go wrong.

Abstractions: send and post are one step, as are the wait for the semaphore and the
taking of `tx.lock`; `adev->lock` and `voice_out->lock` are derived from `pc`; the list lock
of the outputs is left out (it is always taken in the order `adev->lock`, list,
`voice_out->lock`); the streams that a call puts in standby take free steps of
`DspAccess`; whether a call is over Bluetooth is a choice. Left out: ringtone mode, loop
and test modes, `audio_agdsp_reset` (its hazard is listed), volumes and routes.

### 3.7 CompressSimu

| variable | in the code |
| --- | --- |
| `player`, `standby`, `hal`, `asked`, `offload` | the framework's thread and the offload thread of `normal/audio_offload.c`, its state and request list |
| `lock`, `posted` | `compress->lock`; the semaphore of the synchronous command under way |
| `state`, `cmds`, `decoder`, `isStart` | `compress->state`, `cmd_list`, where thread_func is, whether the PCM device is open |
| `src`, `pcm`, `song` | frames in the source ring; decoded minus played; what is left of a drained song |
| `bufferReady`, `drainOk`, `partialOk`, `partialBreak`, `delayBreak` | the flags of the five waits |
| `opened`, `client`, `cur`, `next`, `transition`, `draining`, `nextStream`, `streamBreak` | `gapless_state` and the stream numbers |
| `due`, `early` | history: what the drain under way still owes; its end had been reported before |

The calls are `Write` to `Close`, `WaitForBuffer`, `Drain*`, `NextTrack*`, `PartialDrain*`; a
synchronous one is the call, `Send`, the answer and the return. `DoStop` to `DoClose` are
compress_cmd_process; a pass of audio_process is `PassBusy`, `PassDecodes`, `PassFindsNoData`
or `PassFindsEnd`, followed by its notifications. `EndTransition` is
compress_gapless_transition_check.

`HalObeysDriver` is the refinement of `CompressDriver` by the HAL. `device` is what `state`
says (the decoder's device follows it, `DeviceFollows`), and a blocking call is under way
while the offload thread is in compress_wait or a drain. A contract step is thus taken
by the player or by the offload thread, and the contract's guard on `Close` says that
audio_offload_standby frees the device only when the offload thread is out of it.

Abstractions: the PCM device never fails, and its position is a choice; it does not
run dry while the decoder holds data; a paused stream that goes on either gives the
rest to the device again or has played it; the rule that gives up after a second
without progress, positions, gain and the MP3 decoder itself are left out; so are pause
and resume by the HAL while devices are switched, and EXIT of the offload thread. Calls
begin when they get `compress->lock`; the notifications of a stop are one step; there are
no spurious wake-ups; the framework does not write or drain while it has paused.

## 4 The runs

| run | instance | what it shows |
| --- | --- | --- |
| `offload_stream` | player, one controller, one setter, two metadata values, fair | handle, flags, device, metadata and close are right under every interleaving; the stream implements `CompressDriver`; as long as no two threads stop the stream at once no wake-up is lost and stops and closes end; callbacks arrive while no standby is forced |
| `offload_two_stoppers` | one controller, fair | **violation**: see finding 1 |
| `offload_lost_callback` | one controller, fair | **violation**: see finding 2 |
| `ring_buffer` | 4 places, counters of 16 values, transfers up to 5 | refinement of `BoundedFifo` |
| `a2dp_streams` | one offload and two PCM streams, the monitor | silence, one stream of a kind, closed streams |
| `a2dp_live` | one stream, one caller with three keys, the monitor, fair | bypass, pipe, every call returns |
| `a2dp_crossing` | one stream, the monitor | **violation**: see finding 3 |
| `routing_settles` | one stream, two devices, three requests | no lost wake-up, one command or answer for each stream that waits, last request wins, what plays is heard |
| `routing_live` | one stream, a device without route, a DSP that may not wake, fair | starts, stops, requests and close end |
| `routing_two_streams` | two streams | **violation**: see finding 4 |
| `voice_call` | the four threads of a call, a radio, one other access, any write refused | awake and asleep as in `DspAccess`; stream, use case and status of the call agree; the last decision wins |
| `compress_simu` | player, offload thread, decoder; two frames in each buffer | answers and wake-ups come, drains keep their word, the device follows the state; the HAL implements `CompressDriver` |

**Bounds.** `MaxCmds = 1` in `offload_stream` is the list of a player that waits for its
callback; EXIT comes on top, so that close meets a command before it. The two
violations have `MaxCmds = 2`, which lets a drain follow a short write. One controller in
`offload_stream` makes two threads that may stop the stream at once, the player and
the controller; the proofs cover any number. `Size = 4`, `Modulus = 16` and transfers longer than
the buffer reach every wrap of place and counter, and the proof covers the rest.
`Keys` has three keys in `a2dp_live`: one that raises and drops several flags
(`disconnect`), one simple one and `setMode`, which checks in the middle of the
call. `MaxRequests = 3` over two devices lets a request come back to a device that
was left; `MaxPosts = 2` is enough because each list is at most as long as the
requests and starts under way. In `voice_call` `MaxPosts = 2` lets a command be
overwritten while an older post waits; one access and two use cases are enough because
the theorems of `DspAccess` hold for any number, and those of `VoiceCall` for any bound. In
`compress_simu` two frames of decoded data are needed: with one, data that wait for the
device never meet data behind them. `MaxCmds = 1` and `MaxAsked = 1` keep writes and
requests apart as the framework does, which waits for each callback; synchronous
commands come on top. One stream in the passing runs of the routing
manager, because with two the double unlock (finding 4) takes `actl->lock` from its
holder and every property that relies on the lock is lost with it.

**Deadlock.** TLC looks for deadlocks except where the system really stops: a
closed offload stream (`OffloadStream`), the routing manager after adev_close
or after the process has ended in `EventAborts` (`RoutingManager`), and the software
compress device (`CompressSimu`), where two waits of the code may really last for
ever: compress_next_track for the end of a transition in a stream that is paused,
with `compress->lock` held (2716), and compress_wait after its flag was consumed (2793).

**RoutedAsAsked** is checked with a route for every device and a DSP that wakes when
asked (`Routable = {d1, d2}`, `AccessFails = FALSE`): without a route the code keeps
the old one; without the DSP nothing is routed. The run
`routing_live` has both failures. The theorems `LastRequestWins` and
`PlayingStreamIsHeard` have the same hypotheses, and need them.

## 5 Findings

1. *Two stoppers* (`offload_two_stoppers`, `offload_stream.c:471`). A flush and a
   forced standby may both wait for the offload thread; `pthread_cond_signal`
   wakes one, and the other sleeps on, with the wrapper's lock held.
2. *Lost callback* (`offload_lost_callback`, `offload_stream.c:441`). A standby forced
   between a short write and the offload thread makes the thread find no device: the
   command is dropped without its callback, and its memory with it.
3. *Crossing write* (`a2dp_crossing`, `audio_a2dp_hw.c:172`). A write that has
   passed the bypass test restarts the inner streams after a forced standby, and
   `out->standby` stays set, so that later standbys skip them.
4. *Mixer without its lock* (`routing_two_streams`, `audio_control.cpp:2530`). A
   forced command for the device in use goes on after the unlock, switches the vbc
   route without `actl->lock` and unlocks a second time.

The comment, log line or assumption each one contradicts is quoted in `PROJECT.json`.

## 6 Fairness

*OffloadStream.* Weak fairness for threads that run; strong fairness where a
thread takes a lock that others take and give back again and again (a kernel mutex
grants it in the end); weak fairness for the return of a driver call unless the
device is paused, because a stop ends a wait or a drain and a running device
completes it. No client is obliged to call anything.
*CompressSimu, VoiceCall, DspAccess, RingBuffer.* None: their runs check safety only.
What must eventually happen there is stated as "no state in which the waker is gone"
(`AnswerComes`, `SleeperHasWaker`, `NextTrackWoken`, `HangUpWins` at rest).
*A2dpDevice, RoutingManager.* Strong fairness for the continuation of each thread
inside a call, for the same reason; no fairness for beginning one, for requests of
the framework, or for adev_close.

The two liveness violations are found under the same fairness as the passing runs.

## 7 What is proved

All proofs are for any constants that satisfy the assumptions of the modules: any
number of threads and streams, any bounds.

**OffloadStreamProofs.** The inductive invariant `IInv` joins `TypeOK` with: who
holds a lock at which program counter (`LockInv`); what a client inside a call
knows about standby and handle (`CallInv`, `StandbyInv`); that the offload thread's
flag is up exactly while it is between taking and finishing a command, and that the
device stays open then (`BlockedInv`); when the use case bit outlives the device
(`UsecaseInv`); and the agreement of state and device (`StateInv`). None of these is
inductive alone: that a driver call runs on an open device needs that a stopper
leaves the wait only with the flag down, which needs the lock. From it:
`CallsRunOnOpenDevice`, `WritesHaveDevice`, `StandbyMatches`, `StateMatches`.
`NoLostWakeupAlone` proves `LoneWakeups`: as long as no two threads stop the stream at
once, no wake-up is lost; finding 1 shows that the hypothesis is necessary. `NeverPlaysBare` adds
that the metadata of a device that plays were sent, which follows the writer from its
start to the first write (the run checks it as part of `ObeysDriver`); `CloseIsClean` that a closed stream leaves no command, no
thread and no device, which needs that EXIT is the last command of the list.
`StreamObeysDriver` is the refinement of `CompressDriver`, step by step: every step of every
thread is one step of the contract or a stutter. It adds to the invariant that device and
handle are closed together and that from a client's stop to its close the device stays
stopped and without metadata (`DeviceInv`), although the client gives the lock away
in between.

**RingBufferProofs.** `InStep`: types and distance of the counters, and with them that
the content is never longer than the buffer. `Implements`: the
refinement of `BoundedFifo`, for every size, width and data. It rests on lemmas about
the place of a counter modulo the size (`PlaceStep`, `Distance`), about what the two
copies read and write (`CopyInPlaces`, `CopyOutPlaces`), and on the assumption that
the size divides the number of counter values, which holds for powers of two.

**A2dpDeviceProofs.** `BypassIsCurrent` is inductive with the types. `PipeIsTrue` needs
what holds between the change of the flag and the report (`MonitorInv`).
`SilenceIsKept`, `OnePlays` and `ClosedIsUnused` come from `StreamsInv`: who holds which
lock, that the active pointers are of their kind and open and are set between the
bypass test and the end of the write, that a stream plays under its standby flag
only after a crossing, and that while bypass is up a loud stream is one that a
check under way is about to silence. `LocksAreOrdered` says why calls return: whoever holds
the lock of a stream asks for no other, and whoever waits for such a holder has at most the
device lock, so that no chain of waiting threads is longer than two or closes
(`ChainsEnd`, from `OrderInv`). TLC checks the same on one stream as `CallsReturn`, which adds
the fairness that a proof cannot.

**DspAccessProofs.** `CountKept`; `AccessAwake`, until a write that lets the DSP sleep
is refused, by the exact count that holds until then; `UsecasesAwake` and
`IdleDspSleeps`, awake for every use case that needs it and asleep when nothing runs,
until a write is refused. The last two rest on `VoteIsRight`: what the mixer was told
equals the vote of the counter and the use cases.

**VoiceCallProofs.** `UsesDspAsAllowed`: every behaviour of the call is one of
`DspAccess`, so that `CallFindsDspAwake` and the other theorems of `DspAccess` hold of it.
`StreamFollowsUsecase` is inductive with the facts about who holds which lock at which
label (`LockInv`). `LastDecisionWins` needs to say, in every state between a decision and
its effect, *what is still to come*: `UpInv` (a call that was decided on is up, or a sender
is about to send, or the start is in the mailbox and fresh, or under way) and `EndInv`
(the same of a hang-up), with `StopInv` (a stop that is out of date is followed by its
start), `OverlapInv` and `DownInv`. `StatusIsRight` follows with `StatusInv`.

**CompressSimuProofs.** For buffers of any size. The invariant joins the types with: who
holds `compress->lock` (`LockHeld`); that the holder's synchronous command is the last of
the list and not yet answered (`CommandLast`), which is why an answer belongs to the
one who waits; that device, state and the commands under way agree (`DeviceMatches`);
that the decoder is awake whenever a drain sleeps in a stream that is not paused
(`DrainAlive`); what each flag of a drain means while the drain is under way
(`PartialInv`, `DrainInv`); and what is known of the song that fades out (`SongInv`). From
it: `DeviceFollows`, `SleepsQuietly`, `WaitersAnswered`, `TransitionEndsWait`,
`SleepersWoken`, `PartialDrainsDecode`, `DrainsKeepTheirWord` and `FadingSongsEnd`.
`HalUsesDriverAsAllowed` is the refinement of `CompressDriver`. It rests on `HalState`: what
the HAL believes of the stream (`hal`) is what the device was told, between any two of
the player's calls and inside each of them, and a player that closes has seen the
offload thread out of its call.

**RoutingManagerProofs.** `TypeCorrect`, and `WakeupsAreKept` from `ExitInv` (while an exit
flag is up and its thread has not seen it, a post of the thread's semaphore is made
or to come), `RouterInv` and `EventInv` (work in a list is covered by a post, made or
to come). It holds for any number of streams although `actl->lock` may be lost,
because it rests on the order of append and post alone. So does `CommandsAreOwned`: a
stream that waits for the routing thread has exactly one command, in the list or at
work, or exactly one answer, and a stream that does not wait has neither, so that no answer
reaches a later start. It needs `PhaseInv` (adev_close begins when no stream is in use, hence a
thread that leaves its loop leaves nobody behind) and `OwnInv` (the same count, with
the command at work).

What plays is heard, and the last request wins, only for one stream, and the theorems
`PlayingStreamIsHeard` and `LastRequestWins` say so: they assume `Streams = {s}`, a route for
every device, and a DSP that wakes, for any devices and any number of requests. With
two streams the property is false in the code: finding 4 takes `actl->lock` from its
holder. Without a route the code keeps the old one, and without the DSP it routes
nothing. The invariant follows the route around the two queues: the use case is on
exactly while the stream needs it (`UseInv`); the event thread passes on the
device it has given to the stream (`DevInv`); when no request is on its way, the *last
word*, the last command of the list or else the device at work or selected, is the
stream's device (`TailInv`); and what is on the codec at each step of do_select_device
(`RouteInv`).

`LoneStreamSwitchesUnderLock` says exactly what finding 4 needs: with a single stream,
whatever the route table and the DSP do, `MixerUnderLock` holds, the property that two
streams violate. The routing thread does go on without the lock then, too (`Bare`), and
its second unlock is no fiction; but the command is the stream's own (`ForceInv`), so the
stream sleeps and cannot hold the lock that is freed (`LocksInv`), the use case stays on
(`BareInv`), and the route it writes is the one the mixer shows already (`VbcInv`). A
second stream that starts at that moment can undo each of the three.

Each thread has a *frame*, a lemma about what its steps leave alone (`StreamKeeps`,
`SetterKeeps`, `EventKeeps`, `RouterKeeps`, `CloserKeeps`), so that a part of the invariant is
proved in full only against the actions that can disturb it.

Type correctness is proved for every module (`TypeCorrect`, `InStep`, `CountKept`,
`CallTypes`, `TypesHold`), so that no run repeats it.

## 8 What is only model-checked

The liveness properties: `LoneStopReturns`, `LoneCloseCompletes`, `UnforcedCallback`,
`CallsReturn`, `StreamReturns`, `RequestServed`, `CloseCompletes`. The proof system has
no rules for fairness and ENABLED that its back ends can use. Every safety property
of a passing run, and the refinements, are proved.

No recursive definition is used anywhere, so that no theorem needs induction over
data, which is also out of the prover's reach.

## 9 What is not modelled

Formats, parameter files, volumes, positions and other queries, the mixer paths behind
a route, memory allocation, logging and dumps. The components of section 1.2 under
"not modelled yet", all of `normal/` but the software compress device, and `tool/`; `PROJECT.json` has a row
with the reason for each. The hazards with no property, each with a note saying
why, are the list to start from.
