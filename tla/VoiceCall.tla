------------------------------ MODULE VoiceCall ------------------------------
(***************************************************************************)
(* Start and end of a voice call in the current HAL: adev_set_mode and the *)
(* routing that follows it (whale/audio_hw.c), the mailbox of the DSP      *)
(* control thread and the messages of the DSP (audio_param/dsp_control.c), *)
(* start_voice_call and stop_voice_call (voice_call.c).                    *)
(*                                                                         *)
(* The module extends DspAccess: the call is the usecase Call, its steps   *)
(* in set_usecase are DspAccess's, and all other usecases and accesses go  *)
(* on meanwhile.                                                           *)
(*                                                                         *)
(* Locks: tx.lock is held by Tx while it serves a command, adev->lock over *)
(* a step only in is_bt_voice, voice_out->lock at the labels of Holding.   *)
(* Senders wait for tx.lock as long as a command is served.                *)
(***************************************************************************)
EXTENDS DspAccess

CONSTANTS
    Framework,  \* the audio service: modes and routes
    Monitor,    \* the modem monitor: ends the call when the modem crashes
    Rx,         \* the thread that reads the messages of the DSP
    Tx,         \* the thread that serves the mailbox
    MaxPosts    \* bound on the value of tx.sem

Deciders == {Framework, Monitor}
Threads == Deciders \cup {Rx, Tx}

ASSUME ThreadsAssumption ==
    Framework # Monitor /\ Rx \notin Deciders /\ Tx \notin Deciders /\ Rx # Tx
ASSUME CallersAssumption == Threads \subseteq Users
ASSUME PostsAssumption == MaxPosts \in Nat \ {0}

VARIABLES
    pc,          \* where each thread is; Tx is "idle" when it waits for tx.sem
    callMode,    \* adev->call_mode: a call or not
    callStart,   \* adev->call_start: what was decided last
    callStatus,  \* adev->call_status
    standby,     \* voice_out->standby
    asserted,    \* adev->is_agdsp_asserted
    cmd, posts,  \* tx.cmd, the one place of the mailbox, and tx.sem
    fresh,       \* history: nobody has taken cmd yet
    slip         \* history: what went wrong since the last command of the call

box == <<cmd, posts, fresh>>
voice == <<callMode, callStart, callStatus, standby, asserted>>
callVars == <<pc, voice, box, slip>>
allVars == <<vars, callVars>>

Starting == {"preStart", "lock", "useOn", "pcm", "started"}
Standing == {"stopPre", "stopOut", "stopUse", "stopSleep", "stopStatus"}
Failing == {"failUse", "failSleep"}
Labels == {"idle", "isBt", "sendStart", "sendStop"} \cup Starting \cup Standing \cup Failing
Holding == {"useOn", "pcm", "stopUse", "stopSleep"} \cup Failing

CallTypeOK ==
    /\ pc \in [Threads -> Labels]
    /\ callMode \in {"normal", "inCall"} /\ callStart \in BOOLEAN
    /\ callStatus \in {"invalid", "preStart", "start", "preStop", "stop"}
    /\ standby \in BOOLEAN /\ asserted \in BOOLEAN
    /\ cmd \in {"none", "start", "stop", "update"} /\ posts \in 0..MaxPosts /\ fresh \in BOOLEAN
    /\ slip \in {"none", "crossed", "overwritten", "failed", "overlapped"}

CallInit ==
    /\ Init
    /\ pc = [t \in Threads |-> "idle"]
    /\ callMode = "normal" /\ callStart = FALSE /\ callStatus = "invalid"
    /\ standby = TRUE /\ asserted = FALSE
    /\ cmd = "none" /\ posts = 0 /\ fresh = FALSE /\ slip = "none"

At(t, l) == pc[t] = l
Goto(t, l) == pc' = [pc EXCEPT ![t] = l]
TxFree == At(Tx, "idle")
AdevFree == \A t \in Deciders : ~At(t, "isBt")
OutFree == \A t \in Threads : pc[t] \notin Holding

-----------------------------------------------------------------------------
(* What can go wrong between a decision and the call, for the properties.  A *)
(* hang-up that stops the call in its own thread (Bluetooth) is not ordered  *)
(* with the commands of the mailbox; once it has overlapped a start, the     *)
(* status may be wrong for good.                                             *)
Note(what) == slip' = IF slip = "overlapped" THEN slip ELSE what
StartComes == (cmd = "start" /\ posts > 0) \/ pc[Tx] \in Starting \cup Failing
HangsUpInline == \E t \in Deciders : pc[t] \in Standing

-----------------------------------------------------------------------------
(* The decisions, under adev->lock: adev_set_mode ends a call that was       *)
(* decided on, the first route after IN_CALL starts it.                      *)
Active == callStatus \notin {"invalid", "stop"}

SetMode_Keeps(t, mode) ==
    /\ At(t, "idle") /\ AdevFree /\ mode # callMode
    /\ callMode' = mode /\ callStart' = callStart
    /\ IF callStart /\ mode = "normal" THEN Goto(t, IF Active THEN "isBt" ELSE "sendStop")
                                       ELSE UNCHANGED pc
    /\ UNCHANGED <<vars, callStatus, standby, asserted, box, slip>>
SetMode(t, mode) ==
    /\ At(t, "idle") /\ AdevFree /\ mode # callMode
    /\ callMode' = mode
    /\ callStart' = (callStart /\ mode = "inCall")
    /\ IF callStart /\ mode = "normal" THEN Goto(t, IF Active THEN "isBt" ELSE "sendStop")
                                       ELSE UNCHANGED pc
    /\ UNCHANGED <<vars, callStatus, standby, asserted, box, slip>>
\* is_bt_voice waits for voice_out->lock: a call over SCO is stopped in this thread.
IsBtVoice(t) ==
    /\ At(t, "isBt") /\ OutFree
    /\ \/ Goto(t, "stopPre") /\ Note(IF StartComes THEN "overlapped" ELSE "none")
       \/ Goto(t, "sendStop") /\ UNCHANGED slip
    /\ UNCHANGED <<vars, voice, box>>
SetRoute ==
    /\ At(Framework, "idle") /\ AdevFree
    /\ callMode = "inCall" /\ ~callStart
    /\ callStart' = TRUE /\ Goto(Framework, "sendStart")
    /\ UNCHANGED <<vars, callMode, callStatus, standby, asserted, box, slip>>

(* send_cmd_to_dsp_thread, for the call and for the tuning tool: the new     *)
(* command replaces one that was not taken yet.                              *)
Send(c) == TxFree /\ posts < MaxPosts /\ cmd' = c /\ posts' = posts + 1 /\ fresh' = TRUE
SendVoice(t) ==
    /\ pc[t] \in {"sendStart", "sendStop"}
    /\ Send(IF At(t, "sendStart") THEN "start" ELSE "stop")
    /\ Note(IF At(t, "sendStart") /\ HangsUpInline THEN "overlapped"
            ELSE IF At(t, "sendStart") # callStart THEN "crossed" ELSE "none")
    /\ Goto(t, "idle") /\ UNCHANGED <<vars, voice>>
SendUpdate ==
    /\ Send("update")
    /\ Note(IF fresh /\ cmd # "update" THEN "overwritten" ELSE slip)
    /\ UNCHANGED <<vars, voice, pc>>

(* agdsp_msg_process: a crash, told once or several times, puts every stream *)
(* in standby; the message that the DSP is up, which also comes without a    *)
(* crash, starts the call that the mode asks for.                            *)
DspAsserts ==
    /\ At(Rx, "idle")
    /\ asserted' = TRUE /\ Goto(Rx, "stopOut")
    /\ UNCHANGED <<vars, callMode, callStart, callStatus, standby, box, slip>>
DspBoots ==
    /\ At(Rx, "idle")
    /\ asserted' = FALSE /\ Goto(Rx, IF callMode = "inCall" THEN "sendStart" ELSE "idle")
    /\ UNCHANGED <<vars, callMode, callStart, callStatus, standby, box, slip>>

(* The tx thread takes what the mailbox holds by now.                        *)
TakeCommand ==
    /\ TxFree /\ posts > 0 /\ posts' = posts - 1 /\ fresh' = FALSE
    /\ \/ cmd = "start" /\ ~locked /\ Goto(Tx, IF Call \in usecase THEN "idle" ELSE "preStart")
       \/ cmd = "stop" /\ Goto(Tx, "stopPre")
       \/ cmd = "update" /\ UNCHANGED pc
    /\ UNCHANGED <<vars, voice, cmd, slip>>

-----------------------------------------------------------------------------
(* start_voice_call, after its test of UC_CALL.  The streams it puts in      *)
(* standby take their own steps of DspAccess.                                *)
PreStart ==
    /\ At(Tx, "preStart") /\ AdevFree
    /\ callStatus' = "preStart" /\ Goto(Tx, "lock")
    /\ UNCHANGED <<vars, callMode, callStart, standby, asserted, box, slip>>
UseOn ==
    /\ At(Tx, "lock") /\ OutFree /\ UsecaseWake(Tx, Call) /\ Goto(Tx, "useOn")
    /\ UNCHANGED <<voice, box, slip>>
StartFails == callStatus' = "invalid" /\ Note(IF callStart THEN "failed" ELSE slip)
UseFails ==
    /\ At(Tx, "lock") /\ OutFree /\ UsecaseWakeFails(Tx)
    /\ StartFails /\ Goto(Tx, "idle")
    /\ UNCHANGED <<callMode, callStart, standby, asserted, box>>
UseRefused ==
    /\ At(Tx, "useOn") /\ UsecaseRefused(Tx)
    /\ StartFails /\ Goto(Tx, "idle")
    /\ UNCHANGED <<callMode, callStart, standby, asserted, box>>
UseRead == At(Tx, "useOn") /\ UsecaseRead(Tx) /\ UNCHANGED callVars
UseSet ==
    /\ At(Tx, "useOn") /\ UsecaseSet(Tx) /\ Goto(Tx, "pcm")
    /\ UNCHANGED <<voice, box, slip>>
PcmStarts ==
    /\ At(Tx, "pcm") /\ standby' = FALSE /\ Goto(Tx, "started")
    /\ UNCHANGED <<vars, callMode, callStart, callStatus, asserted, box, slip>>
PcmFails_KeepsUsecase ==
    /\ At(Tx, "pcm") /\ StartFails /\ Goto(Tx, "idle")
    /\ UNCHANGED <<vars, callMode, callStart, standby, asserted, box>>
PcmFails ==
    /\ At(Tx, "pcm") /\ StartFails /\ Goto(Tx, "failUse")
    /\ UNCHANGED <<vars, callMode, callStart, standby, asserted, box>>
Started ==
    /\ At(Tx, "started") /\ AdevFree
    /\ callStatus' = "start" /\ Goto(Tx, "idle")
    /\ UNCHANGED <<vars, callMode, callStart, standby, asserted, box, slip>>

(* stop_voice_call, in any thread; force_all_standby of Rx is its middle     *)
(* part, and the error path of start_voice_call ends in the same calls.      *)
StopPre(t) ==
    /\ At(t, "stopPre") /\ AdevFree
    /\ callStatus' = "preStop" /\ Goto(t, "stopOut")
    /\ UNCHANGED <<vars, callMode, callStart, standby, asserted, box, slip>>
AfterStandby(t) == IF t = Rx \/ pc[t] \in Failing THEN "idle" ELSE "stopStatus"
StopOut(t) ==
    /\ At(t, "stopOut") /\ OutFree
    /\ Goto(t, IF standby THEN AfterStandby(t) ELSE "stopUse")
    /\ standby' = TRUE
    /\ UNCHANGED <<vars, callMode, callStart, callStatus, asserted, box, slip>>
StopUse(t) == pc[t] \in {"stopUse", "failUse"} /\ UsecaseTest(t, Call) /\ UNCHANGED callVars
StopUseless(t) ==
    /\ pc[t] \in {"stopUse", "failUse"} /\ UsecaseStays(t, Call)
    /\ Goto(t, AfterStandby(t))
    /\ UNCHANGED <<voice, box, slip>>
StopClear(t) ==
    /\ pc[t] \in {"stopUse", "failUse"} /\ UsecaseClear(t)
    /\ Goto(t, IF At(t, "stopUse") THEN "stopSleep" ELSE "failSleep")
    /\ UNCHANGED <<voice, box, slip>>
StopSleep(t) ==
    /\ pc[t] \in {"stopSleep", "failSleep"} /\ UsecaseSleep(t)
    /\ Goto(t, AfterStandby(t))
    /\ UNCHANGED <<voice, box, slip>>
StopStatus_Forgets(t) ==
    /\ At(t, "stopStatus") /\ AdevFree /\ Goto(t, "idle")
    /\ UNCHANGED <<vars, voice, box, slip>>
StopStatus(t) ==
    /\ At(t, "stopStatus") /\ AdevFree
    /\ callStatus' = "stop" /\ Goto(t, "idle")
    /\ UNCHANGED <<vars, callMode, callStart, standby, asserted, box, slip>>

\* Everything else that uses the DSP, and the stray unlock.
Others ==
    /\ \/ \E t \in Accessors : Access(t)
       \/ \E t \in Users \ Threads : (\E u \in Usecases \ {Call} : Uses(t, u)) \/ Proceeds(t)
       \/ StrayUnlock
    /\ UNCHANGED callVars

Decide == (\E t \in Deciders : SetMode(t, "normal") \/ IsBtVoice(t)) \/ SetMode(Framework, "inCall") \/ SetRoute
Message == DspAsserts \/ DspBoots
Mail == (\E t \in Threads \ {Tx} : SendVoice(t)) \/ SendUpdate \/ TakeCommand
StartCall ==
    \/ PreStart \/ UseOn \/ UseFails \/ UseRefused \/ UseRead \/ UseSet
    \/ PcmStarts \/ PcmFails \/ Started
StopCall == \E t \in Threads :
    \/ StopPre(t) \/ StopOut(t) \/ StopUse(t) \/ StopUseless(t) \/ StopClear(t)
    \/ StopSleep(t) \/ StopStatus(t)

CallNext == Decide \/ Message \/ Mail \/ StartCall \/ StopCall \/ Others

CallSpec == CallInit /\ [][CallNext]_allVars

-----------------------------------------------------------------------------
Quiet == posts = 0 /\ \A t \in Threads : At(t, "idle")

\* As long as no two threads were in set_usecase at once (see UsecaseIsAwake): whenever
\* nobody holds voice_out->lock, the stream's standby flag and UC_CALL agree, whichever
\* thread started, stopped or failed to start the call: a later stop skips a stream in
\* standby, so that a usecase left behind would stay for good.
StandbyMatches == ~tangled /\ OutFree => (standby <=> Call \notin usecase)

\* As long as no two threads were in set_usecase at once: once the mailbox is empty and
\* all threads rest, the call is up exactly if the last decision was to start it, in
\* whatever order modes, routes, crashes and restarts of the DSP came, unless the last
\* command was sent out of order with its decision (a restart of the DSP looks at
\* call_mode without the lock), was overwritten by the tuning tool, failed, or a start
\* has once overlapped a Bluetooth hang-up.
HangUpWins ==
    Quiet /\ ~asserted /\ slip = "none" /\ ~tangled => (Call \in usecase <=> callStart)

\* Under the same conditions, once all rests, call_status tells the inputs and modes
\* whether a call is up, although it is written in critical sections of its own before
\* and after the call is started or stopped, and a crash of the DSP takes the call down
\* without writing it.
StatusMatches ==
    Quiet /\ ~asserted /\ slip = "none" /\ ~tangled => (Call \in usecase <=> Active)
=============================================================================
