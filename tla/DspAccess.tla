------------------------------ MODULE DspAccess ------------------------------
(***************************************************************************)
(* Who keeps the audio DSP awake: the usecases of set_usecase and          *)
(* enable_dspsleep_for_fm in whale/audio_control.cpp, and the counter of   *)
(* dsp_sleep_ctrl_pair and dsp_sleep_ctrl in audio_param/dsp_control.c.    *)
(*                                                                         *)
(* Each operation on the counter is one critical section of dsp_ctl->lock. *)
(* set_usecase and enable_dspsleep_for_fm hold actl->lock around theirs,   *)
(* and do so in steps, since the threads that switch devices come in       *)
(* between, and since do_select_device may unlock actl->lock although      *)
(* another thread holds it (StrayUnlock).  Then two of them overlap.       *)
(***************************************************************************)
EXTENDS Integers, FiniteSets

CONSTANTS Accessors,  \* threads that access the DSP for a while
          Users,      \* threads that turn usecases on and off
          Usecases, Fm, Call,
          Records     \* recordings a call may refuse, by the device in use

ASSUME UsecasesAssumption ==
    /\ {Fm, Call} \subseteq Usecases /\ Fm # Call
    /\ Records \subseteq Usecases \ {Fm, Call}
ASSUME AccessorsAssumption == IsFiniteSet(Accessors)

VARIABLES
    awake,    \* the value of the mixer control
    refused,  \* the values that the mixer has refused to write so far
    status,   \* agdsp_sleep_status: the DSP is wanted by a usecase
    count,    \* agdsp_access_cnt
    inside,   \* threads between dsp_sleep_ctrl_pair(true) and (false)
    usecase,  \* actl->usecase
    fmSleep,  \* enable_fm_dspsleep
    fmPlays,  \* the radio's stream is started and not in standby
    locked,   \* actl->lock is taken
    op, uc,   \* what a thread is about to do in its section, and for which usecase
    saw,      \* actl->usecase as the thread read it, until it writes it back
    tangled   \* history: a thread entered its section while another was in one

dspVars == <<awake, refused, status, count>>
fmVars == <<fmSleep, fmPlays>>
lockVars == <<locked, op, uc, saw, tangled>>
vars == <<dspVars, inside, usecase, fmVars, lockVars>>

Ops == {"none", "on", "set", "clear", "off", "fmSleep", "fmWake"}

TypeOK ==
    /\ awake \in BOOLEAN /\ status \in BOOLEAN /\ count \in Nat
    /\ refused \subseteq BOOLEAN /\ inside \subseteq Accessors
    /\ usecase \subseteq Usecases /\ fmSleep \in BOOLEAN /\ fmPlays \in BOOLEAN
    /\ locked \in BOOLEAN /\ tangled \in BOOLEAN
    /\ op \in [Users -> Ops] /\ uc \in [Users -> Usecases] /\ saw \in [Users -> SUBSET Usecases]

Init ==
    /\ awake = FALSE /\ status = FALSE /\ count = 0 /\ inside = {} /\ refused = {}
    /\ usecase = {} /\ fmSleep = FALSE /\ fmPlays = FALSE
    /\ locked = FALSE /\ tangled = FALSE
    /\ op = [t \in Users |-> "none"] /\ uc = [t \in Users |-> Fm] /\ saw = [t \in Users |-> {}]

-----------------------------------------------------------------------------
(* dsp_sleep_ctrl_pair: only the first thread in wakes the DSP, and only the *)
(* last one out lets it sleep, unless a usecase wants it.  A thread whose    *)
(* wake-up fails is not let in.                                              *)
Refuse(value) == refused' = refused \cup {value}
NobodyElse_Count(n) == count = n
NobodyElse(n) == count = n /\ ~status

PairEnter(t) ==
    /\ t \notin inside
    /\ awake' = IF NobodyElse(0) THEN TRUE ELSE awake
    /\ count' = count + 1 /\ inside' = inside \cup {t}
    /\ UNCHANGED <<refused, status, usecase, fmVars, lockVars>>
PairEnterFails(t) ==
    /\ t \notin inside /\ NobodyElse(0) /\ Refuse(TRUE)
    /\ UNCHANGED <<awake, status, count, inside, usecase, fmVars, lockVars>>
PairLeave(t) ==
    /\ t \in inside /\ inside' = inside \ {t}
    /\ count' = count - 1
    /\ awake' = IF NobodyElse(1) THEN FALSE ELSE awake
    /\ UNCHANGED <<refused, status, usecase, fmVars, lockVars>>
PairLeaveFails_Add(t) ==
    /\ Refuse(FALSE) /\ NobodyElse(1)
    /\ t \in inside /\ inside' = inside \ {t} /\ count' = count + 1
    /\ UNCHANGED <<awake, status, usecase, fmVars, lockVars>>
\* The write fails: the counter keeps a count that nobody will take back.
PairLeaveFails(t) ==
    /\ Refuse(FALSE) /\ NobodyElse(1)
    /\ t \in inside /\ inside' = inside \ {t}
    /\ UNCHANGED <<awake, status, count, usecase, fmVars, lockVars>>

(* dsp_sleep_ctrl, when the mixer does as told ...                           *)
SleepCtrl_Always(on) == UNCHANGED refused /\ status' = on /\ count' = count /\ awake' = on
SleepCtrl_Forgets(on) ==
    /\ UNCHANGED <<refused, count>> /\ status' = (IF count = 0 THEN on ELSE status)
    /\ awake' = IF count = 0 THEN on ELSE awake
SleepCtrl(on) ==
    /\ UNCHANGED <<refused, count>> /\ status' = on
    /\ awake' = IF count = 0 THEN on ELSE awake
(* ... and when it does not: a failed wake-up withdraws the wish, a failed   *)
(* sleep counts as one access.                                               *)
WakeFails == Refuse(TRUE) /\ count = 0 /\ status' = FALSE /\ UNCHANGED <<awake, count>>
SleepFails == Refuse(FALSE) /\ count = 0 /\ status' = FALSE /\ count' = 1 /\ UNCHANGED awake

-----------------------------------------------------------------------------
(* actl->lock.  Whoever unlocks it sets it free, also from another holder.   *)
Arrives == ~locked /\ tangled' = (tangled \/ \E d \in Users : op[d] # "none")
Enter(t, o) ==
    /\ op[t] = "none" /\ Arrives /\ locked' = TRUE
    /\ op' = [op EXCEPT ![t] = o]
\* A section in which nothing happens, or a single operation on the counter.
Passes(t) == op[t] = "none" /\ Arrives /\ UNCHANGED <<locked, op, uc, saw>>
Continue(t, o) == op' = [op EXCEPT ![t] = o] /\ UNCHANGED <<locked, uc, tangled>>
Leave(t) ==
    /\ locked' = FALSE /\ op' = [op EXCEPT ![t] = "none"] /\ uc' = [uc EXCEPT ![t] = Fm]
    /\ saw' = [saw EXCEPT ![t] = {}] /\ UNCHANGED tangled
\* do_select_device of the current device with force_set, its second unlock.
StrayUnlock ==
    /\ locked /\ locked' = FALSE
    /\ UNCHANGED <<dspVars, inside, usecase, fmVars, op, uc, saw, tangled>>

(* set_usecase(on): wake the DSP, test for the usecase, then add it ...      *)
Refuses(u) == Call \in usecase /\ u \in Records
UsecaseWake(t, u) ==
    /\ Enter(t, "on") /\ uc' = [uc EXCEPT ![t] = u] /\ SleepCtrl(TRUE)
    /\ UNCHANGED <<inside, usecase, fmVars, saw>>
UsecaseWakeFails(t) == Passes(t) /\ WakeFails /\ UNCHANGED <<inside, usecase, fmVars>>
UsecaseRefused(t) ==
    /\ op[t] = "on" /\ (uc[t] \in usecase \/ Refuses(uc[t])) /\ Leave(t)
    /\ UNCHANGED <<dspVars, inside, usecase, fmVars>>
UsecaseRead(t) ==
    /\ op[t] = "on" /\ uc[t] \notin usecase /\ Continue(t, "set")
    /\ saw' = [saw EXCEPT ![t] = usecase]
    /\ UNCHANGED <<dspVars, inside, usecase, fmVars>>
UsecaseSet(t) ==
    /\ op[t] = "set" /\ usecase' = saw[t] \cup {uc[t]} /\ Leave(t)
    /\ UNCHANGED <<dspVars, inside, fmVars>>

(* ... and set_usecase(off): test for it, remove it, then let the DSP sleep  *)
(* if no usecase is left, or only radio that was told to play without it.    *)
UsecaseStays(t, u) ==
    /\ Passes(t) /\ (u \notin usecase \/ Refuses(u))
    /\ UNCHANGED <<dspVars, inside, usecase, fmVars>>
UsecaseTest(t, u) ==
    /\ Enter(t, "clear") /\ u \in usecase /\ (u = Fm => ~fmPlays)
    /\ uc' = [uc EXCEPT ![t] = u] /\ saw' = [saw EXCEPT ![t] = usecase]
    /\ UNCHANGED <<dspVars, inside, usecase, fmVars>>
UsecaseClear(t) ==
    /\ op[t] = "clear" /\ usecase' = saw[t] \ {uc[t]} /\ Continue(t, "off")
    /\ saw' = [saw EXCEPT ![t] = {}]
    /\ UNCHANGED <<dspVars, inside, fmVars>>
MaySleep == usecase = {} \/ (usecase = {Fm} /\ fmSleep)
UsecaseSleep(t) ==
    /\ op[t] = "off" /\ Leave(t)
    /\ IF MaySleep THEN SleepCtrl(FALSE) \/ SleepFails ELSE UNCHANGED dspVars
    /\ UNCHANGED <<inside, usecase, fmVars>>

(* enable_dspsleep_for_fm: it does nothing unless the radio is all that plays *)
EnableFmSleep(t, on) ==
    /\ IF usecase = {Fm} THEN /\ Enter(t, IF on THEN "fmSleep" ELSE "fmWake")
                              /\ fmSleep' = on /\ UNCHANGED <<uc, saw>>
                         ELSE Passes(t) /\ UNCHANGED fmSleep
    /\ UNCHANGED <<dspVars, inside, usecase>>
FmVotes(t) ==
    /\ \/ op[t] = "fmSleep" /\ (SleepCtrl(FALSE) \/ SleepFails)
       \/ op[t] = "fmWake" /\ (SleepCtrl(TRUE) \/ WakeFails)
    /\ Leave(t) /\ UNCHANGED <<inside, usecase, fmVars>>
\* start_fm and do_fm_out_standby, between set_usecase(on) and set_usecase(off)
FmStarts(t) == Fm \in usecase /\ ~fmPlays /\ fmPlays' = TRUE /\ EnableFmSleep(t, TRUE)
FmStops(t) == fmPlays /\ fmPlays' = FALSE /\ EnableFmSleep(t, FALSE)

Access(t) == PairEnter(t) \/ PairEnterFails(t) \/ PairLeave(t) \/ PairLeaveFails(t)
Uses(t, u) == UsecaseWake(t, u) \/ UsecaseStays(t, u) \/ UsecaseTest(t, u)
Proceeds(t) ==
    \/ UsecaseWakeFails(t) \/ UsecaseRefused(t) \/ UsecaseRead(t) \/ UsecaseSet(t)
    \/ UsecaseClear(t) \/ UsecaseSleep(t)
    \/ FmStarts(t) \/ FmStops(t) \/ FmVotes(t)

Next ==
    \/ \E t \in Accessors : Access(t)
    \/ \E t \in Users : (\E u \in Usecases : Uses(t, u)) \/ Proceeds(t)
    \/ StrayUnlock

Spec == Init /\ [][Next]_vars

-----------------------------------------------------------------------------
\* Until the mixer refuses to let the DSP sleep, whoever dsp_sleep_ctrl_pair(true)
\* let in finds the DSP awake until it calls dsp_sleep_ctrl_pair(false), whatever
\* the usecases do meanwhile, however often a wake-up fails and also when
\* actl->lock was taken from its holder.  (A failed sleep breaks it: the access
\* it leaves in agdsp_access_cnt lets the next thread in without a wake-up.)
AccessIsAwake == FALSE \notin refused /\ inside # {} => awake

\* agdsp_access_cnt never loses a thread that is still inside, and failed sleeps,
\* in either function and however many, leave at most one access too many.
CountIsKept == count - Cardinality(inside) \in {0, 1}

(* The lock did its work: nobody entered a section while another was in one. *)
Untangled == refused = {} /\ ~tangled
Resting == \A t \in Users : op[t] = "none"

\* While the mixer does as told and no section of actl->lock was entered by a second
\* thread (which the stray unlock of do_select_device makes possible), set_usecase and
\* enable_dspsleep_for_fm leave the DSP awake as long as a usecase runs that needs it.
UsecaseIsAwake ==
    Untangled /\ Resting /\ usecase # {} /\ ~(usecase = {Fm} /\ fmSleep) => awake

\* In the same circumstances the DSP sleeps once nothing runs and nobody is inside,
\* however the threads and set_usecase interleaved.
IdleSleeps == Untangled /\ Resting /\ usecase = {} /\ inside = {} => ~awake
=============================================================================
