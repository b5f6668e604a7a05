--------------------------- MODULE DspAccessProofs ---------------------------
(***************************************************************************)
(* The count of accesses survives failures, and the DSP is awake for       *)
(* whoever was let in, for any threads and any usecases: that depends on   *)
(* dsp_ctl->lock alone (CounterSteps says what a step may do to the        *)
(* counter).  That it is awake for every usecase that needs it depends on  *)
(* actl->lock too: as long as the lock did its work, one thread at a time  *)
(* is in a section and what it read of actl->usecase is still true         *)
(* (LockKept).                                                             *)
(***************************************************************************)
EXTENDS DspAccess, FiniteSetTheorems, TLAPS

\* The arithmetic of the set of threads inside.
LEMMA InsideFacts ==
  ASSUME inside \subseteq Accessors
  PROVE  /\ Cardinality(inside) \in Nat
         /\ Cardinality(inside) = 0 <=> inside = {}
         /\ \A t \in inside : Cardinality(inside \ {t}) = Cardinality(inside) - 1
         /\ \A t \in Accessors \ inside : Cardinality(inside \cup {t}) = Cardinality(inside) + 1
<1>1. inside \in SUBSET Accessors
  OBVIOUS
<1>2. IsFiniteSet(inside)
  BY <1>1, AccessorsAssumption, FS_Subset
<1>3. Cardinality(inside) \in Nat /\ (Cardinality(inside) = 0 <=> inside = {})
  BY <1>2, FS_CardinalityType, FS_EmptySet
<1>4. \A t \in inside : Cardinality(inside \ {t}) = Cardinality(inside) - 1
  BY <1>2, FS_RemoveElement
<1>5. \A t \in Accessors \ inside : Cardinality(inside \cup {t}) = Cardinality(inside) + 1
  BY <1>2, FS_AddElement
<1> QED BY <1>3, <1>4, <1>5

\* What a step may do to the counter: one operation of one thread, or nothing.
LEMMA CounterSteps ==
  ASSUME [Next]_vars
  PROVE  \/ \E t \in Accessors : Access(t)
         \/ /\ UNCHANGED inside
            /\ SleepCtrl(TRUE) \/ SleepCtrl(FALSE) \/ WakeFails \/ SleepFails \/ UNCHANGED dspVars
<1> DEFINE Counts == SleepCtrl(TRUE) \/ SleepCtrl(FALSE) \/ WakeFails \/ SleepFails \/ UNCHANGED dspVars
<1>1. ASSUME NEW t \in Users, NEW u \in Usecases, Uses(t, u) PROVE UNCHANGED inside /\ Counts
  BY <1>1 DEF Uses, UsecaseWake, UsecaseStays, UsecaseTest
<1>2. ASSUME NEW t \in Users, Proceeds(t) PROVE UNCHANGED inside /\ Counts
  BY <1>2 DEF Proceeds, UsecaseWakeFails, UsecaseRefused, UsecaseRead, UsecaseSet, UsecaseClear,
     UsecaseSleep, FmStarts, FmStops, FmVotes, EnableFmSleep
<1>3. CASE StrayUnlock
  BY <1>3 DEF StrayUnlock
<1>4. CASE UNCHANGED vars
  BY <1>4 DEF vars
<1> QED BY <1>1, <1>2, <1>3, <1>4 DEF Next

\* A failed write is on record ...
LEMMA FailFacts ==
  /\ WakeFails => TRUE \in refused'
  /\ SleepFails => FALSE \in refused'
  /\ \A t : PairEnterFails(t) => TRUE \in refused'
  /\ \A t : PairLeaveFails(t) => FALSE \in refused'
BY DEF WakeFails, SleepFails, PairEnterFails, PairLeaveFails, Refuse

-----------------------------------------------------------------------------
(* The types, of the counter and of the rest.                                *)
DspType ==
    /\ awake \in BOOLEAN /\ status \in BOOLEAN /\ count \in Nat
    /\ refused \subseteq BOOLEAN /\ inside \subseteq Accessors
LockType ==
    /\ usecase \subseteq Usecases /\ fmSleep \in BOOLEAN /\ fmPlays \in BOOLEAN
    /\ locked \in BOOLEAN /\ tangled \in BOOLEAN
    /\ op \in [Users -> Ops] /\ uc \in [Users -> Usecases] /\ saw \in [Users -> SUBSET Usecases]

\* ... and stays there.
LEMMA RecordStep ==
  ASSUME [Next]_vars
  PROVE  refused \subseteq refused'
<1> USE DEF Refuse
<1>1. ASSUME NEW t \in Accessors, PairEnter(t) PROVE refused \subseteq refused'
  BY <1>1 DEF PairEnter, NobodyElse
<1>2. ASSUME NEW t \in Accessors, PairEnterFails(t) PROVE refused \subseteq refused'
  BY <1>2 DEF PairEnterFails, NobodyElse
<1>3. ASSUME NEW t \in Accessors, PairLeave(t) PROVE refused \subseteq refused'
  BY <1>3 DEF PairLeave, NobodyElse
<1>4. ASSUME NEW t \in Accessors, PairLeaveFails(t) PROVE refused \subseteq refused'
  BY <1>4 DEF PairLeaveFails, NobodyElse
<1>5. CASE SleepCtrl(TRUE) /\ UNCHANGED inside
  BY <1>5 DEF SleepCtrl
<1>6. CASE SleepCtrl(FALSE) /\ UNCHANGED inside
  BY <1>6 DEF SleepCtrl
<1>7. CASE WakeFails /\ UNCHANGED inside
  BY <1>7 DEF WakeFails
<1>8. CASE SleepFails /\ UNCHANGED inside
  BY <1>8 DEF SleepFails
<1>9. CASE UNCHANGED dspVars /\ UNCHANGED inside
  BY <1>9 DEF dspVars
<1> QED BY <1>1, <1>2, <1>3, <1>4, <1>5, <1>6, <1>7, <1>8, <1>9,
           CounterSteps DEF Access

\* With at most one access left over, a thread that leaves finds count above 0.
LEMMA DspTypeStep ==
  ASSUME DspType, CountIsKept, [Next]_vars
  PROVE  DspType'
<1> USE InsideFacts DEF DspType, CountIsKept, Refuse
<1>1. ASSUME NEW t \in Accessors, PairEnter(t) PROVE DspType'
  <2>1. awake' \in BOOLEAN
    BY <1>1 DEF PairEnter
  <2>2. count' \in Nat /\ inside' \subseteq Accessors
    BY <1>1 DEF PairEnter
  <2> QED BY <1>1, <2>1, <2>2 DEF PairEnter
<1>2. ASSUME NEW t \in Accessors, PairEnterFails(t) PROVE DspType'
  BY <1>2 DEF PairEnterFails, NobodyElse
<1>3. ASSUME NEW t \in Accessors, PairLeave(t) PROVE DspType'
  <2>1. awake' \in BOOLEAN
    BY <1>3 DEF PairLeave
  <2>2. count' \in Nat /\ inside' \subseteq Accessors
    BY <1>3 DEF PairLeave
  <2> QED BY <1>3, <2>1, <2>2 DEF PairLeave
<1>4. ASSUME NEW t \in Accessors, PairLeaveFails(t) PROVE DspType'
  BY <1>4 DEF PairLeaveFails, NobodyElse
<1>5. CASE SleepCtrl(TRUE) /\ UNCHANGED inside
  BY <1>5 DEF SleepCtrl
<1>6. CASE SleepCtrl(FALSE) /\ UNCHANGED inside
  BY <1>6 DEF SleepCtrl
<1>7. CASE WakeFails /\ UNCHANGED inside
  BY <1>7 DEF WakeFails
<1>8. CASE SleepFails /\ UNCHANGED inside
  BY <1>8 DEF SleepFails
<1>9. CASE UNCHANGED dspVars /\ UNCHANGED inside
  BY <1>9 DEF dspVars
<1> QED BY <1>1, <1>2, <1>3, <1>4, <1>5, <1>6, <1>7, <1>8, <1>9,
           CounterSteps DEF Access

\* The threads in set_usecase keep their types.
LEMMA LockTypeStep ==
  ASSUME LockType, [Next]_vars
  PROVE  LockType'
<1> USE UsecasesAssumption DEF LockType, Ops, dspVars, fmVars, lockVars, vars
<1>1. CASE \E t \in Accessors : Access(t)
  BY <1>1 DEF Access, PairEnter, PairEnterFails, PairLeave, PairLeaveFails
<1>2. ASSUME NEW t \in Users, NEW u \in Usecases, UsecaseWake(t, u) PROVE LockType'
  BY <1>2 DEF UsecaseWake, Enter, Arrives
<1>3. ASSUME NEW t \in Users, NEW u \in Usecases, UsecaseStays(t, u) PROVE LockType'
  BY <1>3 DEF UsecaseStays, Passes, Arrives
<1>4. ASSUME NEW t \in Users, NEW u \in Usecases, UsecaseTest(t, u) PROVE LockType'
  BY <1>4 DEF UsecaseTest, Enter, Arrives
<1>5. ASSUME NEW t \in Users, UsecaseWakeFails(t) PROVE LockType'
  BY <1>5 DEF UsecaseWakeFails, Passes, Arrives
<1>6. ASSUME NEW t \in Users, UsecaseRefused(t) PROVE LockType'
  BY <1>6 DEF UsecaseRefused, Leave
<1>7. ASSUME NEW t \in Users, UsecaseRead(t) PROVE LockType'
  BY <1>7 DEF UsecaseRead, Continue
<1>8. ASSUME NEW t \in Users, UsecaseSet(t) PROVE LockType'
  BY <1>8 DEF UsecaseSet, Leave
<1>9. ASSUME NEW t \in Users, UsecaseClear(t) PROVE LockType'
  BY <1>9 DEF UsecaseClear, Continue
<1>10. ASSUME NEW t \in Users, UsecaseSleep(t) PROVE LockType'
  BY <1>10 DEF UsecaseSleep, Leave
<1>11. ASSUME NEW t \in Users, FmStarts(t) PROVE LockType'
  BY <1>11 DEF FmStarts, EnableFmSleep, Enter, Passes, Arrives
<1>12. ASSUME NEW t \in Users, FmStops(t) PROVE LockType'
  BY <1>12 DEF FmStops, EnableFmSleep, Enter, Passes, Arrives
<1>13. ASSUME NEW t \in Users, FmVotes(t) PROVE LockType'
  BY <1>13 DEF FmVotes, Leave
<1>14. CASE StrayUnlock
  BY <1>14 DEF StrayUnlock
<1>15. CASE UNCHANGED vars
  BY <1>15
<1> QED BY <1>1, <1>2, <1>3, <1>4, <1>5, <1>6, <1>7, <1>8, <1>9, <1>10, <1>11,
           <1>12, <1>13, <1>14, <1>15, Zenon DEF Next, Uses, Proceeds

\* A failed sleep adds an access only where there was none left over.
LEMMA CountStep ==
  ASSUME DspType, CountIsKept, [Next]_vars
  PROVE  CountIsKept'
<1> USE InsideFacts DEF DspType, CountIsKept
<1>1. ASSUME NEW t \in Accessors, PairEnter(t) PROVE CountIsKept'
  BY <1>1 DEF PairEnter, NobodyElse
<1>2. ASSUME NEW t \in Accessors, PairEnterFails(t) PROVE CountIsKept'
  BY <1>2 DEF PairEnterFails, NobodyElse
<1>3. ASSUME NEW t \in Accessors, PairLeave(t) PROVE CountIsKept'
  BY <1>3 DEF PairLeave, NobodyElse
<1>4. ASSUME NEW t \in Accessors, PairLeaveFails(t) PROVE CountIsKept'
  BY <1>4 DEF PairLeaveFails, NobodyElse
<1>5. CASE SleepCtrl(TRUE) /\ UNCHANGED inside
  BY <1>5 DEF SleepCtrl
<1>6. CASE SleepCtrl(FALSE) /\ UNCHANGED inside
  BY <1>6 DEF SleepCtrl
<1>7. CASE WakeFails /\ UNCHANGED inside
  BY <1>7 DEF WakeFails
<1>8. CASE SleepFails /\ UNCHANGED inside
  BY <1>8 DEF SleepFails
<1>9. CASE UNCHANGED dspVars /\ UNCHANGED inside
  BY <1>9 DEF dspVars
<1> QED BY <1>1, <1>2, <1>3, <1>4, <1>5, <1>6, <1>7, <1>8, <1>9,
           CounterSteps DEF Access

LEMMA InitType == Init => DspType /\ LockType /\ CountIsKept
<1>1. Fm \in Usecases
  BY UsecasesAssumption
<1>2. Cardinality({}) = 0
  BY FS_EmptySet
<1>3. Init => DspType /\ LockType
  <2>1. 0 \in Nat
    OBVIOUS
  <2> QED BY <1>1, <2>1, Zenon DEF Init, DspType, LockType, Ops
<1>4. Init => CountIsKept
  BY <1>2 DEF Init, CountIsKept
<1> QED BY <1>3, <1>4

\* dsp_sleep_ctrl and dsp_sleep_ctrl_pair never lose a thread that is inside,
\* and failures leave at most one access over, for any number of threads.
THEOREM CountKept == Spec => [](TypeOK /\ CountIsKept)
<1> DEFINE IInv == DspType /\ LockType /\ CountIsKept
<1>1. IInv /\ [Next]_vars => IInv'
  BY DspTypeStep, LockTypeStep, CountStep
<1>2. IInv => TypeOK /\ CountIsKept
  BY DEF TypeOK, DspType, LockType
<1>3. Init => IInv
  BY InitType
<1> HIDE DEF IInv
<1> QED BY <1>1, <1>2, <1>3, PTL DEF Spec

-----------------------------------------------------------------------------
(* While no write of a sleep fails, the DSP is awake whenever somebody       *)
(* counts or a usecase has asked for it.                                     *)
AwakeForSome == (count > 0 \/ status = TRUE) => awake = TRUE

(* Then no access is left over.                                              *)
Exact == count = Cardinality(inside)

\* Without failed sleeps the counter is the number of threads inside.
LEMMA ExactStep ==
  ASSUME FALSE \notin refused', DspType, Exact, [Next]_vars
  PROVE  Exact'
<1> USE InsideFacts, FailFacts DEF DspType, Exact
<1>1. ASSUME NEW t \in Accessors, PairEnter(t) PROVE Exact'
  BY <1>1 DEF PairEnter, NobodyElse
<1>2. ASSUME NEW t \in Accessors, PairEnterFails(t) PROVE Exact'
  BY <1>2 DEF PairEnterFails, NobodyElse
<1>3. ASSUME NEW t \in Accessors, PairLeave(t) PROVE Exact'
  BY <1>3 DEF PairLeave, NobodyElse
<1>4. ASSUME NEW t \in Accessors, PairLeaveFails(t) PROVE Exact'
  BY <1>4 DEF PairLeaveFails, NobodyElse
<1>5. CASE SleepCtrl(TRUE) /\ UNCHANGED inside
  BY <1>5 DEF SleepCtrl
<1>6. CASE SleepCtrl(FALSE) /\ UNCHANGED inside
  BY <1>6 DEF SleepCtrl
<1>7. CASE WakeFails /\ UNCHANGED inside
  BY <1>7 DEF WakeFails
<1>8. CASE SleepFails /\ UNCHANGED inside
  BY <1>8 DEF SleepFails
<1>9. CASE UNCHANGED dspVars /\ UNCHANGED inside
  BY <1>9 DEF dspVars
<1> QED BY <1>1, <1>2, <1>3, <1>4, <1>5, <1>6, <1>7, <1>8, <1>9,
           CounterSteps DEF Access

\* Every operation on the counter keeps the DSP awake for somebody.
LEMMA AwakeStep ==
  ASSUME FALSE \notin refused', DspType, Exact, AwakeForSome, [Next]_vars
  PROVE  AwakeForSome'
<1> USE InsideFacts, FailFacts DEF DspType, Exact, AwakeForSome
<1>1. ASSUME NEW t \in Accessors, PairEnter(t) PROVE AwakeForSome'
  BY <1>1 DEF PairEnter, NobodyElse
<1>2. ASSUME NEW t \in Accessors, PairEnterFails(t) PROVE AwakeForSome'
  BY <1>2 DEF PairEnterFails, NobodyElse
<1>3. ASSUME NEW t \in Accessors, PairLeave(t) PROVE AwakeForSome'
  BY <1>3 DEF PairLeave, NobodyElse
<1>4. ASSUME NEW t \in Accessors, PairLeaveFails(t) PROVE AwakeForSome'
  BY <1>4 DEF PairLeaveFails, NobodyElse
<1>5. CASE SleepCtrl(TRUE) /\ UNCHANGED inside
  BY <1>5 DEF SleepCtrl
<1>6. CASE SleepCtrl(FALSE) /\ UNCHANGED inside
  BY <1>6 DEF SleepCtrl
<1>7. CASE WakeFails /\ UNCHANGED inside
  BY <1>7 DEF WakeFails
<1>8. CASE SleepFails /\ UNCHANGED inside
  BY <1>8 DEF SleepFails
<1>9. CASE UNCHANGED dspVars /\ UNCHANGED inside
  BY <1>9 DEF dspVars
<1> QED BY <1>1, <1>2, <1>3, <1>4, <1>5, <1>6, <1>7, <1>8, <1>9,
           CounterSteps DEF Access

\* A thread that dsp_sleep_ctrl_pair let in finds the DSP awake, for any number
\* of threads and usecases, until the mixer refuses to let the DSP sleep.
THEOREM AccessAwake ==
  Spec => []AccessIsAwake
<1> DEFINE Kept == FALSE \notin refused => Exact /\ AwakeForSome
           IInv == DspType /\ CountIsKept /\ Kept
<1>1. Init => IInv
  BY InitType, FS_EmptySet DEF Init, Exact, AwakeForSome
<1>2. IInv /\ [Next]_vars => IInv'
  <2> SUFFICES ASSUME IInv, [Next]_vars PROVE IInv'
    OBVIOUS
  <2>1. DspType' /\ CountIsKept'
    BY DspTypeStep, CountStep
  <2>2. ASSUME FALSE \notin refused' PROVE Exact' /\ AwakeForSome'
    <3>1. Exact /\ AwakeForSome
      BY <2>2, RecordStep
    <3> QED BY <2>2, <3>1, ExactStep, AwakeStep
  <2> QED BY <2>1, <2>2
<1>3. IInv => AccessIsAwake
  <2> SUFFICES ASSUME IInv, FALSE \notin refused, inside # {} PROVE awake
    BY DEF AccessIsAwake
  <2>1. count > 0
    BY InsideFacts DEF Exact, DspType
  <2> QED BY <2>1 DEF AwakeForSome, DspType
<1> HIDE DEF IInv
<1> QED BY <1>1, <1>2, <1>3, PTL DEF Spec

-----------------------------------------------------------------------------
(* actl->lock.  As long as nobody entered a section while another was in     *)
(* one, a thread is alone in its section, and what it read is still true.    *)
Alone == \A s, t \in Users : op[s] # "none" /\ op[t] # "none" => s = t
StillTrue ==
    \A t \in Users :
        /\ op[t] \in {"set", "clear"} => saw[t] = usecase
        /\ op[t] \in {"fmSleep", "fmWake"} => usecase = {Fm}
        /\ op[t] = "fmSleep" => fmSleep = TRUE
LockKept == ~tangled => Alone /\ StillTrue

\* A tangled history stays one.
LEMMA TangledStep ==
  ASSUME LockType, [Next]_vars
  PROVE  tangled = TRUE => tangled' = TRUE
<1> USE DEF LockType, dspVars, fmVars, lockVars, vars
<1>1. CASE \E t \in Accessors : Access(t)
  BY <1>1 DEF Access, PairEnter, PairEnterFails, PairLeave, PairLeaveFails
<1>2. ASSUME NEW t \in Users, NEW u \in Usecases, UsecaseWake(t, u) PROVE tangled = TRUE => tangled' = TRUE
  BY <1>2 DEF UsecaseWake, Enter, Arrives
<1>3. ASSUME NEW t \in Users, NEW u \in Usecases, UsecaseStays(t, u) PROVE tangled = TRUE => tangled' = TRUE
  BY <1>3 DEF UsecaseStays, Passes, Arrives
<1>4. ASSUME NEW t \in Users, NEW u \in Usecases, UsecaseTest(t, u) PROVE tangled = TRUE => tangled' = TRUE
  BY <1>4 DEF UsecaseTest, Enter, Arrives
<1>5. ASSUME NEW t \in Users, UsecaseWakeFails(t) PROVE tangled = TRUE => tangled' = TRUE
  BY <1>5 DEF UsecaseWakeFails, Passes, Arrives
<1>6. ASSUME NEW t \in Users, UsecaseRefused(t) PROVE tangled = TRUE => tangled' = TRUE
  BY <1>6 DEF UsecaseRefused, Leave
<1>7. ASSUME NEW t \in Users, UsecaseRead(t) PROVE tangled = TRUE => tangled' = TRUE
  BY <1>7 DEF UsecaseRead, Continue
<1>8. ASSUME NEW t \in Users, UsecaseSet(t) PROVE tangled = TRUE => tangled' = TRUE
  BY <1>8 DEF UsecaseSet, Leave
<1>9. ASSUME NEW t \in Users, UsecaseClear(t) PROVE tangled = TRUE => tangled' = TRUE
  BY <1>9 DEF UsecaseClear, Continue
<1>10. ASSUME NEW t \in Users, UsecaseSleep(t) PROVE tangled = TRUE => tangled' = TRUE
  BY <1>10 DEF UsecaseSleep, Leave
<1>11. ASSUME NEW t \in Users, FmStarts(t) PROVE tangled = TRUE => tangled' = TRUE
  BY <1>11 DEF FmStarts, EnableFmSleep, Enter, Passes, Arrives
<1>12. ASSUME NEW t \in Users, FmStops(t) PROVE tangled = TRUE => tangled' = TRUE
  BY <1>12 DEF FmStops, EnableFmSleep, Enter, Passes, Arrives
<1>13. ASSUME NEW t \in Users, FmVotes(t) PROVE tangled = TRUE => tangled' = TRUE
  BY <1>13 DEF FmVotes, Leave
<1>14. CASE StrayUnlock
  BY <1>14 DEF StrayUnlock
<1>15. CASE UNCHANGED vars
  BY <1>15
<1> QED BY <1>1, <1>2, <1>3, <1>4, <1>5, <1>6, <1>7, <1>8, <1>9, <1>10, <1>11,
           <1>12, <1>13, <1>14, <1>15, Zenon DEF Next, Uses, Proceeds

\* Who enters a section without a tangle finds nobody in one.
LEMMA AloneStep ==
  ASSUME LockType, Alone, ~tangled', [Next]_vars
  PROVE  Alone'
<1> USE DEF LockType, Alone, dspVars, fmVars, lockVars, vars
<1>1. CASE \E t \in Accessors : Access(t)
  BY <1>1 DEF Access, PairEnter, PairEnterFails, PairLeave, PairLeaveFails
<1>2. ASSUME NEW t \in Users, NEW u \in Usecases, UsecaseWake(t, u) PROVE Alone'
  BY <1>2 DEF UsecaseWake, Enter, Arrives
<1>3. ASSUME NEW t \in Users, NEW u \in Usecases, UsecaseStays(t, u) PROVE Alone'
  BY <1>3 DEF UsecaseStays, Passes, Arrives
<1>4. ASSUME NEW t \in Users, NEW u \in Usecases, UsecaseTest(t, u) PROVE Alone'
  BY <1>4 DEF UsecaseTest, Enter, Arrives
<1>5. ASSUME NEW t \in Users, UsecaseWakeFails(t) PROVE Alone'
  BY <1>5 DEF UsecaseWakeFails, Passes, Arrives
<1>6. ASSUME NEW t \in Users, UsecaseRefused(t) PROVE Alone'
  BY <1>6 DEF UsecaseRefused, Leave
<1>7. ASSUME NEW t \in Users, UsecaseRead(t) PROVE Alone'
  BY <1>7 DEF UsecaseRead, Continue
<1>8. ASSUME NEW t \in Users, UsecaseSet(t) PROVE Alone'
  BY <1>8 DEF UsecaseSet, Leave
<1>9. ASSUME NEW t \in Users, UsecaseClear(t) PROVE Alone'
  BY <1>9 DEF UsecaseClear, Continue
<1>10. ASSUME NEW t \in Users, UsecaseSleep(t) PROVE Alone'
  BY <1>10 DEF UsecaseSleep, Leave
<1>11. ASSUME NEW t \in Users, FmStarts(t) PROVE Alone'
  BY <1>11 DEF FmStarts, EnableFmSleep, Enter, Passes, Arrives
<1>12. ASSUME NEW t \in Users, FmStops(t) PROVE Alone'
  BY <1>12 DEF FmStops, EnableFmSleep, Enter, Passes, Arrives
<1>13. ASSUME NEW t \in Users, FmVotes(t) PROVE Alone'
  BY <1>13 DEF FmVotes, Leave
<1>14. CASE StrayUnlock
  BY <1>14 DEF StrayUnlock
<1>15. CASE UNCHANGED vars
  BY <1>15
<1> QED BY <1>1, <1>2, <1>3, <1>4, <1>5, <1>6, <1>7, <1>8, <1>9, <1>10, <1>11,
           <1>12, <1>13, <1>14, <1>15, Zenon DEF Next, Uses, Proceeds

\* Nobody else changes actl->usecase under the reader.
LEMMA StillTrueStep ==
  ASSUME LockType, Alone, StillTrue, ~tangled', [Next]_vars
  PROVE  StillTrue'
<1> USE DEF LockType, Alone, StillTrue, dspVars, fmVars, lockVars, vars
<1>1. CASE \E t \in Accessors : Access(t)
  BY <1>1 DEF Access, PairEnter, PairEnterFails, PairLeave, PairLeaveFails
<1>2. ASSUME NEW t \in Users, NEW u \in Usecases, UsecaseWake(t, u) PROVE StillTrue'
  BY <1>2 DEF UsecaseWake, Enter, Arrives
<1>3. ASSUME NEW t \in Users, NEW u \in Usecases, UsecaseStays(t, u) PROVE StillTrue'
  BY <1>3 DEF UsecaseStays, Passes, Arrives
<1>4. ASSUME NEW t \in Users, NEW u \in Usecases, UsecaseTest(t, u) PROVE StillTrue'
  BY <1>4 DEF UsecaseTest, Enter, Arrives
<1>5. ASSUME NEW t \in Users, UsecaseWakeFails(t) PROVE StillTrue'
  BY <1>5 DEF UsecaseWakeFails, Passes, Arrives
<1>6. ASSUME NEW t \in Users, UsecaseRefused(t) PROVE StillTrue'
  BY <1>6 DEF UsecaseRefused, Leave
<1>7. ASSUME NEW t \in Users, UsecaseRead(t) PROVE StillTrue'
  BY <1>7 DEF UsecaseRead, Continue
<1>8. ASSUME NEW t \in Users, UsecaseSet(t) PROVE StillTrue'
  BY <1>8 DEF UsecaseSet, Leave
<1>9. ASSUME NEW t \in Users, UsecaseClear(t) PROVE StillTrue'
  BY <1>9 DEF UsecaseClear, Continue
<1>10. ASSUME NEW t \in Users, UsecaseSleep(t) PROVE StillTrue'
  BY <1>10 DEF UsecaseSleep, Leave
<1>11. ASSUME NEW t \in Users, FmStarts(t) PROVE StillTrue'
  BY <1>11 DEF FmStarts, EnableFmSleep, Enter, Passes, Arrives
<1>12. ASSUME NEW t \in Users, FmStops(t) PROVE StillTrue'
  BY <1>12 DEF FmStops, EnableFmSleep, Enter, Passes, Arrives
<1>13. ASSUME NEW t \in Users, FmVotes(t) PROVE StillTrue'
  BY <1>13 DEF FmVotes, Leave
<1>14. CASE StrayUnlock
  BY <1>14 DEF StrayUnlock
<1>15. CASE UNCHANGED vars
  BY <1>15
<1> QED BY <1>1, <1>2, <1>3, <1>4, <1>5, <1>6, <1>7, <1>8, <1>9, <1>10, <1>11,
           <1>12, <1>13, <1>14, <1>15, Zenon DEF Next, Uses, Proceeds

\* As long as the lock did its work, nobody was in a section with another thread.
LEMMA LockKeeps == Spec => [](LockType /\ LockKept)
<1>1. Init => LockType /\ LockKept
  BY InitType DEF Init, LockKept, Alone, StillTrue
<1>2. LockType /\ LockKept /\ [Next]_vars => (LockType /\ LockKept)'
  <2> SUFFICES ASSUME LockType, LockKept, [Next]_vars PROVE LockType' /\ LockKept'
    OBVIOUS
  <2>1. LockType'
    BY LockTypeStep
  <2>2. ASSUME ~tangled' PROVE Alone' /\ StillTrue'
    <3>1. Alone /\ StillTrue
      BY <2>2, TangledStep DEF LockType, LockKept
    <3> QED BY <2>2, <3>1, AloneStep, StillTrueStep
  <2> QED BY <2>1, <2>2 DEF LockKept
<1> QED BY <1>1, <1>2, PTL DEF Spec

-----------------------------------------------------------------------------
(* The usecases.  While no write fails and nothing is tangled, status says   *)
(* whether one of them needs the DSP.                                        *)
Needed == usecase # {} /\ ~(usecase = {Fm} /\ fmSleep = TRUE)
Wanted ==
    /\ \A t \in Users : op[t] \in {"on", "set"} => status = TRUE
    /\ Needed => status = TRUE \/ \E t \in Users : op[t] = "fmWake"
    /\ Resting /\ usecase = {} => status = FALSE
(* ... and without anybody the DSP sleeps.                                   *)
Sleeps == count = 0 /\ status = FALSE => awake = FALSE

\* set_usecase, enable_dspsleep_for_fm and the radio keep status in step.
LEMMA WantedStep ==
  ASSUME refused' = {}, DspType, LockType, Alone, StillTrue, ~tangled', Wanted, [Next]_vars
  PROVE  Wanted'
<1> USE UsecasesAssumption, FailFacts DEF DspType, LockType, Alone, StillTrue,
        Wanted, Needed, Resting, dspVars, fmVars, lockVars, vars
<1>1. CASE \E t \in Accessors : Access(t)
  BY <1>1 DEF Access, PairEnter, PairEnterFails, PairLeave, PairLeaveFails
<1>2. ASSUME NEW t \in Users, NEW u \in Usecases, UsecaseWake(t, u) PROVE Wanted'
  BY <1>2 DEF UsecaseWake, Enter, Arrives, SleepCtrl
<1>3. ASSUME NEW t \in Users, NEW u \in Usecases, UsecaseStays(t, u) PROVE Wanted'
  BY <1>3 DEF UsecaseStays, Passes, Arrives
<1>4. ASSUME NEW t \in Users, NEW u \in Usecases, UsecaseTest(t, u) PROVE Wanted'
  BY <1>4 DEF UsecaseTest, Enter, Arrives
<1>5. ASSUME NEW t \in Users, UsecaseWakeFails(t) PROVE Wanted'
  BY <1>5 DEF UsecaseWakeFails, Passes, Arrives, WakeFails
<1>6. ASSUME NEW t \in Users, UsecaseRefused(t) PROVE Wanted'
  BY <1>6 DEF UsecaseRefused, Leave, Refuses
<1>7. ASSUME NEW t \in Users, UsecaseRead(t) PROVE Wanted'
  BY <1>7 DEF UsecaseRead, Continue
<1>8. ASSUME NEW t \in Users, UsecaseSet(t) PROVE Wanted'
  BY <1>8 DEF UsecaseSet, Leave
<1>9. ASSUME NEW t \in Users, UsecaseClear(t) PROVE Wanted'
  BY <1>9 DEF UsecaseClear, Continue
<1>10. ASSUME NEW t \in Users, UsecaseSleep(t) PROVE Wanted'
  <2>1. CASE MaySleep /\ SleepCtrl(FALSE)
    BY <1>10, <2>1 DEF UsecaseSleep, Leave, MaySleep, SleepCtrl
  <2>2. CASE MaySleep /\ SleepFails
    BY <1>10, <2>2 DEF UsecaseSleep, Leave, MaySleep, SleepFails
  <2>3. CASE ~MaySleep
    BY <1>10, <2>3 DEF UsecaseSleep, Leave, MaySleep
  <2> QED BY <1>10, <2>1, <2>2, <2>3 DEF UsecaseSleep
<1>11. ASSUME NEW t \in Users, FmStarts(t) PROVE Wanted'
  BY <1>11 DEF FmStarts, EnableFmSleep, Enter, Passes, Arrives
<1>12. ASSUME NEW t \in Users, FmStops(t) PROVE Wanted'
  BY <1>12 DEF FmStops, EnableFmSleep, Enter, Passes, Arrives
<1>13. ASSUME NEW t \in Users, FmVotes(t) PROVE Wanted'
  <2>1. CASE op[t] = "fmSleep" /\ SleepCtrl(FALSE)
    BY <1>13, <2>1 DEF FmVotes, Leave, SleepCtrl
  <2>2. CASE op[t] = "fmWake" /\ SleepCtrl(TRUE)
    BY <1>13, <2>2 DEF FmVotes, Leave, SleepCtrl
  <2>3. CASE SleepFails \/ WakeFails
    BY <2>3
  <2> QED BY <1>13, <2>1, <2>2, <2>3 DEF FmVotes
<1>14. CASE StrayUnlock
  BY <1>14 DEF StrayUnlock
<1>15. CASE UNCHANGED vars
  BY <1>15
<1> QED BY <1>1, <1>2, <1>3, <1>4, <1>5, <1>6, <1>7, <1>8, <1>9, <1>10, <1>11,
           <1>12, <1>13, <1>14, <1>15, Zenon DEF Next, Uses, Proceeds

\* The last one out lets the DSP sleep.
LEMMA SleepsStep ==
  ASSUME refused' = {}, DspType, Exact, AwakeForSome, Sleeps, [Next]_vars
  PROVE  Sleeps'
<1> USE InsideFacts, FailFacts DEF DspType, Exact, AwakeForSome, Sleeps
<1>1. ASSUME NEW t \in Accessors, PairEnter(t) PROVE Sleeps'
  BY <1>1 DEF PairEnter, NobodyElse
<1>2. ASSUME NEW t \in Accessors, PairEnterFails(t) PROVE Sleeps'
  BY <1>2 DEF PairEnterFails, NobodyElse
<1>3. ASSUME NEW t \in Accessors, PairLeave(t) PROVE Sleeps'
  BY <1>3 DEF PairLeave, NobodyElse
<1>4. ASSUME NEW t \in Accessors, PairLeaveFails(t) PROVE Sleeps'
  BY <1>4 DEF PairLeaveFails, NobodyElse
<1>5. CASE SleepCtrl(TRUE) /\ UNCHANGED inside
  BY <1>5 DEF SleepCtrl
<1>6. CASE SleepCtrl(FALSE) /\ UNCHANGED inside
  BY <1>6 DEF SleepCtrl
<1>7. CASE WakeFails /\ UNCHANGED inside
  BY <1>7 DEF WakeFails
<1>8. CASE SleepFails /\ UNCHANGED inside
  BY <1>8 DEF SleepFails
<1>9. CASE UNCHANGED dspVars /\ UNCHANGED inside
  BY <1>9 DEF dspVars
<1> QED BY <1>1, <1>2, <1>3, <1>4, <1>5, <1>6, <1>7, <1>8, <1>9,
           CounterSteps DEF Access

\* While no write fails and the lock does its work: the DSP is awake for every usecase
\* that needs it, and sleeps when nothing runs and nobody is inside.
LEMMA VoteIsRight ==
  Spec => [](UsecaseIsAwake /\ IdleSleeps)
<1> DEFINE Vote == Exact /\ AwakeForSome /\ Wanted /\ Sleeps
           IInv == DspType /\ LockType /\ CountIsKept /\ LockKept /\ (Untangled => Vote)
<1>1. Init => IInv
  <2> SUFFICES ASSUME Init PROVE IInv
    OBVIOUS
  <2>1. Exact /\ AwakeForSome /\ Sleeps
    BY FS_EmptySet DEF Init, Exact, AwakeForSome, Sleeps
  <2>2. Wanted
    BY DEF Init, Wanted, Needed, Resting
  <2>3. LockKept
    BY DEF Init, LockKept, Alone, StillTrue
  <2> QED BY InitType, <2>1, <2>2, <2>3
<1>2. IInv /\ [Next]_vars => IInv'
  <2> SUFFICES ASSUME IInv, [Next]_vars PROVE IInv'
    OBVIOUS
  <2>1. DspType' /\ LockType' /\ CountIsKept'
    BY DspTypeStep, LockTypeStep, CountStep
  <2>2. tangled' = FALSE => tangled = FALSE
    BY <2>1, TangledStep DEF LockType
  <2>3. ASSUME ~tangled' PROVE Alone' /\ StillTrue'
    <3>1. Alone /\ StillTrue
      BY <2>1, <2>2, <2>3 DEF LockType, LockKept
    <3> QED BY <2>3, <3>1, AloneStep, StillTrueStep
  <2>4. ASSUME Untangled' PROVE Vote'
    <3>1. refused' = {} /\ ~tangled' /\ refused = {} /\ ~tangled
      BY <2>1, <2>2, <2>4, RecordStep DEF Untangled, LockType
    <3>2. Vote /\ Alone /\ StillTrue
      BY <3>1 DEF Untangled, LockKept
    <3>3. FALSE \notin refused'
      BY <3>1
    <3> QED BY <3>1, <3>2, <3>3, ExactStep, AwakeStep, WantedStep, SleepsStep
  <2> QED BY <2>1, <2>3, <2>4 DEF LockKept
<1>3. IInv => UsecaseIsAwake /\ IdleSleeps
  <2> SUFFICES ASSUME IInv, Untangled, Resting PROVE UsecaseIsAwake /\ IdleSleeps
    BY DEF UsecaseIsAwake, IdleSleeps
  <2>1. UsecaseIsAwake
    BY DEF DspType, LockType, AwakeForSome, Wanted, Needed, Resting, UsecaseIsAwake
  <2>2. IdleSleeps
    BY InsideFacts DEF DspType, Exact, Wanted, Sleeps, IdleSleeps
  <2> QED BY <2>1, <2>2
<1> HIDE DEF IInv
<1> QED BY <1>1, <1>2, <1>3, PTL DEF Spec

\* While the mixer does as told and no two threads were in a section of actl->lock at
\* once, whatever usecase needs the DSP finds it awake.
THEOREM UsecasesAwake == Spec => []UsecaseIsAwake
BY VoteIsRight, PTL

\* In the same circumstances the DSP sleeps once nobody needs it.
THEOREM IdleDspSleeps == Spec => []IdleSleeps
BY VoteIsRight, PTL
=============================================================================
