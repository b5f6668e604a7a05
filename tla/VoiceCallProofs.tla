---------------------------- MODULE VoiceCallProofs ----------------------------
(***************************************************************************)
(* A voice call for any set of other usecases and threads.  The call uses  *)
(* the DSP by the steps of DspAccess alone, so what is proved there holds  *)
(* here (UsesDspAsAllowed), the exclusion of actl->lock included.  That    *)
(* the last decision wins is inductive with what is still to come of it: a *)
(* decision not sent yet, a command nobody has taken, or a start or stop   *)
(* under way (UpInv, EndInv).  What is said of UC_CALL is said as long as  *)
(* no two threads were in set_usecase at once.                             *)
(***************************************************************************)
EXTENDS VoiceCall, DspAccessProofs

Up == Call \in usecase

-----------------------------------------------------------------------------
\* Every step of a call is a step of DspAccess, or none.
LEMMA CallIsNext == [CallNext]_allVars => [Next]_vars
<1> SUFFICES ASSUME CallNext PROVE Next \/ UNCHANGED vars
  BY DEF allVars
<1>1. CASE Decide
  BY <1>1 DEF Decide, SetMode, IsBtVoice, SetRoute
<1>2. CASE Message
  BY <1>2 DEF Message, DspAsserts, DspBoots
<1>3. CASE Mail
  BY <1>3 DEF Mail, SendVoice, SendUpdate, TakeCommand
<1>4. CASE StartCall
  <2>1. Tx \in Users /\ Call \in Usecases
    BY UsecasesAssumption, CallersAssumption DEF Threads
  <2> QED BY <1>4, <2>1
      DEF StartCall, PreStart, UseOn, UseFails, UseRefused, UseRead, UseSet, PcmStarts, PcmFails, Started,
          Next, Uses, Proceeds
<1>5. CASE StopCall
  <2>1. Threads \subseteq Users /\ Call \in Usecases
    BY UsecasesAssumption, CallersAssumption
  <2>2. PICK t \in Threads :
            \/ StopPre(t) \/ StopOut(t) \/ StopUse(t) \/ StopUseless(t) \/ StopClear(t)
            \/ StopSleep(t) \/ StopStatus(t)
    BY <1>5 DEF StopCall
  <2>3. CASE StopPre(t) \/ StopOut(t) \/ StopStatus(t)
    BY <2>3 DEF StopPre, StopOut, StopStatus
  <2>4. CASE StopUse(t) \/ StopUseless(t) \/ StopClear(t) \/ StopSleep(t)
    BY <2>1, <2>4 DEF StopUse, StopUseless, StopClear, StopSleep, Next, Uses, Proceeds
  <2> QED BY <2>2, <2>3, <2>4
<1>6. CASE Others
  BY <1>6 DEF Others, Next
<1> QED BY <1>1, <1>2, <1>3, <1>4, <1>5, <1>6 DEF CallNext

\* Whatever the call does to the DSP is a step of DspAccess, so that everything proved
\* there of any usecase holds of a call with all its threads.
THEOREM UsesDspAsAllowed == CallSpec => Spec
<1>1. CallInit => Init
  BY DEF CallInit
<1> QED BY <1>1, CallIsNext, PTL DEF CallSpec, Spec

\* While the mixer does as told and actl->lock its work, the DSP is awake during a call,
\* whichever thread started it and whoever starts and stops what beside it.
THEOREM CallFindsDspAwake == CallSpec => []UsecaseIsAwake
BY UsesDspAsAllowed, UsecasesAwake, PTL

-----------------------------------------------------------------------------
\* Which labels a thread can be at.
LabelInv ==
    /\ pc[Tx] \notin {"isBt", "sendStart", "sendStop"}
    /\ pc[Rx] \in {"idle", "sendStart", "stopOut", "stopUse", "stopSleep"}
    /\ \A t \in Deciders : pc[t] \notin Starting \cup Failing
    /\ pc[Monitor] # "sendStart"

\* One thread at a time holds voice_out->lock.
OutInv == \A s, t \in Threads : pc[s] \in Holding /\ pc[t] \in Holding => s = t

\* The threads of the call turn on and off UC_CALL, and the others something else.
OpInv ==
    /\ \A t \in Threads :
        /\ pc[t] = "useOn" => op[t] \in {"on", "set"}
        /\ pc[t] \in {"stopSleep", "failSleep"} => op[t] = "off"
        /\ op[t] # "none" => uc[t] = Call
        /\ op[t] # "none" => pc[t] \in {"useOn", "stopUse", "failUse", "stopSleep", "failSleep"}
    /\ \A t \in Users \ Threads : uc[t] # Call

\* The mailbox keeps its command while it is served; a call that was decided on is in
\* call mode; whoever holds adev->lock in is_bt_voice has just hung up.
CmdInv ==
    /\ pc[Tx] \in Starting \cup Failing => cmd = "start"
    /\ pc[Tx] \in Standing => cmd = "stop"
    /\ fresh => posts > 0
    /\ pc[Rx] \in Standing => asserted
    /\ callStart => callMode = "inCall"
    /\ \A t \in Deciders : At(t, "isBt") => ~callStart

\* What the history variable records.
OverlapInv == slip # "overlapped" => ~(StartComes /\ HangsUpInline)

\* A stop that is out of date will be followed by its start.
StopInv == slip = "none" /\ callStart /\ cmd = "stop" => At(Framework, "sendStart")

(* The rest holds as long as actl->lock did its work.                         *)
\* The stream is in standby until it is started and as soon as it is stopped.
HoldInv == \A t \in Threads : pc[t] \in Holding => standby

\* What the holder of voice_out->lock, and the others, see of the usecase.
UseInv ==
    \A t \in Threads :
        /\ pc[t] \in {"pcm", "stopUse", "failUse"} => Up
        /\ pc[t] \in {"preStart", "lock", "useOn", "stopSleep", "failSleep"} => ~Up
StandbyInv == OutFree => (standby <=> ~Up)

\* A stop that has done its work finds the call down.
DownInv ==
    /\ pc[Tx] \in {"stopSleep", "stopStatus"} => ~Up
    /\ slip # "overlapped" => \A t \in Deciders : pc[t] \in {"stopSleep", "stopStatus"} => ~Up

\* A call that nobody works on has the status of one.
StatusInv == slip # "overlapped" /\ Up /\ TxFree /\ ~HangsUpInline => callStatus = "start"

\* A call that was decided on is up, or what brings it up is still to come.
UpInv ==
    slip = "none" /\ callStart /\ ~asserted =>
        \/ At(Framework, "sendStart") \/ At(Rx, "sendStart")
        \/ cmd = "start" /\ fresh
        \/ pc[Tx] \in {"preStart", "lock", "useOn"}
        \/ Up /\ ~HangsUpInline /\ pc[Tx] \notin Failing

\* A call that was ended is down, or what takes it down is still to come.
EndInv ==
    slip = "none" /\ ~callStart =>
        \/ \E t \in Deciders : pc[t] \in {"isBt", "sendStop"}
        \/ cmd = "stop" /\ fresh
        \/ pc[Tx] \in Standing \/ HangsUpInline
        \/ ~Up /\ ~Active /\ pc[Tx] \notin Starting /\ ~(cmd = "start" /\ posts > 0)

Always == CallTypeOK /\ LabelInv /\ OutInv /\ OpInv /\ CmdInv /\ OverlapInv /\ StopInv
CallIs == HoldInv /\ UseInv /\ StandbyInv /\ DownInv /\ StatusInv /\ UpInv /\ EndInv
Inv == Always /\ (~tangled => CallIs)

-----------------------------------------------------------------------------
\* What the steps of DspAccess do to the call's usecase.
LEMMA DspFacts ==
  ASSUME LockType, StillTrue, OpInv
  PROVE  /\ \A t \in Threads :
            /\ UsecaseWake(t, Call) => (Up' <=> Up)
            /\ UsecaseWakeFails(t) => (Up' <=> Up)
            /\ UsecaseRefused(t) => (Up' <=> Up) /\ Up
            /\ UsecaseRead(t) => (Up' <=> Up) /\ ~Up
            /\ UsecaseSet(t) => Up'
            /\ UsecaseTest(t, Call) => (Up' <=> Up) /\ Up
            /\ UsecaseStays(t, Call) => (Up' <=> Up) /\ ~Up
            /\ UsecaseClear(t) => ~Up'
            /\ UsecaseSleep(t) => (Up' <=> Up)
         /\ Others => (Up' <=> Up)
<1>1. Threads \subseteq Users /\ Call \notin Records /\ Call # Fm
  BY CallersAssumption, UsecasesAssumption
<1>2. ASSUME NEW t \in Threads
      PROVE  /\ UsecaseWake(t, Call) => (Up' <=> Up)
             /\ UsecaseWakeFails(t) => (Up' <=> Up)
             /\ UsecaseRefused(t) => (Up' <=> Up) /\ Up
             /\ UsecaseRead(t) => (Up' <=> Up) /\ ~Up
             /\ UsecaseSet(t) => Up'
             /\ UsecaseTest(t, Call) => (Up' <=> Up) /\ Up
             /\ UsecaseStays(t, Call) => (Up' <=> Up) /\ ~Up
             /\ UsecaseClear(t) => ~Up'
             /\ UsecaseSleep(t) => (Up' <=> Up)
  BY <1>1 DEF Up, OpInv, Refuses, UsecaseWake, UsecaseWakeFails, UsecaseRefused, UsecaseRead, UsecaseSet,
     UsecaseTest, UsecaseStays, UsecaseClear, UsecaseSleep
<1>3. ASSUME Others PROVE Up' <=> Up
  <2> USE DEF Up
  <2>1. CASE \E t \in Accessors : Access(t)
    BY <2>1 DEF Access, PairEnter, PairEnterFails, PairLeave, PairLeaveFails
  <2>2. ASSUME NEW t \in Users \ Threads, NEW u \in Usecases \ {Call}, Uses(t, u) PROVE Up' <=> Up
    BY <2>2 DEF Uses, UsecaseWake, UsecaseStays, UsecaseTest
  <2>3. ASSUME NEW t \in Users \ Threads, Proceeds(t) PROVE Up' <=> Up
    <3>1. CASE UsecaseSet(t) \/ UsecaseClear(t)
      BY <3>1 DEF UsecaseSet, UsecaseClear, OpInv, StillTrue
    <3>2. CASE ~(UsecaseSet(t) \/ UsecaseClear(t))
      BY <2>3, <3>2 DEF Proceeds, UsecaseWakeFails, UsecaseRefused, UsecaseRead, UsecaseSleep,
         FmStarts, FmStops, FmVotes, EnableFmSleep
    <3> QED BY <3>1, <3>2
  <2>4. CASE StrayUnlock
    BY <2>4 DEF StrayUnlock
  <2> QED BY <1>3, <2>1, <2>2, <2>3, <2>4 DEF Others
<1> QED BY <1>2, <1>3

\* Every step keeps the types.
LEMMA CallTypeStep ==
  ASSUME CallTypeOK, [CallNext]_allVars
  PROVE  CallTypeOK'
<1> USE ThreadsAssumption, PostsAssumption DEF voice, box, callVars, At, Goto,
        Deciders, Threads, CallTypeOK, Labels, Starting, Standing, Failing
<1>1. ASSUME NEW t \in Deciders, NEW m \in {"normal", "inCall"}, SetMode(t, m) PROVE CallTypeOK'
  BY <1>1 DEF SetMode
<1>2. ASSUME NEW t \in Threads, IsBtVoice(t) PROVE CallTypeOK'
  BY <1>2 DEF IsBtVoice, Note
<1>3. CASE SetRoute
  BY <1>3 DEF SetRoute
<1>4. CASE DspAsserts
  BY <1>4 DEF DspAsserts
<1>5. CASE DspBoots
  BY <1>5 DEF DspBoots
<1>6. ASSUME NEW t \in Threads, SendVoice(t) PROVE CallTypeOK'
  BY <1>6 DEF SendVoice, Send, Note
<1>7. CASE SendUpdate
  BY <1>7 DEF SendUpdate, Send, Note
<1>8. CASE TakeCommand
  <2>1. posts' \in 0..MaxPosts /\ fresh' = FALSE /\ UNCHANGED <<voice, cmd, slip>>
    BY <1>8 DEF TakeCommand
  <2>2. pc' \in [Threads -> Labels]
    BY <1>8 DEF TakeCommand
  <2> QED BY <2>1, <2>2
<1>9. CASE PreStart
  BY <1>9 DEF PreStart
<1>10. CASE UseOn
  BY <1>10 DEF UseOn
<1>11. CASE UseFails
  BY <1>11 DEF UseFails, StartFails, Note
<1>12. CASE UseRefused
  BY <1>12 DEF UseRefused, StartFails, Note
<1>13. CASE UseRead
  BY <1>13 DEF UseRead
<1>14. CASE UseSet
  BY <1>14 DEF UseSet
<1>15. CASE PcmStarts
  BY <1>15 DEF PcmStarts
<1>16. CASE PcmFails
  BY <1>16 DEF PcmFails, StartFails, Note
<1>17. CASE Started
  BY <1>17 DEF Started
<1>18. ASSUME NEW t \in Threads, StopPre(t) PROVE CallTypeOK'
  BY <1>18 DEF StopPre
<1>19. ASSUME NEW t \in Threads, StopOut(t) PROVE CallTypeOK'
  BY <1>19 DEF StopOut, AfterStandby
<1>20. ASSUME NEW t \in Threads, StopUse(t) PROVE CallTypeOK'
  BY <1>20 DEF StopUse
<1>21. ASSUME NEW t \in Threads, StopUseless(t) PROVE CallTypeOK'
  BY <1>21 DEF StopUseless, AfterStandby
<1>22. ASSUME NEW t \in Threads, StopClear(t) PROVE CallTypeOK'
  BY <1>22 DEF StopClear
<1>23. ASSUME NEW t \in Threads, StopSleep(t) PROVE CallTypeOK'
  BY <1>23 DEF StopSleep, AfterStandby
<1>24. ASSUME NEW t \in Threads, StopStatus(t) PROVE CallTypeOK'
  BY <1>24 DEF StopStatus
<1>25. CASE Others
  BY <1>25 DEF Others
<1>26. CASE UNCHANGED allVars
  BY <1>26 DEF allVars, vars
<1> QED BY <1>1, <1>2, <1>3, <1>4, <1>5, <1>6, <1>7, <1>8, <1>9, <1>10, <1>11,
           <1>12, <1>13, <1>14, <1>15, <1>16, <1>17, <1>18, <1>19, <1>20,
           <1>21, <1>22, <1>23, <1>24, <1>25, <1>26 DEF CallNext, Decide,
           Message, Mail, StartCall, StopCall, Threads, Deciders

\* Every thread stays on its own path.
LEMMA LabelStep ==
  ASSUME CallTypeOK, LabelInv, [CallNext]_allVars
  PROVE  LabelInv'
<1> USE ThreadsAssumption DEF voice, box, callVars, At, Goto, Deciders,
        Threads, CallTypeOK, LabelInv, Starting, Standing, Failing
<1>1. ASSUME NEW t \in Deciders, NEW m \in {"normal", "inCall"}, SetMode(t, m) PROVE LabelInv'
  BY <1>1 DEF SetMode
<1>2. ASSUME NEW t \in Threads, IsBtVoice(t) PROVE LabelInv'
  BY <1>2 DEF IsBtVoice, Note
<1>3. CASE SetRoute
  BY <1>3 DEF SetRoute
<1>4. CASE DspAsserts
  BY <1>4 DEF DspAsserts
<1>5. CASE DspBoots
  BY <1>5 DEF DspBoots
<1>6. ASSUME NEW t \in Threads, SendVoice(t) PROVE LabelInv'
  BY <1>6 DEF SendVoice, Send, Note
<1>7. CASE SendUpdate
  BY <1>7 DEF SendUpdate, Send, Note
<1>8. CASE TakeCommand
  BY <1>8 DEF TakeCommand
<1>9. CASE PreStart
  BY <1>9 DEF PreStart
<1>10. CASE UseOn
  BY <1>10 DEF UseOn
<1>11. CASE UseFails
  BY <1>11 DEF UseFails, StartFails, Note
<1>12. CASE UseRefused
  BY <1>12 DEF UseRefused, StartFails, Note
<1>13. CASE UseRead
  BY <1>13 DEF UseRead
<1>14. CASE UseSet
  BY <1>14 DEF UseSet
<1>15. CASE PcmStarts
  BY <1>15 DEF PcmStarts
<1>16. CASE PcmFails
  BY <1>16 DEF PcmFails, StartFails, Note
<1>17. CASE Started
  BY <1>17 DEF Started
<1>18. ASSUME NEW t \in Threads, StopPre(t) PROVE LabelInv'
  BY <1>18 DEF StopPre
<1>19. ASSUME NEW t \in Threads, StopOut(t) PROVE LabelInv'
  BY <1>19 DEF StopOut, AfterStandby
<1>20. ASSUME NEW t \in Threads, StopUse(t) PROVE LabelInv'
  BY <1>20 DEF StopUse
<1>21. ASSUME NEW t \in Threads, StopUseless(t) PROVE LabelInv'
  BY <1>21 DEF StopUseless, AfterStandby
<1>22. ASSUME NEW t \in Threads, StopClear(t) PROVE LabelInv'
  BY <1>22 DEF StopClear
<1>23. ASSUME NEW t \in Threads, StopSleep(t) PROVE LabelInv'
  BY <1>23 DEF StopSleep, AfterStandby
<1>24. ASSUME NEW t \in Threads, StopStatus(t) PROVE LabelInv'
  BY <1>24 DEF StopStatus
<1>25. CASE Others
  BY <1>25 DEF Others
<1>26. CASE UNCHANGED allVars
  BY <1>26 DEF allVars, vars
<1> QED BY <1>1, <1>2, <1>3, <1>4, <1>5, <1>6, <1>7, <1>8, <1>9, <1>10, <1>11,
           <1>12, <1>13, <1>14, <1>15, <1>16, <1>17, <1>18, <1>19, <1>20,
           <1>21, <1>22, <1>23, <1>24, <1>25, <1>26 DEF CallNext, Decide,
           Message, Mail, StartCall, StopCall, Threads, Deciders

\* voice_out->lock is taken when it is free.
LEMMA OutStep ==
  ASSUME CallTypeOK, LabelInv, OutInv, [CallNext]_allVars
  PROVE  OutInv'
<1> USE ThreadsAssumption DEF voice, box, callVars, At, Goto, Deciders,
        Threads, CallTypeOK, LabelInv, OutInv, OutFree, Starting, Failing,
        Holding
<1>1. ASSUME NEW t \in Deciders, NEW m \in {"normal", "inCall"}, SetMode(t, m) PROVE OutInv'
  BY <1>1 DEF SetMode
<1>2. ASSUME NEW t \in Threads, IsBtVoice(t) PROVE OutInv'
  BY <1>2 DEF IsBtVoice, Note
<1>3. CASE SetRoute
  BY <1>3 DEF SetRoute
<1>4. CASE DspAsserts
  BY <1>4 DEF DspAsserts
<1>5. CASE DspBoots
  BY <1>5 DEF DspBoots
<1>6. ASSUME NEW t \in Threads, SendVoice(t) PROVE OutInv'
  BY <1>6 DEF SendVoice, Send, Note
<1>7. CASE SendUpdate
  BY <1>7 DEF SendUpdate, Send, Note
<1>8. CASE TakeCommand
  <2>1. pc[Tx] \notin Holding /\ pc'[Tx] \notin Holding
    BY <1>8 DEF TakeCommand, TxFree
  <2>2. \A t \in Threads : t # Tx => pc'[t] = pc[t]
    BY <1>8 DEF TakeCommand
  <2>3. standby' = standby
    BY <1>8 DEF TakeCommand
  <2> QED BY <2>1, <2>2, <2>3
<1>9. CASE PreStart
  BY <1>9 DEF PreStart
<1>10. CASE UseOn
  BY <1>10 DEF UseOn
<1>11. CASE UseFails
  BY <1>11 DEF UseFails, StartFails, Note
<1>12. CASE UseRefused
  BY <1>12 DEF UseRefused, StartFails, Note
<1>13. CASE UseRead
  BY <1>13 DEF UseRead
<1>14. CASE UseSet
  BY <1>14 DEF UseSet
<1>15. CASE PcmStarts
  BY <1>15 DEF PcmStarts
<1>16. CASE PcmFails
  BY <1>16 DEF PcmFails, StartFails, Note
<1>17. CASE Started
  BY <1>17 DEF Started
<1>18. ASSUME NEW t \in Threads, StopPre(t) PROVE OutInv'
  BY <1>18 DEF StopPre
<1>19. ASSUME NEW t \in Threads, StopOut(t) PROVE OutInv'
  BY <1>19 DEF StopOut, AfterStandby
<1>20. ASSUME NEW t \in Threads, StopUse(t) PROVE OutInv'
  BY <1>20 DEF StopUse
<1>21. ASSUME NEW t \in Threads, StopUseless(t) PROVE OutInv'
  BY <1>21 DEF StopUseless, AfterStandby
<1>22. ASSUME NEW t \in Threads, StopClear(t) PROVE OutInv'
  BY <1>22 DEF StopClear
<1>23. ASSUME NEW t \in Threads, StopSleep(t) PROVE OutInv'
  BY <1>23 DEF StopSleep, AfterStandby
<1>24. ASSUME NEW t \in Threads, StopStatus(t) PROVE OutInv'
  BY <1>24 DEF StopStatus
<1>25. CASE Others
  BY <1>25 DEF Others
<1>26. CASE UNCHANGED allVars
  BY <1>26 DEF allVars, vars
<1> QED BY <1>1, <1>2, <1>3, <1>4, <1>5, <1>6, <1>7, <1>8, <1>9, <1>10, <1>11,
           <1>12, <1>13, <1>14, <1>15, <1>16, <1>17, <1>18, <1>19, <1>20,
           <1>21, <1>22, <1>23, <1>24, <1>25, <1>26 DEF CallNext, Decide,
           Message, Mail, StartCall, StopCall, Threads, Deciders

\* Each thread goes through set_usecase with its own usecase.
LEMMA OpStep ==
  ASSUME CallTypeOK, LockType, LabelInv, OpInv, [CallNext]_allVars
  PROVE  OpInv'
<1> USE ThreadsAssumption, CallersAssumption DEF voice, box, callVars, vars,
        lockVars, At, Goto, Deciders, Threads, CallTypeOK, LockType, OpInv,
        Starting, Failing
<1>1. ASSUME NEW t \in Deciders, NEW m \in {"normal", "inCall"}, SetMode(t, m) PROVE OpInv'
  BY <1>1 DEF SetMode
<1>2. ASSUME NEW t \in Threads, IsBtVoice(t) PROVE OpInv'
  BY <1>2 DEF IsBtVoice, Note
<1>3. CASE SetRoute
  BY <1>3 DEF SetRoute
<1>4. CASE DspAsserts
  BY <1>4 DEF DspAsserts
<1>5. CASE DspBoots
  BY <1>5 DEF DspBoots
<1>6. ASSUME NEW t \in Threads, SendVoice(t) PROVE OpInv'
  BY <1>6 DEF SendVoice, Send, Note
<1>7. CASE SendUpdate
  BY <1>7 DEF SendUpdate, Send, Note
<1>8. CASE TakeCommand
  BY <1>8 DEF TakeCommand, TxFree
<1>9. CASE PreStart
  BY <1>9 DEF PreStart
<1>10. CASE UseOn
  BY <1>10 DEF UseOn, UsecaseWake, Enter
<1>11. CASE UseFails
  BY <1>11 DEF UseFails, StartFails, Note, UsecaseWakeFails, Passes
<1>12. CASE UseRefused
  BY <1>12 DEF UseRefused, StartFails, Note, UsecaseRefused, Leave
<1>13. CASE UseRead
  BY <1>13 DEF UseRead, UsecaseRead, Continue
<1>14. CASE UseSet
  BY <1>14 DEF UseSet, UsecaseSet, Leave
<1>15. CASE PcmStarts
  BY <1>15 DEF PcmStarts
<1>16. CASE PcmFails
  BY <1>16 DEF PcmFails, StartFails, Note
<1>17. CASE Started
  BY <1>17 DEF Started
<1>18. ASSUME NEW t \in Threads, StopPre(t) PROVE OpInv'
  BY <1>18 DEF StopPre
<1>19. ASSUME NEW t \in Threads, StopOut(t) PROVE OpInv'
  BY <1>19 DEF StopOut, AfterStandby
<1>20. ASSUME NEW t \in Threads, StopUse(t) PROVE OpInv'
  BY <1>20 DEF StopUse, UsecaseTest, Enter
<1>21. ASSUME NEW t \in Threads, StopUseless(t) PROVE OpInv'
  BY <1>21 DEF StopUseless, AfterStandby, UsecaseStays, Passes
<1>22. ASSUME NEW t \in Threads, StopClear(t) PROVE OpInv'
  BY <1>22 DEF StopClear, UsecaseClear, Continue
<1>23. ASSUME NEW t \in Threads, StopSleep(t) PROVE OpInv'
  BY <1>23 DEF StopSleep, AfterStandby, UsecaseSleep, Leave
<1>24. ASSUME NEW t \in Threads, StopStatus(t) PROVE OpInv'
  BY <1>24 DEF StopStatus
<1>25. CASE Others
  <2>1. UNCHANGED pc
    BY <1>25 DEF Others
  <2>2. Threads \subseteq Users /\ Fm # Call
    BY CallersAssumption, UsecasesAssumption
  <2>3. CASE (\E a \in Accessors : Access(a)) \/ StrayUnlock
    BY <2>1, <2>3 DEF Access, PairEnter, PairEnterFails, PairLeave, PairLeaveFails, StrayUnlock
  <2>4. ASSUME NEW d \in Users \ Threads, NEW u \in Usecases \ {Call}, Uses(d, u) PROVE OpInv'
    BY <2>1, <2>2, <2>4 DEF Uses, UsecaseWake, UsecaseStays, UsecaseTest, Enter, Passes
  <2>5. ASSUME NEW d \in Users \ Threads, Proceeds(d) PROVE OpInv'
    BY <2>1, <2>2, <2>5 DEF Proceeds, UsecaseWakeFails, UsecaseRefused, UsecaseRead, UsecaseSet, UsecaseClear,
       UsecaseSleep, FmStarts, FmStops, FmVotes, EnableFmSleep, Enter, Passes, Leave, Continue
  <2> QED BY <1>25, <2>3, <2>4, <2>5 DEF Others
<1>26. CASE UNCHANGED allVars
  BY <1>26 DEF allVars, vars
<1> QED BY <1>1, <1>2, <1>3, <1>4, <1>5, <1>6, <1>7, <1>8, <1>9, <1>10, <1>11,
           <1>12, <1>13, <1>14, <1>15, <1>16, <1>17, <1>18, <1>19, <1>20,
           <1>21, <1>22, <1>23, <1>24, <1>25, <1>26 DEF CallNext, Decide,
           Message, Mail, StartCall, StopCall, Threads, Deciders

\* The mailbox is not written while a command is served.
LEMMA CmdStep ==
  ASSUME CallTypeOK, LabelInv, CmdInv, [CallNext]_allVars
  PROVE  CmdInv'
<1> USE ThreadsAssumption DEF voice, box, callVars, At, Goto, Deciders,
        Threads, CallTypeOK, LabelInv, CmdInv, TxFree, AdevFree, Starting,
        Standing, Failing
<1>1. ASSUME NEW t \in Deciders, NEW m \in {"normal", "inCall"}, SetMode(t, m) PROVE CmdInv'
  BY <1>1 DEF SetMode
<1>2. ASSUME NEW t \in Threads, IsBtVoice(t) PROVE CmdInv'
  BY <1>2 DEF IsBtVoice, Note
<1>3. CASE SetRoute
  BY <1>3 DEF SetRoute
<1>4. CASE DspAsserts
  BY <1>4 DEF DspAsserts
<1>5. CASE DspBoots
  BY <1>5 DEF DspBoots
<1>6. ASSUME NEW t \in Threads, SendVoice(t) PROVE CmdInv'
  BY <1>6 DEF SendVoice, Send, Note
<1>7. CASE SendUpdate
  BY <1>7 DEF SendUpdate, Send, Note
<1>8. CASE TakeCommand
  BY <1>8 DEF TakeCommand
<1>9. CASE PreStart
  BY <1>9 DEF PreStart
<1>10. CASE UseOn
  BY <1>10 DEF UseOn
<1>11. CASE UseFails
  BY <1>11 DEF UseFails, StartFails, Note
<1>12. CASE UseRefused
  BY <1>12 DEF UseRefused, StartFails, Note
<1>13. CASE UseRead
  BY <1>13 DEF UseRead
<1>14. CASE UseSet
  BY <1>14 DEF UseSet
<1>15. CASE PcmStarts
  BY <1>15 DEF PcmStarts
<1>16. CASE PcmFails
  BY <1>16 DEF PcmFails, StartFails, Note
<1>17. CASE Started
  BY <1>17 DEF Started
<1>18. ASSUME NEW t \in Threads, StopPre(t) PROVE CmdInv'
  BY <1>18 DEF StopPre
<1>19. ASSUME NEW t \in Threads, StopOut(t) PROVE CmdInv'
  BY <1>19 DEF StopOut, AfterStandby
<1>20. ASSUME NEW t \in Threads, StopUse(t) PROVE CmdInv'
  BY <1>20 DEF StopUse
<1>21. ASSUME NEW t \in Threads, StopUseless(t) PROVE CmdInv'
  BY <1>21 DEF StopUseless, AfterStandby
<1>22. ASSUME NEW t \in Threads, StopClear(t) PROVE CmdInv'
  BY <1>22 DEF StopClear
<1>23. ASSUME NEW t \in Threads, StopSleep(t) PROVE CmdInv'
  BY <1>23 DEF StopSleep, AfterStandby
<1>24. ASSUME NEW t \in Threads, StopStatus(t) PROVE CmdInv'
  BY <1>24 DEF StopStatus
<1>25. CASE Others
  BY <1>25 DEF Others
<1>26. CASE UNCHANGED allVars
  BY <1>26 DEF allVars, vars
<1> QED BY <1>1, <1>2, <1>3, <1>4, <1>5, <1>6, <1>7, <1>8, <1>9, <1>10, <1>11,
           <1>12, <1>13, <1>14, <1>15, <1>16, <1>17, <1>18, <1>19, <1>20,
           <1>21, <1>22, <1>23, <1>24, <1>25, <1>26 DEF CallNext, Decide,
           Message, Mail, StartCall, StopCall, Threads, Deciders

\* A start and an inline hang-up meet at one of two places.
LEMMA OverlapStep ==
  ASSUME CallTypeOK, LabelInv, CmdInv, OverlapInv, [CallNext]_allVars
  PROVE  OverlapInv'
<1> USE ThreadsAssumption DEF voice, box, callVars, At, Goto, Deciders,
        Threads, CallTypeOK, LabelInv, CmdInv, Starting, Standing, Failing,
        StartComes, HangsUpInline, TxFree, OverlapInv
<1>1. ASSUME NEW t \in Deciders, NEW m \in {"normal", "inCall"}, SetMode(t, m) PROVE OverlapInv'
  BY <1>1 DEF SetMode
<1>2. ASSUME NEW t \in Threads, IsBtVoice(t) PROVE OverlapInv'
  BY <1>2 DEF IsBtVoice, Note
<1>3. CASE SetRoute
  BY <1>3 DEF SetRoute
<1>4. CASE DspAsserts
  BY <1>4 DEF DspAsserts
<1>5. CASE DspBoots
  BY <1>5 DEF DspBoots
<1>6. ASSUME NEW t \in Threads, SendVoice(t) PROVE OverlapInv'
  BY <1>6 DEF SendVoice, Send, Note
<1>7. CASE SendUpdate
  BY <1>7 DEF SendUpdate, Send, Note
<1>8. CASE TakeCommand
  BY <1>8 DEF TakeCommand
<1>9. CASE PreStart
  BY <1>9 DEF PreStart
<1>10. CASE UseOn
  BY <1>10 DEF UseOn
<1>11. CASE UseFails
  BY <1>11 DEF UseFails, StartFails, Note
<1>12. CASE UseRefused
  BY <1>12 DEF UseRefused, StartFails, Note
<1>13. CASE UseRead
  BY <1>13 DEF UseRead
<1>14. CASE UseSet
  BY <1>14 DEF UseSet
<1>15. CASE PcmStarts
  BY <1>15 DEF PcmStarts
<1>16. CASE PcmFails
  BY <1>16 DEF PcmFails, StartFails, Note
<1>17. CASE Started
  BY <1>17 DEF Started
<1>18. ASSUME NEW t \in Threads, StopPre(t) PROVE OverlapInv'
  BY <1>18 DEF StopPre
<1>19. ASSUME NEW t \in Threads, StopOut(t) PROVE OverlapInv'
  BY <1>19 DEF StopOut, AfterStandby
<1>20. ASSUME NEW t \in Threads, StopUse(t) PROVE OverlapInv'
  BY <1>20 DEF StopUse
<1>21. ASSUME NEW t \in Threads, StopUseless(t) PROVE OverlapInv'
  BY <1>21 DEF StopUseless, AfterStandby
<1>22. ASSUME NEW t \in Threads, StopClear(t) PROVE OverlapInv'
  BY <1>22 DEF StopClear
<1>23. ASSUME NEW t \in Threads, StopSleep(t) PROVE OverlapInv'
  BY <1>23 DEF StopSleep, AfterStandby
<1>24. ASSUME NEW t \in Threads, StopStatus(t) PROVE OverlapInv'
  BY <1>24 DEF StopStatus
<1>25. CASE Others
  BY <1>25 DEF Others
<1>26. CASE UNCHANGED allVars
  BY <1>26 DEF allVars, vars
<1> QED BY <1>1, <1>2, <1>3, <1>4, <1>5, <1>6, <1>7, <1>8, <1>9, <1>10, <1>11,
           <1>12, <1>13, <1>14, <1>15, <1>16, <1>17, <1>18, <1>19, <1>20,
           <1>21, <1>22, <1>23, <1>24, <1>25, <1>26 DEF CallNext, Decide,
           Message, Mail, StartCall, StopCall, Threads, Deciders

\* Only a new route makes a stop in the mailbox out of date.
LEMMA StopCmdStep ==
  ASSUME CallTypeOK, LabelInv, CmdInv, StopInv, [CallNext]_allVars
  PROVE  StopInv'
<1> USE ThreadsAssumption DEF voice, box, callVars, At, Goto, Deciders,
        Threads, CallTypeOK, LabelInv, CmdInv, Starting, Standing, Failing,
        StartComes, HangsUpInline, TxFree, StopInv
<1>1. ASSUME NEW t \in Deciders, NEW m \in {"normal", "inCall"}, SetMode(t, m) PROVE StopInv'
  BY <1>1 DEF SetMode
<1>2. ASSUME NEW t \in Threads, IsBtVoice(t) PROVE StopInv'
  BY <1>2 DEF IsBtVoice, Note
<1>3. CASE SetRoute
  BY <1>3 DEF SetRoute
<1>4. CASE DspAsserts
  BY <1>4 DEF DspAsserts
<1>5. CASE DspBoots
  BY <1>5 DEF DspBoots
<1>6. ASSUME NEW t \in Threads, SendVoice(t) PROVE StopInv'
  BY <1>6 DEF SendVoice, Send, Note
<1>7. CASE SendUpdate
  BY <1>7 DEF SendUpdate, Send, Note
<1>8. CASE TakeCommand
  BY <1>8 DEF TakeCommand
<1>9. CASE PreStart
  BY <1>9 DEF PreStart
<1>10. CASE UseOn
  BY <1>10 DEF UseOn
<1>11. CASE UseFails
  BY <1>11 DEF UseFails, StartFails, Note
<1>12. CASE UseRefused
  BY <1>12 DEF UseRefused, StartFails, Note
<1>13. CASE UseRead
  BY <1>13 DEF UseRead
<1>14. CASE UseSet
  BY <1>14 DEF UseSet
<1>15. CASE PcmStarts
  BY <1>15 DEF PcmStarts
<1>16. CASE PcmFails
  BY <1>16 DEF PcmFails, StartFails, Note
<1>17. CASE Started
  BY <1>17 DEF Started
<1>18. ASSUME NEW t \in Threads, StopPre(t) PROVE StopInv'
  BY <1>18 DEF StopPre
<1>19. ASSUME NEW t \in Threads, StopOut(t) PROVE StopInv'
  BY <1>19 DEF StopOut, AfterStandby
<1>20. ASSUME NEW t \in Threads, StopUse(t) PROVE StopInv'
  BY <1>20 DEF StopUse
<1>21. ASSUME NEW t \in Threads, StopUseless(t) PROVE StopInv'
  BY <1>21 DEF StopUseless, AfterStandby
<1>22. ASSUME NEW t \in Threads, StopClear(t) PROVE StopInv'
  BY <1>22 DEF StopClear
<1>23. ASSUME NEW t \in Threads, StopSleep(t) PROVE StopInv'
  BY <1>23 DEF StopSleep, AfterStandby
<1>24. ASSUME NEW t \in Threads, StopStatus(t) PROVE StopInv'
  BY <1>24 DEF StopStatus
<1>25. CASE Others
  BY <1>25 DEF Others
<1>26. CASE UNCHANGED allVars
  BY <1>26 DEF allVars, vars
<1> QED BY <1>1, <1>2, <1>3, <1>4, <1>5, <1>6, <1>7, <1>8, <1>9, <1>10, <1>11,
           <1>12, <1>13, <1>14, <1>15, <1>16, <1>17, <1>18, <1>19, <1>20,
           <1>21, <1>22, <1>23, <1>24, <1>25, <1>26 DEF CallNext, Decide,
           Message, Mail, StartCall, StopCall, Threads, Deciders

-----------------------------------------------------------------------------
\* Only the holder of voice_out->lock ends the standby, and lets go.
LEMMA HoldStep ==
  ASSUME LockType, StillTrue, Always, HoldInv, UseInv, StandbyInv,
         [CallNext]_allVars
  PROVE  HoldInv'
<1> USE ThreadsAssumption DEF Always, voice, box, callVars, vars, At, Goto,
        Deciders, Threads, CallTypeOK, LabelInv, OutInv, HoldInv, UseInv,
        StandbyInv, OutFree, Starting, Failing, Holding, Up
<1>1. ASSUME NEW t \in Deciders, NEW m \in {"normal", "inCall"}, SetMode(t, m) PROVE HoldInv'
  BY <1>1 DEF SetMode
<1>2. ASSUME NEW t \in Threads, IsBtVoice(t) PROVE HoldInv'
  BY <1>2 DEF IsBtVoice, Note
<1>3. CASE SetRoute
  BY <1>3 DEF SetRoute
<1>4. CASE DspAsserts
  BY <1>4 DEF DspAsserts
<1>5. CASE DspBoots
  BY <1>5 DEF DspBoots
<1>6. ASSUME NEW t \in Threads, SendVoice(t) PROVE HoldInv'
  BY <1>6 DEF SendVoice, Send, Note
<1>7. CASE SendUpdate
  BY <1>7 DEF SendUpdate, Send, Note
<1>8. CASE TakeCommand
  <2>1. pc[Tx] \notin Holding /\ pc'[Tx] \notin Holding
    BY <1>8 DEF TakeCommand, TxFree
  <2>2. \A t \in Threads : t # Tx => pc'[t] = pc[t]
    BY <1>8 DEF TakeCommand
  <2>3. standby' = standby
    BY <1>8 DEF TakeCommand
  <2> QED BY <2>1, <2>2, <2>3
<1>9. CASE PreStart
  BY <1>9 DEF PreStart
<1>10. CASE UseOn
  BY <1>10, DspFacts DEF UseOn
<1>11. CASE UseFails
  BY <1>11, DspFacts DEF UseFails, StartFails, Note
<1>12. CASE UseRefused
  BY <1>12, DspFacts DEF UseRefused, StartFails, Note
<1>13. CASE UseRead
  BY <1>13, DspFacts DEF UseRead
<1>14. CASE UseSet
  BY <1>14, DspFacts DEF UseSet
<1>15. CASE PcmStarts
  BY <1>15 DEF PcmStarts
<1>16. CASE PcmFails
  BY <1>16 DEF PcmFails, StartFails, Note
<1>17. CASE Started
  BY <1>17 DEF Started
<1>18. ASSUME NEW t \in Threads, StopPre(t) PROVE HoldInv'
  BY <1>18 DEF StopPre
<1>19. ASSUME NEW t \in Threads, StopOut(t) PROVE HoldInv'
  BY <1>19 DEF StopOut, AfterStandby
<1>20. ASSUME NEW t \in Threads, StopUse(t) PROVE HoldInv'
  BY <1>20, DspFacts DEF StopUse
<1>21. ASSUME NEW t \in Threads, StopUseless(t) PROVE HoldInv'
  BY <1>21, DspFacts DEF StopUseless, AfterStandby
<1>22. ASSUME NEW t \in Threads, StopClear(t) PROVE HoldInv'
  BY <1>22, DspFacts DEF StopClear
<1>23. ASSUME NEW t \in Threads, StopSleep(t) PROVE HoldInv'
  BY <1>23, DspFacts DEF StopSleep, AfterStandby
<1>24. ASSUME NEW t \in Threads, StopStatus(t) PROVE HoldInv'
  BY <1>24 DEF StopStatus
<1>25. CASE Others
  BY <1>25, DspFacts DEF Others
<1>26. CASE UNCHANGED allVars
  BY <1>26 DEF allVars, vars
<1> QED BY <1>1, <1>2, <1>3, <1>4, <1>5, <1>6, <1>7, <1>8, <1>9, <1>10, <1>11,
           <1>12, <1>13, <1>14, <1>15, <1>16, <1>17, <1>18, <1>19, <1>20,
           <1>21, <1>22, <1>23, <1>24, <1>25, <1>26 DEF CallNext, Decide,
           Message, Mail, StartCall, StopCall, Threads, Deciders

\* The usecase follows its holder.
LEMMA UseStep ==
  ASSUME LockType, StillTrue, Always, HoldInv, UseInv, StandbyInv,
         [CallNext]_allVars
  PROVE  UseInv'
<1> USE ThreadsAssumption DEF Always, voice, box, callVars, vars, At, Goto,
        Deciders, Threads, CallTypeOK, LabelInv, OutInv, HoldInv, UseInv,
        StandbyInv, OutFree, Starting, Failing, Holding, Up
<1>1. ASSUME NEW t \in Deciders, NEW m \in {"normal", "inCall"}, SetMode(t, m) PROVE UseInv'
  BY <1>1 DEF SetMode
<1>2. ASSUME NEW t \in Threads, IsBtVoice(t) PROVE UseInv'
  BY <1>2 DEF IsBtVoice, Note
<1>3. CASE SetRoute
  BY <1>3 DEF SetRoute
<1>4. CASE DspAsserts
  BY <1>4 DEF DspAsserts
<1>5. CASE DspBoots
  BY <1>5 DEF DspBoots
<1>6. ASSUME NEW t \in Threads, SendVoice(t) PROVE UseInv'
  BY <1>6 DEF SendVoice, Send, Note
<1>7. CASE SendUpdate
  BY <1>7 DEF SendUpdate, Send, Note
<1>8. CASE TakeCommand
  BY <1>8 DEF TakeCommand
<1>9. CASE PreStart
  BY <1>9 DEF PreStart
<1>10. CASE UseOn
  BY <1>10, DspFacts DEF UseOn
<1>11. CASE UseFails
  BY <1>11, DspFacts DEF UseFails, StartFails, Note
<1>12. CASE UseRefused
  BY <1>12, DspFacts DEF UseRefused, StartFails, Note
<1>13. CASE UseRead
  BY <1>13, DspFacts DEF UseRead
<1>14. CASE UseSet
  BY <1>14, DspFacts DEF UseSet
<1>15. CASE PcmStarts
  BY <1>15 DEF PcmStarts
<1>16. CASE PcmFails
  BY <1>16 DEF PcmFails, StartFails, Note
<1>17. CASE Started
  BY <1>17 DEF Started
<1>18. ASSUME NEW t \in Threads, StopPre(t) PROVE UseInv'
  BY <1>18 DEF StopPre
<1>19. ASSUME NEW t \in Threads, StopOut(t) PROVE UseInv'
  BY <1>19 DEF StopOut, AfterStandby
<1>20. ASSUME NEW t \in Threads, StopUse(t) PROVE UseInv'
  BY <1>20, DspFacts DEF StopUse
<1>21. ASSUME NEW t \in Threads, StopUseless(t) PROVE UseInv'
  BY <1>21, DspFacts DEF StopUseless, AfterStandby
<1>22. ASSUME NEW t \in Threads, StopClear(t) PROVE UseInv'
  BY <1>22, DspFacts DEF StopClear
<1>23. ASSUME NEW t \in Threads, StopSleep(t) PROVE UseInv'
  BY <1>23, DspFacts DEF StopSleep, AfterStandby
<1>24. ASSUME NEW t \in Threads, StopStatus(t) PROVE UseInv'
  BY <1>24 DEF StopStatus
<1>25. CASE Others
  BY <1>25, DspFacts DEF Others
<1>26. CASE UNCHANGED allVars
  BY <1>26 DEF allVars, vars
<1> QED BY <1>1, <1>2, <1>3, <1>4, <1>5, <1>6, <1>7, <1>8, <1>9, <1>10, <1>11,
           <1>12, <1>13, <1>14, <1>15, <1>16, <1>17, <1>18, <1>19, <1>20,
           <1>21, <1>22, <1>23, <1>24, <1>25, <1>26 DEF CallNext, Decide,
           Message, Mail, StartCall, StopCall, Threads, Deciders

\* Stream and usecase agree whenever the lock is free.
LEMMA StandbyStep ==
  ASSUME LockType, StillTrue, Always, HoldInv, UseInv, StandbyInv,
         [CallNext]_allVars
  PROVE  StandbyInv'
<1> USE ThreadsAssumption DEF Always, voice, box, callVars, vars, At, Goto,
        Deciders, Threads, CallTypeOK, LabelInv, OutInv, HoldInv, UseInv,
        StandbyInv, OutFree, Starting, Failing, Holding, Up
<1>1. ASSUME NEW t \in Deciders, NEW m \in {"normal", "inCall"}, SetMode(t, m) PROVE StandbyInv'
  BY <1>1 DEF SetMode
<1>2. ASSUME NEW t \in Threads, IsBtVoice(t) PROVE StandbyInv'
  BY <1>2 DEF IsBtVoice, Note
<1>3. CASE SetRoute
  BY <1>3 DEF SetRoute
<1>4. CASE DspAsserts
  BY <1>4 DEF DspAsserts
<1>5. CASE DspBoots
  BY <1>5 DEF DspBoots
<1>6. ASSUME NEW t \in Threads, SendVoice(t) PROVE StandbyInv'
  BY <1>6 DEF SendVoice, Send, Note
<1>7. CASE SendUpdate
  BY <1>7 DEF SendUpdate, Send, Note
<1>8. CASE TakeCommand
  <2>1. usecase' = usecase /\ standby' = standby /\ pc[Tx] \notin Holding
    BY <1>8 DEF TakeCommand, TxFree
  <2>2. \A t \in Threads : t # Tx => pc'[t] = pc[t]
    BY <1>8 DEF TakeCommand
  <2>3. OutFree' => OutFree
    BY <2>1, <2>2
  <2> QED BY <2>1, <2>3
<1>9. CASE PreStart
  BY <1>9 DEF PreStart
<1>10. CASE UseOn
  BY <1>10, DspFacts DEF UseOn
<1>11. CASE UseFails
  BY <1>11, DspFacts DEF UseFails, StartFails, Note
<1>12. CASE UseRefused
  BY <1>12, DspFacts DEF UseRefused, StartFails, Note
<1>13. CASE UseRead
  BY <1>13, DspFacts DEF UseRead
<1>14. CASE UseSet
  BY <1>14, DspFacts DEF UseSet
<1>15. CASE PcmStarts
  BY <1>15 DEF PcmStarts
<1>16. CASE PcmFails
  BY <1>16 DEF PcmFails, StartFails, Note
<1>17. CASE Started
  BY <1>17 DEF Started
<1>18. ASSUME NEW t \in Threads, StopPre(t) PROVE StandbyInv'
  BY <1>18 DEF StopPre
<1>19. ASSUME NEW t \in Threads, StopOut(t) PROVE StandbyInv'
  BY <1>19 DEF StopOut, AfterStandby
<1>20. ASSUME NEW t \in Threads, StopUse(t) PROVE StandbyInv'
  BY <1>20, DspFacts DEF StopUse
<1>21. ASSUME NEW t \in Threads, StopUseless(t) PROVE StandbyInv'
  BY <1>21, DspFacts DEF StopUseless, AfterStandby
<1>22. ASSUME NEW t \in Threads, StopClear(t) PROVE StandbyInv'
  BY <1>22, DspFacts DEF StopClear
<1>23. ASSUME NEW t \in Threads, StopSleep(t) PROVE StandbyInv'
  BY <1>23, DspFacts DEF StopSleep, AfterStandby
<1>24. ASSUME NEW t \in Threads, StopStatus(t) PROVE StandbyInv'
  BY <1>24 DEF StopStatus
<1>25. CASE Others
  BY <1>25, DspFacts DEF Others
<1>26. CASE UNCHANGED allVars
  BY <1>26 DEF allVars, vars
<1> QED BY <1>1, <1>2, <1>3, <1>4, <1>5, <1>6, <1>7, <1>8, <1>9, <1>10, <1>11,
           <1>12, <1>13, <1>14, <1>15, <1>16, <1>17, <1>18, <1>19, <1>20,
           <1>21, <1>22, <1>23, <1>24, <1>25, <1>26 DEF CallNext, Decide,
           Message, Mail, StartCall, StopCall, Threads, Deciders

\* Nobody starts the call behind a stop.
LEMMA DownStep ==
  ASSUME LockType, StillTrue, Always, UseInv, StandbyInv, DownInv,
         [CallNext]_allVars
  PROVE  DownInv'
<1> USE ThreadsAssumption DEF Always, voice, box, callVars, vars, At, Goto,
        Deciders, Threads, CallTypeOK, LabelInv, CmdInv, Starting, Standing,
        Failing, StartComes, HangsUpInline, TxFree, OverlapInv, DownInv,
        UseInv, StandbyInv, Up
<1>1. ASSUME NEW t \in Deciders, NEW m \in {"normal", "inCall"}, SetMode(t, m) PROVE DownInv'
  BY <1>1 DEF SetMode
<1>2. ASSUME NEW t \in Threads, IsBtVoice(t) PROVE DownInv'
  BY <1>2 DEF IsBtVoice, Note
<1>3. CASE SetRoute
  BY <1>3 DEF SetRoute
<1>4. CASE DspAsserts
  BY <1>4 DEF DspAsserts
<1>5. CASE DspBoots
  BY <1>5 DEF DspBoots
<1>6. ASSUME NEW t \in Threads, SendVoice(t) PROVE DownInv'
  BY <1>6 DEF SendVoice, Send, Note
<1>7. CASE SendUpdate
  BY <1>7 DEF SendUpdate, Send, Note
<1>8. CASE TakeCommand
  BY <1>8 DEF TakeCommand
<1>9. CASE PreStart
  BY <1>9 DEF PreStart
<1>10. CASE UseOn
  BY <1>10, DspFacts DEF UseOn
<1>11. CASE UseFails
  BY <1>11, DspFacts DEF UseFails, StartFails, Note
<1>12. CASE UseRefused
  BY <1>12, DspFacts DEF UseRefused, StartFails, Note
<1>13. CASE UseRead
  BY <1>13, DspFacts DEF UseRead
<1>14. CASE UseSet
  BY <1>14, DspFacts DEF UseSet
<1>15. CASE PcmStarts
  BY <1>15 DEF PcmStarts
<1>16. CASE PcmFails
  BY <1>16 DEF PcmFails, StartFails, Note
<1>17. CASE Started
  BY <1>17 DEF Started
<1>18. ASSUME NEW t \in Threads, StopPre(t) PROVE DownInv'
  BY <1>18 DEF StopPre
<1>19. ASSUME NEW t \in Threads, StopOut(t) PROVE DownInv'
  BY <1>19 DEF StopOut, AfterStandby
<1>20. ASSUME NEW t \in Threads, StopUse(t) PROVE DownInv'
  BY <1>20, DspFacts DEF StopUse
<1>21. ASSUME NEW t \in Threads, StopUseless(t) PROVE DownInv'
  BY <1>21, DspFacts DEF StopUseless, AfterStandby
<1>22. ASSUME NEW t \in Threads, StopClear(t) PROVE DownInv'
  BY <1>22, DspFacts DEF StopClear
<1>23. ASSUME NEW t \in Threads, StopSleep(t) PROVE DownInv'
  BY <1>23, DspFacts DEF StopSleep, AfterStandby
<1>24. ASSUME NEW t \in Threads, StopStatus(t) PROVE DownInv'
  BY <1>24 DEF StopStatus
<1>25. CASE Others
  BY <1>25, DspFacts DEF Others
<1>26. CASE UNCHANGED allVars
  BY <1>26 DEF allVars, vars
<1> QED BY <1>1, <1>2, <1>3, <1>4, <1>5, <1>6, <1>7, <1>8, <1>9, <1>10, <1>11,
           <1>12, <1>13, <1>14, <1>15, <1>16, <1>17, <1>18, <1>19, <1>20,
           <1>21, <1>22, <1>23, <1>24, <1>25, <1>26 DEF CallNext, Decide,
           Message, Mail, StartCall, StopCall, Threads, Deciders

\* The last to write the status is the one that started.
LEMMA StatusStep ==
  ASSUME LockType, StillTrue, Always, UseInv, DownInv, StatusInv,
         [CallNext]_allVars
  PROVE  StatusInv'
<1> USE ThreadsAssumption DEF Always, voice, box, callVars, vars, At, Goto,
        Deciders, Threads, CallTypeOK, LabelInv, CmdInv, Starting, Standing,
        Failing, StartComes, HangsUpInline, TxFree, OverlapInv, DownInv,
        StatusInv, UseInv, Up
<1>1. ASSUME NEW t \in Deciders, NEW m \in {"normal", "inCall"}, SetMode(t, m) PROVE StatusInv'
  BY <1>1 DEF SetMode
<1>2. ASSUME NEW t \in Threads, IsBtVoice(t) PROVE StatusInv'
  BY <1>2 DEF IsBtVoice, Note
<1>3. CASE SetRoute
  BY <1>3 DEF SetRoute
<1>4. CASE DspAsserts
  BY <1>4 DEF DspAsserts
<1>5. CASE DspBoots
  BY <1>5 DEF DspBoots
<1>6. ASSUME NEW t \in Threads, SendVoice(t) PROVE StatusInv'
  BY <1>6 DEF SendVoice, Send, Note
<1>7. CASE SendUpdate
  BY <1>7 DEF SendUpdate, Send, Note
<1>8. CASE TakeCommand
  BY <1>8 DEF TakeCommand
<1>9. CASE PreStart
  BY <1>9 DEF PreStart
<1>10. CASE UseOn
  BY <1>10, DspFacts DEF UseOn
<1>11. CASE UseFails
  BY <1>11, DspFacts DEF UseFails, StartFails, Note
<1>12. CASE UseRefused
  BY <1>12, DspFacts DEF UseRefused, StartFails, Note
<1>13. CASE UseRead
  BY <1>13, DspFacts DEF UseRead
<1>14. CASE UseSet
  BY <1>14, DspFacts DEF UseSet
<1>15. CASE PcmStarts
  BY <1>15 DEF PcmStarts
<1>16. CASE PcmFails
  BY <1>16 DEF PcmFails, StartFails, Note
<1>17. CASE Started
  BY <1>17 DEF Started
<1>18. ASSUME NEW t \in Threads, StopPre(t) PROVE StatusInv'
  BY <1>18 DEF StopPre
<1>19. ASSUME NEW t \in Threads, StopOut(t) PROVE StatusInv'
  BY <1>19 DEF StopOut, AfterStandby
<1>20. ASSUME NEW t \in Threads, StopUse(t) PROVE StatusInv'
  BY <1>20, DspFacts DEF StopUse
<1>21. ASSUME NEW t \in Threads, StopUseless(t) PROVE StatusInv'
  BY <1>21, DspFacts DEF StopUseless, AfterStandby
<1>22. ASSUME NEW t \in Threads, StopClear(t) PROVE StatusInv'
  BY <1>22, DspFacts DEF StopClear
<1>23. ASSUME NEW t \in Threads, StopSleep(t) PROVE StatusInv'
  BY <1>23, DspFacts DEF StopSleep, AfterStandby
<1>24. ASSUME NEW t \in Threads, StopStatus(t) PROVE StatusInv'
  BY <1>24 DEF StopStatus
<1>25. CASE Others
  BY <1>25, DspFacts DEF Others
<1>26. CASE UNCHANGED allVars
  BY <1>26 DEF allVars, vars
<1> QED BY <1>1, <1>2, <1>3, <1>4, <1>5, <1>6, <1>7, <1>8, <1>9, <1>10, <1>11,
           <1>12, <1>13, <1>14, <1>15, <1>16, <1>17, <1>18, <1>19, <1>20,
           <1>21, <1>22, <1>23, <1>24, <1>25, <1>26 DEF CallNext, Decide,
           Message, Mail, StartCall, StopCall, Threads, Deciders

\* What brings the call up is handed on from step to step.
LEMMA UpStep ==
  ASSUME LockType, StillTrue, Always, UseInv, UpInv, [CallNext]_allVars
  PROVE  UpInv'
<1> USE ThreadsAssumption DEF Always, voice, box, callVars, vars, At, Goto,
        Deciders, Threads, CallTypeOK, LabelInv, CmdInv, Starting, Standing,
        Failing, StartComes, HangsUpInline, TxFree, OverlapInv, StopInv,
        UpInv, UseInv, Up
<1>1. ASSUME NEW t \in Deciders, NEW m \in {"normal", "inCall"}, SetMode(t, m) PROVE UpInv'
  BY <1>1 DEF SetMode
<1>2. ASSUME NEW t \in Threads, IsBtVoice(t) PROVE UpInv'
  BY <1>2 DEF IsBtVoice, Note
<1>3. CASE SetRoute
  BY <1>3 DEF SetRoute
<1>4. CASE DspAsserts
  BY <1>4 DEF DspAsserts
<1>5. CASE DspBoots
  BY <1>5 DEF DspBoots
<1>6. ASSUME NEW t \in Threads, SendVoice(t) PROVE UpInv'
  BY <1>6 DEF SendVoice, Send, Note
<1>7. CASE SendUpdate
  BY <1>7 DEF SendUpdate, Send, Note
<1>8. CASE TakeCommand
  BY <1>8 DEF TakeCommand
<1>9. CASE PreStart
  BY <1>9 DEF PreStart
<1>10. CASE UseOn
  BY <1>10, DspFacts DEF UseOn
<1>11. CASE UseFails
  BY <1>11, DspFacts DEF UseFails, StartFails, Note
<1>12. CASE UseRefused
  BY <1>12, DspFacts DEF UseRefused, StartFails, Note
<1>13. CASE UseRead
  BY <1>13, DspFacts DEF UseRead
<1>14. CASE UseSet
  BY <1>14, DspFacts DEF UseSet
<1>15. CASE PcmStarts
  BY <1>15 DEF PcmStarts
<1>16. CASE PcmFails
  BY <1>16 DEF PcmFails, StartFails, Note
<1>17. CASE Started
  BY <1>17 DEF Started
<1>18. ASSUME NEW t \in Threads, StopPre(t) PROVE UpInv'
  BY <1>18 DEF StopPre
<1>19. ASSUME NEW t \in Threads, StopOut(t) PROVE UpInv'
  BY <1>19 DEF StopOut, AfterStandby
<1>20. ASSUME NEW t \in Threads, StopUse(t) PROVE UpInv'
  BY <1>20, DspFacts DEF StopUse
<1>21. ASSUME NEW t \in Threads, StopUseless(t) PROVE UpInv'
  BY <1>21, DspFacts DEF StopUseless, AfterStandby
<1>22. ASSUME NEW t \in Threads, StopClear(t) PROVE UpInv'
  BY <1>22, DspFacts DEF StopClear
<1>23. ASSUME NEW t \in Threads, StopSleep(t) PROVE UpInv'
  BY <1>23, DspFacts DEF StopSleep, AfterStandby
<1>24. ASSUME NEW t \in Threads, StopStatus(t) PROVE UpInv'
  BY <1>24 DEF StopStatus
<1>25. CASE Others
  BY <1>25, DspFacts DEF Others
<1>26. CASE UNCHANGED allVars
  BY <1>26 DEF allVars, vars
<1> QED BY <1>1, <1>2, <1>3, <1>4, <1>5, <1>6, <1>7, <1>8, <1>9, <1>10, <1>11,
           <1>12, <1>13, <1>14, <1>15, <1>16, <1>17, <1>18, <1>19, <1>20,
           <1>21, <1>22, <1>23, <1>24, <1>25, <1>26 DEF CallNext, Decide,
           Message, Mail, StartCall, StopCall, Threads, Deciders

\* What takes the call down is handed on from step to step.
LEMMA EndStep ==
  ASSUME LockType, StillTrue, Always, UseInv, DownInv, EndInv,
         [CallNext]_allVars
  PROVE  EndInv'
<1> USE ThreadsAssumption DEF Always, voice, box, callVars, vars, At, Goto,
        Deciders, Threads, CallTypeOK, LabelInv, CmdInv, Starting, Standing,
        Failing, StartComes, HangsUpInline, TxFree, OverlapInv, DownInv,
        EndInv, UseInv, Active, Up
<1>1. ASSUME NEW t \in Deciders, NEW m \in {"normal", "inCall"}, SetMode(t, m) PROVE EndInv'
  BY <1>1 DEF SetMode
<1>2. ASSUME NEW t \in Threads, IsBtVoice(t) PROVE EndInv'
  BY <1>2 DEF IsBtVoice, Note
<1>3. CASE SetRoute
  BY <1>3 DEF SetRoute
<1>4. CASE DspAsserts
  BY <1>4 DEF DspAsserts
<1>5. CASE DspBoots
  BY <1>5 DEF DspBoots
<1>6. ASSUME NEW t \in Threads, SendVoice(t) PROVE EndInv'
  BY <1>6 DEF SendVoice, Send, Note
<1>7. CASE SendUpdate
  BY <1>7 DEF SendUpdate, Send, Note
<1>8. CASE TakeCommand
  BY <1>8 DEF TakeCommand
<1>9. CASE PreStart
  BY <1>9 DEF PreStart
<1>10. CASE UseOn
  BY <1>10, DspFacts DEF UseOn
<1>11. CASE UseFails
  BY <1>11, DspFacts DEF UseFails, StartFails, Note
<1>12. CASE UseRefused
  BY <1>12, DspFacts DEF UseRefused, StartFails, Note
<1>13. CASE UseRead
  BY <1>13, DspFacts DEF UseRead
<1>14. CASE UseSet
  BY <1>14, DspFacts DEF UseSet
<1>15. CASE PcmStarts
  BY <1>15 DEF PcmStarts
<1>16. CASE PcmFails
  BY <1>16 DEF PcmFails, StartFails, Note
<1>17. CASE Started
  BY <1>17 DEF Started
<1>18. ASSUME NEW t \in Threads, StopPre(t) PROVE EndInv'
  BY <1>18 DEF StopPre
<1>19. ASSUME NEW t \in Threads, StopOut(t) PROVE EndInv'
  BY <1>19 DEF StopOut, AfterStandby
<1>20. ASSUME NEW t \in Threads, StopUse(t) PROVE EndInv'
  BY <1>20, DspFacts DEF StopUse
<1>21. ASSUME NEW t \in Threads, StopUseless(t) PROVE EndInv'
  BY <1>21, DspFacts DEF StopUseless, AfterStandby
<1>22. ASSUME NEW t \in Threads, StopClear(t) PROVE EndInv'
  BY <1>22, DspFacts DEF StopClear
<1>23. ASSUME NEW t \in Threads, StopSleep(t) PROVE EndInv'
  BY <1>23, DspFacts DEF StopSleep, AfterStandby
<1>24. ASSUME NEW t \in Threads, StopStatus(t) PROVE EndInv'
  BY <1>24 DEF StopStatus
<1>25. CASE Others
  BY <1>25, DspFacts DEF Others
<1>26. CASE UNCHANGED allVars
  BY <1>26 DEF allVars, vars
<1> QED BY <1>1, <1>2, <1>3, <1>4, <1>5, <1>6, <1>7, <1>8, <1>9, <1>10, <1>11,
           <1>12, <1>13, <1>14, <1>15, <1>16, <1>17, <1>18, <1>19, <1>20,
           <1>21, <1>22, <1>23, <1>24, <1>25, <1>26 DEF CallNext, Decide,
           Message, Mail, StartCall, StopCall, Threads, Deciders

\* It holds at the start.
LEMMA InitInv == CallInit => Inv
<1> SUFFICES ASSUME CallInit PROVE Inv
  OBVIOUS
<1>1. /\ \A t \in Threads : pc[t] = "idle"
      /\ callMode = "normal" /\ callStart = FALSE /\ callStatus = "invalid" /\ standby = TRUE
      /\ asserted = FALSE /\ cmd = "none" /\ posts = 0 /\ fresh = FALSE /\ slip = "none" /\ ~Up
  BY DEF CallInit, Init, Up
<1>2. CallTypeOK
  <2>1. pc \in [Threads -> Labels]
    <3>1. pc = [t \in Threads |-> "idle"] /\ "idle" \in Labels
      BY DEF CallInit, Labels
    <3> QED BY <3>1
  <2>2. posts \in 0..MaxPosts
    BY <1>1, PostsAssumption
  <2> QED BY <1>1, <2>1, <2>2 DEF CallTypeOK
<1>3. Tx \in Threads /\ Rx \in Threads /\ Monitor \in Threads /\ Framework \in Threads /\ Deciders \subseteq Threads
  BY DEF Threads, Deciders
<1>4. LabelInv /\ OutInv
  BY <1>1, <1>3 DEF LabelInv, OutInv, Starting, Failing, Holding
<1>5. OpInv
  BY <1>1, <1>3, CallersAssumption, UsecasesAssumption DEF OpInv, CallInit, Init
<1>6. CmdInv /\ OverlapInv /\ StopInv
  BY <1>1, <1>3 DEF CmdInv, OverlapInv, StopInv, Starting, Standing, Failing, At, StartComes, HangsUpInline
<1>7. HoldInv /\ UseInv /\ StandbyInv
  BY <1>1, <1>3 DEF HoldInv, UseInv, StandbyInv
<1>8. DownInv /\ StatusInv /\ UpInv /\ EndInv
  BY <1>1, <1>3 DEF DownInv, StatusInv, UpInv, EndInv, Starting, Standing,
     StartComes, HangsUpInline, Failing, Active
<1> QED BY <1>2, <1>4, <1>5, <1>6, <1>7, <1>8 DEF Inv, Always, CallIs

\* The whole is inductive, with what DspAccessProofs says of actl->lock.
LEMMA InvHolds == CallSpec => []Inv
<1> DEFINE Lock == LockType /\ LockKept
<1>1. Lock /\ Inv /\ [CallNext]_allVars => Inv'
  <2> SUFFICES ASSUME Lock, Inv, [CallNext]_allVars PROVE Inv'
    OBVIOUS
  <2>1. Always'
    BY CallTypeStep, LabelStep, OutStep, OpStep, CmdStep, OverlapStep, StopCmdStep DEF Inv, Always
  <2>2. ASSUME ~tangled' PROVE CallIs'
    <3>1. ~tangled
      BY <2>2, TangledStep, CallIsNext DEF LockType
    <3>2. StillTrue /\ CallIs /\ Always
      BY <3>1 DEF LockKept, Inv
    <3> QED BY <3>2, HoldStep, UseStep, StandbyStep, DownStep, StatusStep, UpStep, EndStep DEF CallIs
  <2> QED BY <2>1, <2>2 DEF Inv
<1>2. CallSpec => []Lock
  BY UsesDspAsAllowed, LockKeeps, PTL
<1> QED BY <1>1, <1>2, InitInv, PTL DEF CallSpec

\* The types of the voice call.
THEOREM CallTypes == CallSpec => []CallTypeOK
<1>1. Inv => CallTypeOK
  BY DEF Inv, Always
<1> QED BY <1>1, InvHolds, PTL

\* As long as no two threads were in set_usecase at once, the stream's standby flag and
\* UC_CALL agree whenever voice_out->lock is free.
THEOREM StreamFollowsUsecase == CallSpec => []StandbyMatches
<1>1. Inv => StandbyMatches
  BY DEF Inv, CallIs, StandbyInv, StandbyMatches, Up
<1> QED BY <1>1, InvHolds, PTL

\* When all rests, the call is what was decided last, under the same condition.
THEOREM LastDecisionWins == CallSpec => []HangUpWins
<1>1. Inv => HangUpWins
  BY ThreadsAssumption DEF Inv, Always, CallIs, CallTypeOK, CmdInv, UpInv, EndInv, HangUpWins, Quiet, Up, At,
     Threads, Deciders, HangsUpInline, Starting, Standing, Failing
<1> QED BY <1>1, InvHolds, PTL

\* When all rests, call_status says whether a call is up, under the same condition.
THEOREM StatusIsRight == CallSpec => []StatusMatches
<1>1. Inv => StatusMatches
  BY ThreadsAssumption DEF Inv, Always, CallIs, CallTypeOK, CmdInv, UpInv, EndInv, StatusInv, StatusMatches, Quiet,
     Up, At, TxFree, Active, Threads, Deciders, HangsUpInline, Starting, Standing, Failing
<1> QED BY <1>1, InvHolds, PTL
=============================================================================
