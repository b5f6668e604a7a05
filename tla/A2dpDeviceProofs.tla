-------------------------- MODULE A2dpDeviceProofs --------------------------
(* The wrapper device for any streams, controllers and keys: the bypass flag *)
(* is current, silence is kept, one stream of a kind plays, a closed stream  *)
(* is out of reach, and the locks are taken in one order.                    *)
EXTENDS A2dpDevice, TLAPS

\* A caller of check_a2dp_suspend, a player and None are never confused.
LEMMA ThreadFacts ==
  /\ Monitor \in Threads /\ Monitor # None
  /\ \A s \in Streams : s \in Threads /\ s # None /\ s # Monitor /\ s \notin Controllers
  /\ \A c \in Controllers : c \in Threads /\ c # None /\ c # Monitor /\ c \notin Streams
BY ThreadsAssumption DEF Threads

LEMMA KeyFacts ==
  /\ Len(Keys) \in Nat
  /\ \A i \in 1 .. Len(Keys) : \A e \in Effects[Keys[i]] :
       e.up \subseteq Reasons /\ "force" \notin e.up /\ "force" \notin e.down
<1>1. \A k \in DOMAIN Effects : \A e \in Effects[k] :
        e.up \subseteq Reasons /\ "force" \notin e.up /\ "force" \notin e.down
  BY DEF Effects, Reasons
<1>2. Len(Keys) \in Nat /\ \A i \in 1 .. Len(Keys) : Keys[i] \in DOMAIN Effects
  BY KeysAssumption
<1> QED BY <1>1, <1>2

-----------------------------------------------------------------------------
(* Type correctness, in parts.                                               *)
LockTypes ==
    /\ adev \in Threads \cup {None}
    /\ outLock \in [Streams -> Streams \cup {None}]
    /\ active \in [Kinds -> Streams \cup {None}]
StreamTypes ==
    /\ raised \subseteq Reasons /\ bypass \in BOOLEAN
    /\ standby \in [Streams -> BOOLEAN]
    /\ on \in [Streams -> SUBSET Inner]
    /\ open \subseteq Streams /\ crossed \subseteq Streams
CallTypes ==
    /\ pc \in [Threads -> {"idle", "bypassTest", "gap", "write", "standby", "clear",
                           "close", "closed", "keys", "check", "checkPcm",
                           "checkOffload", "flag", "pipe"}]
    /\ at \in [Controllers -> 1 .. Len(Keys) + 1]
    /\ dirty \in [Controllers -> BOOLEAN]
MonitorTypes ==
    /\ msg \in Messages \cup {"NET_MSG"} /\ timedOut \in BOOLEAN
    /\ bthal \in {"running", "idle"} /\ untold \in BOOLEAN

LEMMA TypeParts == TypeOK <=> LockTypes /\ StreamTypes /\ CallTypes /\ MonitorTypes
BY DEF TypeOK, LockTypes, StreamTypes, CallTypes, MonitorTypes

LEMMA InitTypes == Init => TypeOK
<1> SUFFICES ASSUME Init PROVE TypeOK
  OBVIOUS
<1>1. LockTypes
  BY DEF Init, LockTypes
<1>2. StreamTypes
  BY DEF Init, StreamTypes
<1>3. CallTypes
  BY KeyFacts DEF Init, CallTypes
<1>4. MonitorTypes
  BY DEF Init, MonitorTypes
<1> QED BY <1>1, <1>2, <1>3, <1>4, TypeParts

LEMMA KindFacts == "pcm" \in Kinds /\ "offload" \in Kinds
BY DEF Kinds

\* What check_a2dp_suspend does to the active stream of a kind.
LEMMA Silenced ==
  ASSUME TypeOK, NEW k \in Kinds, SilenceActive(k)
  PROVE  /\ standby' \in [Streams -> BOOLEAN]
         /\ on' \in [Streams -> SUBSET Inner]
         /\ \A s \in Streams :
              IF s = active[k]
              THEN standby'[s] /\ on'[s] = (IF standby[s] THEN on[s] ELSE {})
              ELSE standby'[s] = standby[s] /\ on'[s] = on[s]
<1>1. LockTypes /\ StreamTypes
  BY TypeParts
<1>2. CASE active[k] = None
  BY <1>1, <1>2, ThreadFacts DEF SilenceActive, StreamTypes
<1>3. CASE active[k] # None
  <2>1. active[k] \in Streams
    BY <1>1, <1>3 DEF LockTypes
  <2>2. OutStandby(active[k])
    BY <1>3 DEF SilenceActive
  <2> QED BY <1>1, <2>1, <2>2 DEF OutStandby, StreamTypes
<1> QED BY <1>2, <1>3

LEMMA LockTypesStep ==
  ASSUME TypeOK, [Next]_vars
  PROVE  LockTypes'
<1> USE TypeParts, ThreadFacts DEF LockTypes, Kinds, KindOf, Goto, vars,
        lockVars, flagVars, streamVars, callVars, monVars
<1>1. ASSUME NEW s \in Streams, WriteEnter(s) PROVE LockTypes'
  BY <1>1 DEF WriteEnter
<1>2. ASSUME NEW s \in Streams, Bypassed(s) PROVE LockTypes'
  BY <1>2 DEF Bypassed, OtherActive
<1>3. ASSUME NEW s \in Streams, NotBypassed(s) PROVE LockTypes'
  BY <1>3 DEF NotBypassed, OtherActive
<1>4. ASSUME NEW s \in Streams, WriteRelock(s) PROVE LockTypes'
  BY <1>4 DEF WriteRelock
<1>5. ASSUME NEW s \in Streams, InnerWrite(s) PROVE LockTypes'
  BY <1>5 DEF InnerWrite
<1>6. ASSUME NEW s \in Streams, StandbyEnter(s) PROVE LockTypes'
  BY <1>6 DEF StandbyEnter
<1>7. ASSUME NEW s \in Streams, StandbyInner(s) PROVE LockTypes'
  BY <1>7 DEF StandbyInner, OutStandby
<1>8. ASSUME NEW s \in Streams, StandbyClear(s) PROVE LockTypes'
  BY <1>8 DEF StandbyClear, Forget
<1>9. ASSUME NEW s \in Streams, StreamParams(s) PROVE LockTypes'
  BY <1>9 DEF StreamParams, OutStandby
<1>10. ASSUME NEW s \in Streams, CloseEnter(s) PROVE LockTypes'
  BY <1>10 DEF CloseEnter
<1>11. ASSUME NEW s \in Streams, Close(s) PROVE LockTypes'
  BY <1>11 DEF Close, Forget
<1>12. ASSUME NEW c \in Controllers, ParamsEnter(c) PROVE LockTypes'
  BY <1>12 DEF ParamsEnter
<1>13. ASSUME NEW c \in Controllers, SetFlag(c) PROVE LockTypes'
  BY <1>13 DEF SetFlag
<1>14. ASSUME NEW c \in Controllers, ParamsDone(c) PROVE LockTypes'
  BY <1>14 DEF ParamsDone
<1>15. ASSUME NEW t \in Controllers \cup {Monitor}, CheckClear(t) PROVE LockTypes'
  BY <1>15 DEF CheckClear, Caller
<1>16. ASSUME NEW t \in Controllers \cup {Monitor}, CheckRaised(t) PROVE LockTypes'
  BY <1>16 DEF CheckRaised
<1>17. ASSUME NEW t \in Controllers \cup {Monitor}, CheckPcm(t) PROVE LockTypes'
  <2>1. SilenceActive("pcm")
    BY <1>17 DEF CheckPcm
  <2> QED BY <1>17, <2>1, KindFacts, Silenced DEF CheckPcm
<1>18. ASSUME NEW t \in Controllers \cup {Monitor}, CheckOffload(t) PROVE LockTypes'
  <2>1. SilenceActive("offload")
    BY <1>18 DEF CheckOffload
  <2> QED BY <1>18, <2>1, KindFacts, Silenced DEF CheckOffload, Caller
<1>19. CASE Receive
  BY <1>19 DEF Receive
<1>20. CASE ForceStandby
  BY <1>20 DEF ForceStandby, Recovered
<1>21. CASE ReportState
  BY <1>21 DEF ReportState, Recovered
<1>22. CASE UNCHANGED vars
  BY <1>22
<1> QED BY <1>1, <1>2, <1>3, <1>4, <1>5, <1>6, <1>7, <1>8, <1>9, <1>10, <1>11,
           <1>12, <1>13, <1>14, <1>15, <1>16, <1>17, <1>18, <1>19, <1>20,
           <1>21, <1>22
       DEF Next, StreamCalls, StreamContinues, ParamsContinue,
           CheckContinues, MonitorContinues

LEMMA StreamTypesStep ==
  ASSUME TypeOK, [Next]_vars
  PROVE  StreamTypes'
<1> USE TypeParts, ThreadFacts, KeyFacts DEF StreamTypes, CallTypes, LockTypes,
        Kinds, Inner, Reasons, Goto, vars, lockVars, flagVars, streamVars,
        callVars, monVars
<1>1. ASSUME NEW s \in Streams, WriteEnter(s) PROVE StreamTypes'
  BY <1>1 DEF WriteEnter
<1>2. ASSUME NEW s \in Streams, Bypassed(s) PROVE StreamTypes'
  BY <1>2 DEF Bypassed, OtherActive
<1>3. ASSUME NEW s \in Streams, NotBypassed(s) PROVE StreamTypes'
  BY <1>3 DEF NotBypassed, OtherActive
<1>4. ASSUME NEW s \in Streams, WriteRelock(s) PROVE StreamTypes'
  BY <1>4 DEF WriteRelock
<1>5. ASSUME NEW s \in Streams, InnerWrite(s) PROVE StreamTypes'
  BY <1>5 DEF InnerWrite
<1>6. ASSUME NEW s \in Streams, StandbyEnter(s) PROVE StreamTypes'
  BY <1>6 DEF StandbyEnter
<1>7. ASSUME NEW s \in Streams, StandbyInner(s) PROVE StreamTypes'
  BY <1>7 DEF StandbyInner, OutStandby
<1>8. ASSUME NEW s \in Streams, StandbyClear(s) PROVE StreamTypes'
  BY <1>8 DEF StandbyClear, Forget
<1>9. ASSUME NEW s \in Streams, StreamParams(s) PROVE StreamTypes'
  BY <1>9 DEF StreamParams, OutStandby
<1>10. ASSUME NEW s \in Streams, CloseEnter(s) PROVE StreamTypes'
  BY <1>10 DEF CloseEnter
<1>11. ASSUME NEW s \in Streams, Close(s) PROVE StreamTypes'
  BY <1>11 DEF Close, Forget
<1>12. ASSUME NEW c \in Controllers, ParamsEnter(c) PROVE StreamTypes'
  BY <1>12 DEF ParamsEnter
<1>13. ASSUME NEW c \in Controllers, SetFlag(c) PROVE StreamTypes'
  <2>1. PICK i \in at[c] .. Len(Keys) :
          \E e \in Effects[Keys[i]] : raised' = (raised \ e.down) \cup e.up
    BY <1>13 DEF SetFlag
  <2>2. i \in 1 .. Len(Keys)
    BY <2>1
  <2>3. raised' \subseteq Reasons
    BY <2>1, <2>2
  <2> QED BY <1>13, <2>3 DEF SetFlag
<1>14. ASSUME NEW c \in Controllers, ParamsDone(c) PROVE StreamTypes'
  BY <1>14 DEF ParamsDone
<1>15. ASSUME NEW t \in Controllers \cup {Monitor}, CheckClear(t) PROVE StreamTypes'
  BY <1>15 DEF CheckClear, Caller
<1>16. ASSUME NEW t \in Controllers \cup {Monitor}, CheckRaised(t) PROVE StreamTypes'
  BY <1>16 DEF CheckRaised
<1>17. ASSUME NEW t \in Controllers \cup {Monitor}, CheckPcm(t) PROVE StreamTypes'
  <2>1. SilenceActive("pcm")
    BY <1>17 DEF CheckPcm
  <2> QED BY <1>17, <2>1, KindFacts, Silenced DEF CheckPcm
<1>18. ASSUME NEW t \in Controllers \cup {Monitor}, CheckOffload(t) PROVE StreamTypes'
  <2>1. SilenceActive("offload")
    BY <1>18 DEF CheckOffload
  <2> QED BY <1>18, <2>1, KindFacts, Silenced DEF CheckOffload, Caller
<1>19. CASE Receive
  BY <1>19 DEF Receive
<1>20. CASE ForceStandby
  BY <1>20 DEF ForceStandby, Recovered
<1>21. CASE ReportState
  BY <1>21 DEF ReportState, Recovered
<1>22. CASE UNCHANGED vars
  BY <1>22
<1> QED BY <1>1, <1>2, <1>3, <1>4, <1>5, <1>6, <1>7, <1>8, <1>9, <1>10, <1>11,
           <1>12, <1>13, <1>14, <1>15, <1>16, <1>17, <1>18, <1>19, <1>20,
           <1>21, <1>22
       DEF Next, StreamCalls, StreamContinues, ParamsContinue,
           CheckContinues, MonitorContinues

LEMMA CallTypesStep ==
  ASSUME TypeOK, [Next]_vars
  PROVE  CallTypes'
<1> USE TypeParts, ThreadFacts, KeyFacts DEF CallTypes, Goto, vars, lockVars,
        flagVars, streamVars, callVars, monVars
<1>1. ASSUME NEW s \in Streams, WriteEnter(s) PROVE CallTypes'
  BY <1>1 DEF WriteEnter
<1>2. ASSUME NEW s \in Streams, Bypassed(s) PROVE CallTypes'
  BY <1>2 DEF Bypassed, OtherActive
<1>3. ASSUME NEW s \in Streams, NotBypassed(s) PROVE CallTypes'
  BY <1>3 DEF NotBypassed, OtherActive
<1>4. ASSUME NEW s \in Streams, WriteRelock(s) PROVE CallTypes'
  BY <1>4 DEF WriteRelock
<1>5. ASSUME NEW s \in Streams, InnerWrite(s) PROVE CallTypes'
  BY <1>5 DEF InnerWrite
<1>6. ASSUME NEW s \in Streams, StandbyEnter(s) PROVE CallTypes'
  BY <1>6 DEF StandbyEnter
<1>7. ASSUME NEW s \in Streams, StandbyInner(s) PROVE CallTypes'
  BY <1>7 DEF StandbyInner, OutStandby
<1>8. ASSUME NEW s \in Streams, StandbyClear(s) PROVE CallTypes'
  BY <1>8 DEF StandbyClear, Forget
<1>9. ASSUME NEW s \in Streams, StreamParams(s) PROVE CallTypes'
  BY <1>9 DEF StreamParams, OutStandby
<1>10. ASSUME NEW s \in Streams, CloseEnter(s) PROVE CallTypes'
  BY <1>10 DEF CloseEnter
<1>11. ASSUME NEW s \in Streams, Close(s) PROVE CallTypes'
  BY <1>11 DEF Close, Forget
<1>12. ASSUME NEW c \in Controllers, ParamsEnter(c) PROVE CallTypes'
  BY <1>12 DEF ParamsEnter
<1>13. ASSUME NEW c \in Controllers, SetFlag(c) PROVE CallTypes'
  <2>1. PICK i \in at[c] .. Len(Keys) : at' = [at EXCEPT ![c] = i + 1]
    BY <1>13 DEF SetFlag
  <2>2. at[c] \in 1 .. Len(Keys) + 1 /\ i + 1 \in 1 .. Len(Keys) + 1
    BY <2>1
  <2>3. at' \in [Controllers -> 1 .. Len(Keys) + 1]
    BY <2>1, <2>2
  <2> QED BY <1>13, <2>3 DEF SetFlag
<1>14. ASSUME NEW c \in Controllers, ParamsDone(c) PROVE CallTypes'
  BY <1>14 DEF ParamsDone
<1>15. ASSUME NEW t \in Controllers \cup {Monitor}, CheckClear(t) PROVE CallTypes'
  BY <1>15 DEF CheckClear, Caller
<1>16. ASSUME NEW t \in Controllers \cup {Monitor}, CheckRaised(t) PROVE CallTypes'
  BY <1>16 DEF CheckRaised
<1>17. ASSUME NEW t \in Controllers \cup {Monitor}, CheckPcm(t) PROVE CallTypes'
  <2>1. SilenceActive("pcm")
    BY <1>17 DEF CheckPcm
  <2> QED BY <1>17, <2>1, KindFacts, Silenced DEF CheckPcm
<1>18. ASSUME NEW t \in Controllers \cup {Monitor}, CheckOffload(t) PROVE CallTypes'
  <2>1. SilenceActive("offload")
    BY <1>18 DEF CheckOffload
  <2> QED BY <1>18, <2>1, KindFacts, Silenced DEF CheckOffload, Caller
<1>19. CASE Receive
  BY <1>19 DEF Receive
<1>20. CASE ForceStandby
  BY <1>20 DEF ForceStandby, Recovered
<1>21. CASE ReportState
  BY <1>21 DEF ReportState, Recovered
<1>22. CASE UNCHANGED vars
  BY <1>22
<1> QED BY <1>1, <1>2, <1>3, <1>4, <1>5, <1>6, <1>7, <1>8, <1>9, <1>10, <1>11,
           <1>12, <1>13, <1>14, <1>15, <1>16, <1>17, <1>18, <1>19, <1>20,
           <1>21, <1>22
       DEF Next, StreamCalls, StreamContinues, ParamsContinue,
           CheckContinues, MonitorContinues

LEMMA MonitorTypesStep ==
  ASSUME TypeOK, [Next]_vars
  PROVE  MonitorTypes'
<1> USE TypeParts DEF MonitorTypes, Messages, Goto, vars, lockVars, flagVars,
        streamVars, callVars, monVars
<1>1. ASSUME NEW s \in Streams, WriteEnter(s) PROVE MonitorTypes'
  BY <1>1 DEF WriteEnter
<1>2. ASSUME NEW s \in Streams, Bypassed(s) PROVE MonitorTypes'
  BY <1>2 DEF Bypassed, OtherActive
<1>3. ASSUME NEW s \in Streams, NotBypassed(s) PROVE MonitorTypes'
  BY <1>3 DEF NotBypassed, OtherActive
<1>4. ASSUME NEW s \in Streams, WriteRelock(s) PROVE MonitorTypes'
  BY <1>4 DEF WriteRelock
<1>5. ASSUME NEW s \in Streams, InnerWrite(s) PROVE MonitorTypes'
  BY <1>5 DEF InnerWrite
<1>6. ASSUME NEW s \in Streams, StandbyEnter(s) PROVE MonitorTypes'
  BY <1>6 DEF StandbyEnter
<1>7. ASSUME NEW s \in Streams, StandbyInner(s) PROVE MonitorTypes'
  BY <1>7 DEF StandbyInner, OutStandby
<1>8. ASSUME NEW s \in Streams, StandbyClear(s) PROVE MonitorTypes'
  BY <1>8 DEF StandbyClear, Forget
<1>9. ASSUME NEW s \in Streams, StreamParams(s) PROVE MonitorTypes'
  BY <1>9 DEF StreamParams, OutStandby
<1>10. ASSUME NEW s \in Streams, CloseEnter(s) PROVE MonitorTypes'
  BY <1>10 DEF CloseEnter
<1>11. ASSUME NEW s \in Streams, Close(s) PROVE MonitorTypes'
  BY <1>11 DEF Close, Forget
<1>12. ASSUME NEW c \in Controllers, ParamsEnter(c) PROVE MonitorTypes'
  BY <1>12 DEF ParamsEnter
<1>13. ASSUME NEW c \in Controllers, SetFlag(c) PROVE MonitorTypes'
  BY <1>13 DEF SetFlag
<1>14. ASSUME NEW c \in Controllers, ParamsDone(c) PROVE MonitorTypes'
  BY <1>14 DEF ParamsDone
<1>15. ASSUME NEW t \in Controllers \cup {Monitor}, CheckClear(t) PROVE MonitorTypes'
  BY <1>15 DEF CheckClear, Caller
<1>16. ASSUME NEW t \in Controllers \cup {Monitor}, CheckRaised(t) PROVE MonitorTypes'
  BY <1>16 DEF CheckRaised
<1>17. ASSUME NEW t \in Controllers \cup {Monitor}, CheckPcm(t) PROVE MonitorTypes'
  <2>1. SilenceActive("pcm")
    BY <1>17 DEF CheckPcm
  <2> QED BY <1>17, <2>1, KindFacts, Silenced DEF CheckPcm
<1>18. ASSUME NEW t \in Controllers \cup {Monitor}, CheckOffload(t) PROVE MonitorTypes'
  <2>1. SilenceActive("offload")
    BY <1>18 DEF CheckOffload
  <2> QED BY <1>18, <2>1, KindFacts, Silenced DEF CheckOffload, Caller
<1>19. CASE Receive
  BY <1>19 DEF Receive
<1>20. CASE ForceStandby
  BY <1>20 DEF ForceStandby, Recovered
<1>21. CASE ReportState
  BY <1>21 DEF ReportState, Recovered
<1>22. CASE UNCHANGED vars
  BY <1>22
<1> QED BY <1>1, <1>2, <1>3, <1>4, <1>5, <1>6, <1>7, <1>8, <1>9, <1>10, <1>11,
           <1>12, <1>13, <1>14, <1>15, <1>16, <1>17, <1>18, <1>19, <1>20,
           <1>21, <1>22
       DEF Next, StreamCalls, StreamContinues, ParamsContinue,
           CheckContinues, MonitorContinues

(* Every reachable state is well typed.                                      *)
THEOREM TypeCorrect == Spec => []TypeOK
<1>1. Init => TypeOK
  BY InitTypes
<1>2. TypeOK /\ [Next]_vars => TypeOK'
  <2> SUFFICES ASSUME TypeOK, [Next]_vars PROVE TypeOK'
    OBVIOUS
  <2>1. LockTypes' /\ StreamTypes' /\ CallTypes' /\ MonitorTypes'
    BY LockTypesStep, StreamTypesStep, CallTypesStep, MonitorTypesStep
  <2> QED BY <2>1 DEF TypeOK, LockTypes, StreamTypes, CallTypes, MonitorTypes
<1> QED BY <1>1, <1>2, PTL DEF Spec

-----------------------------------------------------------------------------
(* The bypass flag.  BypassCurrent is inductive: a thread that has changed a *)
(* flag is in Checking until it has looked at all of them under the lock.    *)
LEMMA BypassStep ==
  ASSUME TypeOK, BypassCurrent, [Next]_vars
  PROVE  BypassCurrent'
<1> USE TypeParts, ThreadFacts DEF BypassCurrent, Checking, CallTypes,
        StreamTypes, Goto, vars, lockVars, flagVars, streamVars, callVars,
        monVars
<1>1. ASSUME NEW s \in Streams, WriteEnter(s) PROVE BypassCurrent'
  BY <1>1 DEF WriteEnter
<1>2. ASSUME NEW s \in Streams, Bypassed(s) PROVE BypassCurrent'
  BY <1>2 DEF Bypassed, OtherActive
<1>3. ASSUME NEW s \in Streams, NotBypassed(s) PROVE BypassCurrent'
  BY <1>3 DEF NotBypassed, OtherActive
<1>4. ASSUME NEW s \in Streams, WriteRelock(s) PROVE BypassCurrent'
  BY <1>4 DEF WriteRelock
<1>5. ASSUME NEW s \in Streams, InnerWrite(s) PROVE BypassCurrent'
  BY <1>5 DEF InnerWrite
<1>6. ASSUME NEW s \in Streams, StandbyEnter(s) PROVE BypassCurrent'
  BY <1>6 DEF StandbyEnter
<1>7. ASSUME NEW s \in Streams, StandbyInner(s) PROVE BypassCurrent'
  BY <1>7 DEF StandbyInner, OutStandby
<1>8. ASSUME NEW s \in Streams, StandbyClear(s) PROVE BypassCurrent'
  BY <1>8 DEF StandbyClear, Forget
<1>9. ASSUME NEW s \in Streams, StreamParams(s) PROVE BypassCurrent'
  BY <1>9 DEF StreamParams, OutStandby
<1>10. ASSUME NEW s \in Streams, CloseEnter(s) PROVE BypassCurrent'
  BY <1>10 DEF CloseEnter
<1>11. ASSUME NEW s \in Streams, Close(s) PROVE BypassCurrent'
  BY <1>11 DEF Close, Forget
<1>12. ASSUME NEW c \in Controllers, ParamsEnter(c) PROVE BypassCurrent'
  BY <1>12 DEF ParamsEnter
<1>13. ASSUME NEW c \in Controllers, SetFlag(c) PROVE BypassCurrent'
  BY <1>13 DEF SetFlag
<1>14. ASSUME NEW c \in Controllers, ParamsDone(c) PROVE BypassCurrent'
  BY <1>14 DEF ParamsDone
<1>15. ASSUME NEW t \in Controllers \cup {Monitor}, CheckClear(t) PROVE BypassCurrent'
  BY <1>15 DEF CheckClear, Caller
<1>16. ASSUME NEW t \in Controllers \cup {Monitor}, CheckRaised(t) PROVE BypassCurrent'
  BY <1>16 DEF CheckRaised
<1>17. ASSUME NEW t \in Controllers \cup {Monitor}, CheckPcm(t) PROVE BypassCurrent'
  <2>1. SilenceActive("pcm")
    BY <1>17 DEF CheckPcm
  <2> QED BY <1>17, <2>1, KindFacts, Silenced DEF CheckPcm
<1>18. ASSUME NEW t \in Controllers \cup {Monitor}, CheckOffload(t) PROVE BypassCurrent'
  <2>1. SilenceActive("offload")
    BY <1>18 DEF CheckOffload
  <2> QED BY <1>18, <2>1, KindFacts, Silenced DEF CheckOffload, Caller
<1>19. CASE Receive
  BY <1>19 DEF Receive
<1>20. CASE ForceStandby
  BY <1>20 DEF ForceStandby, Recovered
<1>21. CASE ReportState
  BY <1>21 DEF ReportState, Recovered
<1>22. CASE UNCHANGED vars
  BY <1>22
<1> QED BY <1>1, <1>2, <1>3, <1>4, <1>5, <1>6, <1>7, <1>8, <1>9, <1>10, <1>11,
           <1>12, <1>13, <1>14, <1>15, <1>16, <1>17, <1>18, <1>19, <1>20,
           <1>21, <1>22
       DEF Next, StreamCalls, StreamContinues, ParamsContinue,
           CheckContinues, MonitorContinues

(* For any threads and keys: with no check to do, bypass says exactly        *)
(* whether there is a reason for silence.                                    *)
THEOREM BypassIsCurrent == Spec => []BypassCurrent
<1>1. Init => BypassCurrent
  BY DEF Init, BypassCurrent
<1>2. TypeOK /\ BypassCurrent /\ [Next]_vars => BypassCurrent'
  BY BypassStep
<1> QED BY <1>1, <1>2, TypeCorrect, PTL DEF Spec

-----------------------------------------------------------------------------
(* What the monitor reports: between the change of the force flag and the    *)
(* report the message says what the flag is, and from its check on the force *)
(* flag keeps the bypass.                                                    *)
MonitorInv ==
    /\ pc[Monitor] \in {"idle", "flag", "check", "checkPcm", "checkOffload", "pipe"}
    /\ pc[Monitor] \in {"idle", "flag"} /\ ~untold => (bthal = "idle" <=> "force" \in raised)
    /\ pc[Monitor] # "check" /\ "force" \in raised => bypass
    /\ pc[Monitor] \notin {"idle", "flag"} => (Recovered <=> "force" \notin raised)

LEMMA MonitorStep ==
  ASSUME TypeOK, MonitorInv, [Next]_vars
  PROVE  MonitorInv'
<1> USE TypeParts, ThreadFacts, KeyFacts DEF MonitorInv, Recovered, CallTypes,
        StreamTypes, MonitorTypes, Goto, vars, lockVars, flagVars, streamVars,
        callVars, monVars
<1>1. ASSUME NEW s \in Streams, WriteEnter(s) PROVE MonitorInv'
  BY <1>1 DEF WriteEnter
<1>2. ASSUME NEW s \in Streams, Bypassed(s) PROVE MonitorInv'
  BY <1>2 DEF Bypassed, OtherActive
<1>3. ASSUME NEW s \in Streams, NotBypassed(s) PROVE MonitorInv'
  BY <1>3 DEF NotBypassed, OtherActive
<1>4. ASSUME NEW s \in Streams, WriteRelock(s) PROVE MonitorInv'
  BY <1>4 DEF WriteRelock
<1>5. ASSUME NEW s \in Streams, InnerWrite(s) PROVE MonitorInv'
  BY <1>5 DEF InnerWrite
<1>6. ASSUME NEW s \in Streams, StandbyEnter(s) PROVE MonitorInv'
  BY <1>6 DEF StandbyEnter
<1>7. ASSUME NEW s \in Streams, StandbyInner(s) PROVE MonitorInv'
  BY <1>7 DEF StandbyInner, OutStandby
<1>8. ASSUME NEW s \in Streams, StandbyClear(s) PROVE MonitorInv'
  BY <1>8 DEF StandbyClear, Forget
<1>9. ASSUME NEW s \in Streams, StreamParams(s) PROVE MonitorInv'
  BY <1>9 DEF StreamParams, OutStandby
<1>10. ASSUME NEW s \in Streams, CloseEnter(s) PROVE MonitorInv'
  BY <1>10 DEF CloseEnter
<1>11. ASSUME NEW s \in Streams, Close(s) PROVE MonitorInv'
  BY <1>11 DEF Close, Forget
<1>12. ASSUME NEW c \in Controllers, ParamsEnter(c) PROVE MonitorInv'
  BY <1>12 DEF ParamsEnter
<1>13. ASSUME NEW c \in Controllers, SetFlag(c) PROVE MonitorInv'
  <2>1. PICK i \in at[c] .. Len(Keys) :
          \E e \in Effects[Keys[i]] : raised' = (raised \ e.down) \cup e.up
    BY <1>13 DEF SetFlag
  <2>2. i \in 1 .. Len(Keys)
    BY <2>1
  <2>3. "force" \in raised' <=> "force" \in raised
    BY <2>1, <2>2, KeyFacts
  <2> QED BY <1>13, <2>3 DEF SetFlag
<1>14. ASSUME NEW c \in Controllers, ParamsDone(c) PROVE MonitorInv'
  BY <1>14 DEF ParamsDone
<1>15. ASSUME NEW t \in Controllers \cup {Monitor}, CheckClear(t) PROVE MonitorInv'
  BY <1>15 DEF CheckClear, Caller
<1>16. ASSUME NEW t \in Controllers \cup {Monitor}, CheckRaised(t) PROVE MonitorInv'
  BY <1>16 DEF CheckRaised
<1>17. ASSUME NEW t \in Controllers \cup {Monitor}, CheckPcm(t) PROVE MonitorInv'
  <2>1. SilenceActive("pcm")
    BY <1>17 DEF CheckPcm
  <2> QED BY <1>17, <2>1, KindFacts, Silenced DEF CheckPcm
<1>18. ASSUME NEW t \in Controllers \cup {Monitor}, CheckOffload(t) PROVE MonitorInv'
  <2>1. SilenceActive("offload")
    BY <1>18 DEF CheckOffload
  <2> QED BY <1>18, <2>1, KindFacts, Silenced DEF CheckOffload, Caller
<1>19. CASE Receive
  BY <1>19 DEF Receive
<1>20. CASE ForceStandby
  BY <1>20 DEF ForceStandby, Recovered
<1>21. CASE ReportState
  BY <1>21 DEF ReportState, Recovered
<1>22. CASE UNCHANGED vars
  BY <1>22
<1> QED BY <1>1, <1>2, <1>3, <1>4, <1>5, <1>6, <1>7, <1>8, <1>9, <1>10, <1>11,
           <1>12, <1>13, <1>14, <1>15, <1>16, <1>17, <1>18, <1>19, <1>20,
           <1>21, <1>22
       DEF Next, StreamCalls, StreamContinues, ParamsContinue,
           CheckContinues, MonitorContinues

(* After any sequence of messages, whatever any number of controllers do     *)
(* meanwhile: the force flag holds the bypass, and the pipe says "idle"      *)
(* exactly while the flag is raised, unless the last report failed.          *)
THEOREM PipeIsTrue == Spec => []PipeTellsTruth
<1>1. Init => MonitorInv
  BY ThreadFacts DEF Init, MonitorInv
<1>2. TypeOK /\ MonitorInv /\ [Next]_vars => MonitorInv'
  BY MonitorStep
<1>3. MonitorInv => PipeTellsTruth
  BY DEF MonitorInv, PipeTellsTruth
<1> QED BY <1>1, <1>2, <1>3, TypeCorrect, PTL DEF Spec

-----------------------------------------------------------------------------
(* The locks, and who may be where.                                          *)
LockInv ==
    /\ \A t \in Threads : pc[t] \in {"bypassTest", "close", "checkPcm", "checkOffload"} => adev = t
    /\ \A s \in Streams : /\ outLock[s] # None => pc[s] \in {"write", "standby"}
                          /\ s \notin open => pc[s] = "closed"
                          /\ pc[s] \notin {"keys", "check", "checkPcm", "checkOffload", "flag", "pipe"}
(* The device's pointers: of the right kind, open, and set while the stream  *)
(* is between the bypass test and the end of its write.                      *)
ActiveInv ==
    /\ \A k \in Kinds : active[k] # None => active[k] \in open /\ KindOf(active[k]) = k
    /\ \A s \in Streams : pc[s] \in {"gap", "write"} => active[KindOf(s)] = s
(* Inner streams play under the standby flag only after a crossing, and      *)
(* without it only for the active stream.                                    *)
OnInv ==
    \A s \in Streams : /\ on[s] # {} => s \in open
                       /\ on[s] # {} /\ standby[s] => s \in crossed
                       /\ on[s] # {} /\ ~standby[s] => active[KindOf(s)] = s
                       /\ pc[s] = "clear" => standby[s]
(* A stream that plays, or is about to, without the standby flag.            *)
Loud(s) == ~standby[s] /\ (on[s] # {} \/ pc[s] \in {"gap", "write"})
QuietInv ==
    bypass => \A s \in Streams : Loud(s) =>
                \E t \in Threads : \/ pc[t] = "checkPcm"
                                   \/ pc[t] = "checkOffload" /\ s \in Offload

StreamsInv == LockInv /\ ActiveInv /\ OnInv /\ QuietInv

LEMMA LockInvStep ==
  ASSUME TypeOK, LockInv, [Next]_vars
  PROVE  LockInv'
<1> USE TypeParts, ThreadFacts, ThreadsAssumption DEF LockInv, CallTypes,
        LockTypes, StreamTypes, Goto, vars, lockVars, flagVars, streamVars,
        callVars, monVars
<1>1. ASSUME NEW s \in Streams, WriteEnter(s) PROVE LockInv'
  BY <1>1 DEF WriteEnter
<1>2. ASSUME NEW s \in Streams, Bypassed(s) PROVE LockInv'
  BY <1>2 DEF Bypassed, OtherActive
<1>3. ASSUME NEW s \in Streams, NotBypassed(s) PROVE LockInv'
  BY <1>3 DEF NotBypassed, OtherActive
<1>4. ASSUME NEW s \in Streams, WriteRelock(s) PROVE LockInv'
  BY <1>4 DEF WriteRelock
<1>5. ASSUME NEW s \in Streams, InnerWrite(s) PROVE LockInv'
  BY <1>5 DEF InnerWrite
<1>6. ASSUME NEW s \in Streams, StandbyEnter(s) PROVE LockInv'
  BY <1>6 DEF StandbyEnter
<1>7. ASSUME NEW s \in Streams, StandbyInner(s) PROVE LockInv'
  BY <1>7 DEF StandbyInner, OutStandby
<1>8. ASSUME NEW s \in Streams, StandbyClear(s) PROVE LockInv'
  BY <1>8 DEF StandbyClear, Forget
<1>9. ASSUME NEW s \in Streams, StreamParams(s) PROVE LockInv'
  BY <1>9 DEF StreamParams, OutStandby
<1>10. ASSUME NEW s \in Streams, CloseEnter(s) PROVE LockInv'
  BY <1>10 DEF CloseEnter
<1>11. ASSUME NEW s \in Streams, Close(s) PROVE LockInv'
  BY <1>11 DEF Close, Forget
<1>12. ASSUME NEW c \in Controllers, ParamsEnter(c) PROVE LockInv'
  BY <1>12 DEF ParamsEnter
<1>13. ASSUME NEW c \in Controllers, SetFlag(c) PROVE LockInv'
  BY <1>13 DEF SetFlag
<1>14. ASSUME NEW c \in Controllers, ParamsDone(c) PROVE LockInv'
  BY <1>14 DEF ParamsDone
<1>15. ASSUME NEW t \in Controllers \cup {Monitor}, CheckClear(t) PROVE LockInv'
  BY <1>15 DEF CheckClear, Caller
<1>16. ASSUME NEW t \in Controllers \cup {Monitor}, CheckRaised(t) PROVE LockInv'
  BY <1>16 DEF CheckRaised
<1>17. ASSUME NEW t \in Controllers \cup {Monitor}, CheckPcm(t) PROVE LockInv'
  <2>1. SilenceActive("pcm")
    BY <1>17 DEF CheckPcm
  <2> QED BY <1>17, <2>1, KindFacts, Silenced DEF CheckPcm
<1>18. ASSUME NEW t \in Controllers \cup {Monitor}, CheckOffload(t) PROVE LockInv'
  <2>1. SilenceActive("offload")
    BY <1>18 DEF CheckOffload
  <2> QED BY <1>18, <2>1, KindFacts, Silenced DEF CheckOffload, Caller
<1>19. CASE Receive
  BY <1>19 DEF Receive
<1>20. CASE ForceStandby
  BY <1>20 DEF ForceStandby, Recovered
<1>21. CASE ReportState
  BY <1>21 DEF ReportState, Recovered
<1>22. CASE UNCHANGED vars
  BY <1>22
<1> QED BY <1>1, <1>2, <1>3, <1>4, <1>5, <1>6, <1>7, <1>8, <1>9, <1>10, <1>11,
           <1>12, <1>13, <1>14, <1>15, <1>16, <1>17, <1>18, <1>19, <1>20,
           <1>21, <1>22
       DEF Next, StreamCalls, StreamContinues, ParamsContinue,
           CheckContinues, MonitorContinues

LEMMA ActiveInvStep ==
  ASSUME TypeOK, LockInv, ActiveInv, [Next]_vars
  PROVE  ActiveInv'
<1> USE TypeParts, ThreadFacts DEF ActiveInv, LockInv, CallTypes, LockTypes,
        StreamTypes, Kinds, KindOf, Goto, vars, lockVars, flagVars, streamVars,
        callVars, monVars
<1>1. ASSUME NEW s \in Streams, WriteEnter(s) PROVE ActiveInv'
  BY <1>1 DEF WriteEnter
<1>2. ASSUME NEW s \in Streams, Bypassed(s) PROVE ActiveInv'
  BY <1>2 DEF Bypassed, OtherActive
<1>3. ASSUME NEW s \in Streams, NotBypassed(s) PROVE ActiveInv'
  BY <1>3 DEF NotBypassed, OtherActive
<1>4. ASSUME NEW s \in Streams, WriteRelock(s) PROVE ActiveInv'
  BY <1>4 DEF WriteRelock
<1>5. ASSUME NEW s \in Streams, InnerWrite(s) PROVE ActiveInv'
  BY <1>5 DEF InnerWrite
<1>6. ASSUME NEW s \in Streams, StandbyEnter(s) PROVE ActiveInv'
  BY <1>6 DEF StandbyEnter
<1>7. ASSUME NEW s \in Streams, StandbyInner(s) PROVE ActiveInv'
  BY <1>7 DEF StandbyInner, OutStandby
<1>8. ASSUME NEW s \in Streams, StandbyClear(s) PROVE ActiveInv'
  BY <1>8 DEF StandbyClear, Forget
<1>9. ASSUME NEW s \in Streams, StreamParams(s) PROVE ActiveInv'
  BY <1>9 DEF StreamParams, OutStandby
<1>10. ASSUME NEW s \in Streams, CloseEnter(s) PROVE ActiveInv'
  BY <1>10 DEF CloseEnter
<1>11. ASSUME NEW s \in Streams, Close(s) PROVE ActiveInv'
  BY <1>11 DEF Close, Forget
<1>12. ASSUME NEW c \in Controllers, ParamsEnter(c) PROVE ActiveInv'
  BY <1>12 DEF ParamsEnter
<1>13. ASSUME NEW c \in Controllers, SetFlag(c) PROVE ActiveInv'
  BY <1>13 DEF SetFlag
<1>14. ASSUME NEW c \in Controllers, ParamsDone(c) PROVE ActiveInv'
  BY <1>14 DEF ParamsDone
<1>15. ASSUME NEW t \in Controllers \cup {Monitor}, CheckClear(t) PROVE ActiveInv'
  BY <1>15 DEF CheckClear, Caller
<1>16. ASSUME NEW t \in Controllers \cup {Monitor}, CheckRaised(t) PROVE ActiveInv'
  BY <1>16 DEF CheckRaised
<1>17. ASSUME NEW t \in Controllers \cup {Monitor}, CheckPcm(t) PROVE ActiveInv'
  <2>1. SilenceActive("pcm")
    BY <1>17 DEF CheckPcm
  <2> QED BY <1>17, <2>1, KindFacts, Silenced DEF CheckPcm
<1>18. ASSUME NEW t \in Controllers \cup {Monitor}, CheckOffload(t) PROVE ActiveInv'
  <2>1. SilenceActive("offload")
    BY <1>18 DEF CheckOffload
  <2> QED BY <1>18, <2>1, KindFacts, Silenced DEF CheckOffload, Caller
<1>19. CASE Receive
  BY <1>19 DEF Receive
<1>20. CASE ForceStandby
  BY <1>20 DEF ForceStandby, Recovered
<1>21. CASE ReportState
  BY <1>21 DEF ReportState, Recovered
<1>22. CASE UNCHANGED vars
  BY <1>22
<1> QED BY <1>1, <1>2, <1>3, <1>4, <1>5, <1>6, <1>7, <1>8, <1>9, <1>10, <1>11,
           <1>12, <1>13, <1>14, <1>15, <1>16, <1>17, <1>18, <1>19, <1>20,
           <1>21, <1>22
       DEF Next, StreamCalls, StreamContinues, ParamsContinue,
           CheckContinues, MonitorContinues

LEMMA OnInvStep ==
  ASSUME TypeOK, LockInv, ActiveInv, OnInv, [Next]_vars
  PROVE  OnInv'
<1> USE TypeParts, ThreadFacts DEF OnInv, ActiveInv, LockInv, CallTypes,
        LockTypes, StreamTypes, Kinds, KindOf, Goto, vars, lockVars, flagVars,
        streamVars, callVars, monVars
<1>1. ASSUME NEW s \in Streams, WriteEnter(s) PROVE OnInv'
  BY <1>1 DEF WriteEnter
<1>2. ASSUME NEW s \in Streams, Bypassed(s) PROVE OnInv'
  BY <1>2 DEF Bypassed, OtherActive
<1>3. ASSUME NEW s \in Streams, NotBypassed(s) PROVE OnInv'
  BY <1>3 DEF NotBypassed, OtherActive
<1>4. ASSUME NEW s \in Streams, WriteRelock(s) PROVE OnInv'
  BY <1>4 DEF WriteRelock
<1>5. ASSUME NEW s \in Streams, InnerWrite(s) PROVE OnInv'
  BY <1>5 DEF InnerWrite
<1>6. ASSUME NEW s \in Streams, StandbyEnter(s) PROVE OnInv'
  BY <1>6 DEF StandbyEnter
<1>7. ASSUME NEW s \in Streams, StandbyInner(s) PROVE OnInv'
  BY <1>7 DEF StandbyInner, OutStandby
<1>8. ASSUME NEW s \in Streams, StandbyClear(s) PROVE OnInv'
  BY <1>8 DEF StandbyClear, Forget
<1>9. ASSUME NEW s \in Streams, StreamParams(s) PROVE OnInv'
  BY <1>9 DEF StreamParams, OutStandby
<1>10. ASSUME NEW s \in Streams, CloseEnter(s) PROVE OnInv'
  BY <1>10 DEF CloseEnter
<1>11. ASSUME NEW s \in Streams, Close(s) PROVE OnInv'
  BY <1>11 DEF Close, Forget
<1>12. ASSUME NEW c \in Controllers, ParamsEnter(c) PROVE OnInv'
  BY <1>12 DEF ParamsEnter
<1>13. ASSUME NEW c \in Controllers, SetFlag(c) PROVE OnInv'
  BY <1>13 DEF SetFlag
<1>14. ASSUME NEW c \in Controllers, ParamsDone(c) PROVE OnInv'
  BY <1>14 DEF ParamsDone
<1>15. ASSUME NEW t \in Controllers \cup {Monitor}, CheckClear(t) PROVE OnInv'
  BY <1>15 DEF CheckClear, Caller
<1>16. ASSUME NEW t \in Controllers \cup {Monitor}, CheckRaised(t) PROVE OnInv'
  BY <1>16 DEF CheckRaised
<1>17. ASSUME NEW t \in Controllers \cup {Monitor}, CheckPcm(t) PROVE OnInv'
  <2>1. SilenceActive("pcm")
    BY <1>17 DEF CheckPcm
  <2> QED BY <1>17, <2>1, KindFacts, Silenced DEF CheckPcm
<1>18. ASSUME NEW t \in Controllers \cup {Monitor}, CheckOffload(t) PROVE OnInv'
  <2>1. SilenceActive("offload")
    BY <1>18 DEF CheckOffload
  <2> QED BY <1>18, <2>1, KindFacts, Silenced DEF CheckOffload, Caller
<1>19. CASE Receive
  BY <1>19 DEF Receive
<1>20. CASE ForceStandby
  BY <1>20 DEF ForceStandby, Recovered
<1>21. CASE ReportState
  BY <1>21 DEF ReportState, Recovered
<1>22. CASE UNCHANGED vars
  BY <1>22
<1> QED BY <1>1, <1>2, <1>3, <1>4, <1>5, <1>6, <1>7, <1>8, <1>9, <1>10, <1>11,
           <1>12, <1>13, <1>14, <1>15, <1>16, <1>17, <1>18, <1>19, <1>20,
           <1>21, <1>22
       DEF Next, StreamCalls, StreamContinues, ParamsContinue,
           CheckContinues, MonitorContinues

LEMMA QuietInvStep ==
  ASSUME TypeOK, LockInv, ActiveInv, OnInv, QuietInv, [Next]_vars
  PROVE  QuietInv'
<1> USE TypeParts, ThreadFacts, StreamsAssumption DEF QuietInv, Loud, OnInv,
        ActiveInv, LockInv, CallTypes, LockTypes, StreamTypes, Kinds, KindOf,
        Goto, vars, lockVars, flagVars, streamVars, callVars, monVars
<1>1. ASSUME NEW s \in Streams, WriteEnter(s) PROVE QuietInv'
  BY <1>1 DEF WriteEnter
<1>2. ASSUME NEW s \in Streams, Bypassed(s) PROVE QuietInv'
  BY <1>2 DEF Bypassed, OtherActive
<1>3. ASSUME NEW s \in Streams, NotBypassed(s) PROVE QuietInv'
  BY <1>3 DEF NotBypassed, OtherActive
<1>4. ASSUME NEW s \in Streams, WriteRelock(s) PROVE QuietInv'
  BY <1>4 DEF WriteRelock
<1>5. ASSUME NEW s \in Streams, InnerWrite(s) PROVE QuietInv'
  BY <1>5 DEF InnerWrite
<1>6. ASSUME NEW s \in Streams, StandbyEnter(s) PROVE QuietInv'
  BY <1>6 DEF StandbyEnter
<1>7. ASSUME NEW s \in Streams, StandbyInner(s) PROVE QuietInv'
  BY <1>7 DEF StandbyInner, OutStandby
<1>8. ASSUME NEW s \in Streams, StandbyClear(s) PROVE QuietInv'
  BY <1>8 DEF StandbyClear, Forget
<1>9. ASSUME NEW s \in Streams, StreamParams(s) PROVE QuietInv'
  BY <1>9 DEF StreamParams, OutStandby
<1>10. ASSUME NEW s \in Streams, CloseEnter(s) PROVE QuietInv'
  BY <1>10 DEF CloseEnter
<1>11. ASSUME NEW s \in Streams, Close(s) PROVE QuietInv'
  BY <1>11 DEF Close, Forget
<1>12. ASSUME NEW c \in Controllers, ParamsEnter(c) PROVE QuietInv'
  BY <1>12 DEF ParamsEnter
<1>13. ASSUME NEW c \in Controllers, SetFlag(c) PROVE QuietInv'
  BY <1>13 DEF SetFlag
<1>14. ASSUME NEW c \in Controllers, ParamsDone(c) PROVE QuietInv'
  BY <1>14 DEF ParamsDone
<1>15. ASSUME NEW t \in Controllers \cup {Monitor}, CheckClear(t) PROVE QuietInv'
  BY <1>15 DEF CheckClear, Caller
<1>16. ASSUME NEW t \in Controllers \cup {Monitor}, CheckRaised(t) PROVE QuietInv'
  BY <1>16 DEF CheckRaised
<1>17. ASSUME NEW t \in Controllers \cup {Monitor}, CheckPcm(t) PROVE QuietInv'
  <2>1. SilenceActive("pcm")
    BY <1>17 DEF CheckPcm
  <2> QED BY <1>17, <2>1, KindFacts, Silenced DEF CheckPcm
<1>18. ASSUME NEW t \in Controllers \cup {Monitor}, CheckOffload(t) PROVE QuietInv'
  <2>1. SilenceActive("offload")
    BY <1>18 DEF CheckOffload
  <2> QED BY <1>18, <2>1, KindFacts, Silenced DEF CheckOffload, Caller
<1>19. CASE Receive
  BY <1>19 DEF Receive
<1>20. CASE ForceStandby
  BY <1>20 DEF ForceStandby, Recovered
<1>21. CASE ReportState
  BY <1>21 DEF ReportState, Recovered
<1>22. CASE UNCHANGED vars
  BY <1>22
<1> QED BY <1>1, <1>2, <1>3, <1>4, <1>5, <1>6, <1>7, <1>8, <1>9, <1>10, <1>11,
           <1>12, <1>13, <1>14, <1>15, <1>16, <1>17, <1>18, <1>19, <1>20,
           <1>21, <1>22
       DEF Next, StreamCalls, StreamContinues, ParamsContinue,
           CheckContinues, MonitorContinues

LEMMA StreamsInductive == Spec => []StreamsInv
<1>1. Init => StreamsInv
  BY ThreadFacts DEF Init, StreamsInv, LockInv, ActiveInv, OnInv, QuietInv, Loud, Kinds, KindOf
<1>2. TypeOK /\ StreamsInv /\ [Next]_vars => StreamsInv'
  BY LockInvStep, ActiveInvStep, OnInvStep, QuietInvStep DEF StreamsInv
<1> QED BY <1>1, <1>2, TypeCorrect, PTL DEF Spec

(* For any number of streams and threads: with a reason for silence and no   *)
(* check under way nothing plays but what a crossing write restarted.        *)
THEOREM SilenceIsKept == Spec => []QuietWhenBypassed
<1>1. BypassCurrent /\ StreamsInv => QuietWhenBypassed
  BY DEF BypassCurrent, StreamsInv, QuietInv, Loud, OnInv, QuietWhenBypassed, InCheck
<1> QED BY <1>1, BypassIsCurrent, StreamsInductive, PTL

(* Two streams of one kind never play together, unless one crossed.          *)
THEOREM OnePlays == Spec => []OneStreamPerKind
<1>1. StreamsInv => OneStreamPerKind
  BY DEF StreamsInv, OnInv, OneStreamPerKind
<1> QED BY <1>1, StreamsInductive, PTL

(* Nothing reaches a stream after adev_close_output_stream has freed it.     *)
THEOREM ClosedIsUnused == Spec => []ClosedUnused
<1>1. StreamsInv => ClosedUnused
  BY ThreadFacts DEF StreamsInv, LockInv, ActiveInv, OnInv, ClosedUnused
<1> QED BY <1>1, StreamsInductive, PTL

-----------------------------------------------------------------------------
(* The order of the locks: sprd_adev->lock first, then the lock of one       *)
(* stream.  WantsDevice and WantsStream say which lock a thread may ask for  *)
(* next, where it is; a stream between two calls may begin any.              *)
WantsDevice(t) ==
    pc[t] \in IF t \in Streams THEN {"idle", "clear"} ELSE {"keys", "check", "flag"}
WantsStream(t, s) ==
    \/ t = s /\ pc[t] \in {"idle", "bypassTest", "gap"}
    \/ pc[t] = "checkPcm" /\ s = active["pcm"]
    \/ pc[t] = "checkOffload" /\ s = active["offload"]
Waits(t, u) ==
    \/ WantsDevice(t) /\ adev = u
    \/ \E s \in Streams : WantsStream(t, s) /\ outLock[s] = u

\* Each lock is held by a thread inside the section it guards.
OrderInv ==
    /\ adev # None => pc[adev] \in {"bypassTest", "close", "checkPcm", "checkOffload"}
    /\ \A s \in Streams : outLock[s] \in {s, None}

LEMMA OrderStep ==
  ASSUME TypeOK, LockInv, OrderInv, [Next]_vars
  PROVE  OrderInv'
<1> USE TypeParts, ThreadFacts, ThreadsAssumption DEF LockInv, OrderInv, CallTypes,
        LockTypes, StreamTypes, Goto, vars, lockVars, flagVars, streamVars,
        callVars, monVars
<1>1. ASSUME NEW s \in Streams, WriteEnter(s) PROVE OrderInv'
  BY <1>1 DEF WriteEnter
<1>2. ASSUME NEW s \in Streams, Bypassed(s) PROVE OrderInv'
  BY <1>2 DEF Bypassed, OtherActive
<1>3. ASSUME NEW s \in Streams, NotBypassed(s) PROVE OrderInv'
  BY <1>3 DEF NotBypassed, OtherActive
<1>4. ASSUME NEW s \in Streams, WriteRelock(s) PROVE OrderInv'
  BY <1>4 DEF WriteRelock
<1>5. ASSUME NEW s \in Streams, InnerWrite(s) PROVE OrderInv'
  BY <1>5 DEF InnerWrite
<1>6. ASSUME NEW s \in Streams, StandbyEnter(s) PROVE OrderInv'
  BY <1>6 DEF StandbyEnter
<1>7. ASSUME NEW s \in Streams, StandbyInner(s) PROVE OrderInv'
  BY <1>7 DEF StandbyInner, OutStandby
<1>8. ASSUME NEW s \in Streams, StandbyClear(s) PROVE OrderInv'
  BY <1>8 DEF StandbyClear, Forget
<1>9. ASSUME NEW s \in Streams, StreamParams(s) PROVE OrderInv'
  BY <1>9 DEF StreamParams, OutStandby
<1>10. ASSUME NEW s \in Streams, CloseEnter(s) PROVE OrderInv'
  BY <1>10 DEF CloseEnter
<1>11. ASSUME NEW s \in Streams, Close(s) PROVE OrderInv'
  BY <1>11 DEF Close, Forget
<1>12. ASSUME NEW c \in Controllers, ParamsEnter(c) PROVE OrderInv'
  BY <1>12 DEF ParamsEnter
<1>13. ASSUME NEW c \in Controllers, SetFlag(c) PROVE OrderInv'
  BY <1>13 DEF SetFlag
<1>14. ASSUME NEW c \in Controllers, ParamsDone(c) PROVE OrderInv'
  BY <1>14 DEF ParamsDone
<1>15. ASSUME NEW t \in Controllers \cup {Monitor}, CheckClear(t) PROVE OrderInv'
  BY <1>15 DEF CheckClear, Caller
<1>16. ASSUME NEW t \in Controllers \cup {Monitor}, CheckRaised(t) PROVE OrderInv'
  BY <1>16 DEF CheckRaised
<1>17. ASSUME NEW t \in Controllers \cup {Monitor}, CheckPcm(t) PROVE OrderInv'
  <2>1. SilenceActive("pcm")
    BY <1>17 DEF CheckPcm
  <2> QED BY <1>17, <2>1, KindFacts, Silenced DEF CheckPcm
<1>18. ASSUME NEW t \in Controllers \cup {Monitor}, CheckOffload(t) PROVE OrderInv'
  <2>1. SilenceActive("offload")
    BY <1>18 DEF CheckOffload
  <2> QED BY <1>18, <2>1, KindFacts, Silenced DEF CheckOffload, Caller
<1>19. CASE Receive
  BY <1>19 DEF Receive
<1>20. CASE ForceStandby
  BY <1>20 DEF ForceStandby, Recovered
<1>21. CASE ReportState
  BY <1>21 DEF ReportState, Recovered
<1>22. CASE UNCHANGED vars
  BY <1>22
<1> QED BY <1>1, <1>2, <1>3, <1>4, <1>5, <1>6, <1>7, <1>8, <1>9, <1>10, <1>11,
           <1>12, <1>13, <1>14, <1>15, <1>16, <1>17, <1>18, <1>19, <1>20,
           <1>21, <1>22
       DEF Next, StreamCalls, StreamContinues, ParamsContinue,
           CheckContinues, MonitorContinues

\* A chain of waiting threads ends after two.
ChainsEnd ==
    \A t, u, v \in Threads : Waits(t, u) /\ Waits(u, v)
                               => ~(\E w \in Threads : Waits(v, w)) /\ t # u /\ u # v /\ t # v

(* For any number of streams and callers: who holds the lock of a stream     *)
(* waits for nobody, and who waits for such a thread holds the device lock   *)
(* or none.  A chain of waiting threads thus ends after two, and closes to   *)
(* no circle: check_a2dp_suspend, which takes the stream's lock inside the   *)
(* device's, out_write, which takes both, and out_standby, which takes them  *)
(* one after the other, never wait for each other.                           *)
THEOREM LocksAreOrdered == Spec => []ChainsEnd
<1>1. Init => OrderInv
  BY DEF Init, OrderInv
<1>2. TypeOK /\ StreamsInv /\ OrderInv /\ [Next]_vars => OrderInv'
  BY OrderStep DEF StreamsInv
<1>3. TypeOK /\ StreamsInv /\ OrderInv => ChainsEnd
  <2> SUFFICES ASSUME TypeOK, StreamsInv, OrderInv,
                      NEW t \in Threads, NEW u \in Threads, NEW v \in Threads,
                      Waits(t, u), Waits(u, v)
               PROVE  ~(\E w \in Threads : Waits(v, w)) /\ t # u /\ u # v /\ t # v
    BY DEF ChainsEnd
  <2> DEFINE InDevice(x) == adev = x /\ pc[x] \in {"bypassTest", "close", "checkPcm", "checkOffload"}
             InStream(x) == x \in Streams /\ pc[x] \in {"write", "standby"}
  <2>1. ASSUME NEW x \in Threads, NEW y \in Threads, Waits(x, y)
        PROVE  \/ WantsDevice(x) /\ InDevice(y)
               \/ ~InStream(x) /\ InStream(y)
    BY <2>1, ThreadFacts, ThreadsAssumption DEF Waits, WantsDevice, WantsStream, OrderInv, StreamsInv, LockInv
  <2>2. ASSUME NEW x \in Threads, InStream(x) PROVE ~WantsDevice(x)
    BY <2>2 DEF WantsDevice
  <2>3. ASSUME NEW x \in Threads, InDevice(x) PROVE ~WantsDevice(x) /\ ~InStream(x)
    BY <2>3 DEF WantsDevice
  <2>4. InDevice(u) /\ InStream(v) /\ WantsDevice(t)
    BY <2>1, <2>2, <2>3
  <2> HIDE DEF InDevice, InStream
  <2> QED BY <2>1, <2>2, <2>3, <2>4
<1> QED BY <1>1, <1>2, <1>3, TypeCorrect, StreamsInductive, PTL DEF Spec
=============================================================================
