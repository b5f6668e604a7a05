------------------------ MODULE RoutingManagerProofs ------------------------
(* The routing of the current HAL.  For any streams, devices and bounds:     *)
(* types, that no thread sleeps on work, and that each command is answered   *)
(* once, while its stream waits.  For one stream: that it is heard, and on   *)
(* the device asked for last, and that the mixer is switched under its lock. *)
EXTENDS RoutingManager, TLAPS

\* The threads are pairwise distinct, and None is no thread and no device.
LEMMA ThreadFacts ==
  /\ Setter \in Threads /\ Event \in Threads /\ Router \in Threads /\ Closer \in Threads
  /\ Setter # Event /\ Setter # Router /\ Setter # Closer
  /\ Event # Router /\ Event # Closer /\ Router # Closer
  /\ \A s \in Streams : s \in Threads /\ s \notin {Setter, Event, Router, Closer, None}
  /\ None \notin Threads
BY ThreadsAssumption DEF Threads

\* A list that grows at its end, and one that loses its head.
LEMMA AppendAt ==
  ASSUME NEW S, NEW q \in Seq(S), NEW x \in S
  PROVE  /\ Append(q, x) \in Seq(S) /\ Append(q, x) # <<>>
         /\ DOMAIN Append(q, x) = 1 .. Len(q) + 1 /\ Len(Append(q, x)) = Len(q) + 1
         /\ DOMAIN q = 1 .. Len(q) /\ Len(q) \in Nat
         /\ Append(q, x)[Len(q) + 1] = x
         /\ \A i \in DOMAIN q : Append(q, x)[i] = q[i]
OBVIOUS
LEMMA TailAt ==
  ASSUME NEW S, NEW q \in Seq(S), q # <<>>
  PROVE  /\ Tail(q) \in Seq(S) /\ Head(q) \in S /\ Head(q) = q[1]
         /\ Len(q) \in Nat \ {0} /\ DOMAIN q = 1 .. Len(q)
         /\ DOMAIN Tail(q) = 1 .. Len(q) - 1 /\ Len(Tail(q)) = Len(q) - 1
         /\ \A i \in DOMAIN Tail(q) : Tail(q)[i] = q[i + 1]
OBVIOUS


LEMMA CommandFacts ==
  /\ NoCommand \in Commands
  /\ \A c \in Commands : c.device \in Devices /\ c.by \in Streams \cup {None}
  /\ \A d \in Devices : [device |-> d, by |-> None, force |-> FALSE] \in Commands
  /\ \A d \in Devices, s \in Streams : [device |-> d, by |-> s, force |-> TRUE] \in Commands
BY DevicesAssumption DEF NoCommand, Commands

-----------------------------------------------------------------------------
(* Type correctness, in parts.                                               *)
StreamTypes ==
    /\ dev \in [Streams -> Devices] /\ standby \in [Streams -> BOOLEAN]
    /\ outLock \in [Streams -> Threads \cup {None}]
    /\ want \in [{Setter, Event} -> Devices]
ControlTypes ==
    /\ usecase \subseteq Streams /\ ctlLock \in Threads \cup {None}
    /\ ctlDev \in Devices \cup {None}
    /\ vbc \in Routable \cup {None} /\ route \in Routable \cup {None}
    /\ seen \in [Streams -> SUBSET Streams]
ListTypes ==
    /\ events \in Seq(Devices) /\ cmds \in Seq(Commands) /\ cur \in Commands
CountTypes ==
    /\ evSem \in Nat /\ evExit \in BOOLEAN
    /\ sem \in Nat /\ exit \in BOOLEAN
    /\ answered \in [Streams -> Nat]
    /\ todo \subseteq Streams /\ requests \in 0 .. MaxRequests
PlaceTypes ==
    pc \in [Threads -> {"idle", "on", "onRead", "onWrite", "onUnlock", "vbcLock",
                           "vbcApply", "pcm", "send", "post", "wait", "release", "off",
                           "offTest", "offWrite", "offUnlock", "top", "look", "apply",
                           "select", "test", "enable", "decide", "switch", "relock",
                           "done", "drain", "exited", "join", "joinEvent",
                           "closed", "aborted"}]

LEMMA TypeParts ==
  TypeOK <=> StreamTypes /\ ControlTypes /\ ListTypes /\ CountTypes /\ PlaceTypes
BY DEF TypeOK, StreamTypes, ControlTypes, ListTypes, CountTypes, PlaceTypes

LEMMA InitTypes == Init => TypeOK
<1> SUFFICES ASSUME Init PROVE TypeOK
  OBVIOUS
<1>1. StreamTypes
  BY DevicesAssumption DEF Init, StreamTypes
<1>2. ControlTypes
  BY DEF Init, ControlTypes
<1>3. ListTypes
  BY CommandFacts DEF Init, ListTypes
<1>4. CountTypes
  <2>1. 0 \in 0 .. MaxRequests
    BY BoundsAssumption
  <2>2. answered \in [Streams -> Nat]
    BY DEF Init
  <2> QED BY <2>1, <2>2 DEF Init, CountTypes
<1>5. PlaceTypes
  BY DEF Init, PlaceTypes
<1> QED BY <1>1, <1>2, <1>3, <1>4, <1>5, TypeParts

\* Devices and locks of the streams.
LEMMA StreamTypesStep ==
  ASSUME StreamTypes, ListTypes, PlaceTypes, [Next]_vars
  PROVE  StreamTypes'
<1> USE ThreadFacts, DevicesAssumption DEF StreamTypes, Goto, At, vars,
        streamVars, evVars, rtVars, mixVars, ctlVars, locals
<1>1. ASSUME NEW s \in Streams, StartEnter(s) PROVE StreamTypes'
  BY <1>1 DEF StartEnter
<1>2. ASSUME NEW s \in Streams, Standby(s) PROVE StreamTypes'
  BY <1>2 DEF Standby
<1>3. ASSUME NEW s \in Streams, UsecaseLock(s) PROVE StreamTypes'
  BY <1>3 DEF UsecaseLock, Lock
<1>4. ASSUME NEW s \in Streams, UsecaseRefused(s) PROVE StreamTypes'
  BY <1>4 DEF UsecaseRefused, Unlock
<1>5. ASSUME NEW s \in Streams, UsecaseRead(s) PROVE StreamTypes'
  BY <1>5 DEF UsecaseRead
<1>6. ASSUME NEW s \in Streams, UsecaseOn(s) PROVE StreamTypes'
  BY <1>6 DEF UsecaseOn
<1>7. ASSUME NEW s \in Streams, UsecaseUnlock(s) PROVE StreamTypes'
  BY <1>7 DEF UsecaseUnlock, Unlock
<1>8. ASSUME NEW s \in Streams, SwitchVbcLock(s) PROVE StreamTypes'
  BY <1>8 DEF SwitchVbcLock, Lock
<1>9. ASSUME NEW s \in Streams, SwitchVbcRoute(s) PROVE StreamTypes'
  BY <1>9 DEF SwitchVbcRoute, VbcRoute, Unlock
<1>10. ASSUME NEW s \in Streams, PcmOpen(s) PROVE StreamTypes'
  BY <1>10 DEF PcmOpen
<1>11. ASSUME NEW s \in Streams, SendSync(s) PROVE StreamTypes'
  BY <1>11 DEF SendSync, Send, StartForces
<1>12. ASSUME NEW s \in Streams, StartDone(s) PROVE StreamTypes'
  BY <1>12 DEF StartDone
<1>13. ASSUME NEW s \in Streams, Release(s) PROVE StreamTypes'
  BY <1>13 DEF Release
<1>14. ASSUME NEW s \in Streams, UsecaseTest(s) PROVE StreamTypes'
  BY <1>14 DEF UsecaseTest, Unlock
<1>15. ASSUME NEW s \in Streams, UsecaseOff(s) PROVE StreamTypes'
  BY <1>15 DEF UsecaseOff
<1>16. ASSUME NEW s \in Streams, EventApply(s) PROVE StreamTypes'
  BY <1>16 DEF EventApply
<1>17. ASSUME NEW t \in Streams \cup {Event}, SendPost(t) PROVE StreamTypes'
  BY <1>17 DEF SendPost
<1>18. CASE Request
  BY <1>18 DEF Request
<1>19. CASE CreateEvent
  BY <1>19 DEF CreateEvent
<1>20. CASE PostEvent
  BY <1>20 DEF PostEvent
<1>21. CASE EventTop
  BY <1>21 DEF EventTop
<1>22. CASE EventEmpty
  BY <1>22 DEF EventEmpty
<1>23. CASE EventPop
  BY <1>23, Head(events) \in Devices, TailAt DEF EventPop, ListTypes
<1>24. CASE EventWait
  BY <1>24 DEF EventWait
<1>25. CASE EventSend
  BY <1>25 DEF EventSend, Send
<1>26. CASE EventAborts
  BY <1>26 DEF EventAborts
<1>27. CASE EventDrain
  BY <1>27 DEF EventDrain
<1>28. CASE RouterTop
  BY <1>28 DEF RouterTop
<1>29. CASE RouterEmpty
  BY <1>29 DEF RouterEmpty
<1>30. CASE RouterPop
  BY <1>30 DEF RouterPop, TakeHead
<1>31. CASE RouterWait
  BY <1>31 DEF RouterWait
<1>32. CASE SelectLock
  BY <1>32 DEF SelectLock, Lock
<1>33. CASE SelectIdle
  BY <1>33 DEF SelectIdle, Unlock
<1>34. CASE SelectSame
  BY <1>34 DEF SelectSame, Unlock
<1>35. CASE SelectOther
  BY <1>35 DEF SelectOther
<1>36. CASE SelectEnable
  BY <1>36 DEF SelectEnable, VbcRoute
<1>37. CASE SelectNoAccess
  BY <1>37 DEF SelectNoAccess, Unlock
<1>38. CASE SelectDecide
  BY <1>38 DEF SelectDecide, Unlock
<1>39. CASE SwitchRoute
  BY <1>39 DEF SwitchRoute
<1>40. CASE SelectRelock
  BY <1>40 DEF SelectRelock, Unlock
<1>41. CASE RouterDone
  BY <1>41 DEF RouterDone, Answer
<1>42. CASE RouterDrain
  BY <1>42 DEF RouterDrain, Answer
<1>43. CASE RouterExit
  BY <1>43 DEF RouterExit
<1>44. CASE CloseRouting
  BY <1>44 DEF CloseRouting
<1>45. CASE ClosePost
  BY <1>45 DEF ClosePost
<1>46. CASE CloseEvents
  BY <1>46 DEF CloseEvents
<1>47. CASE Closed
  BY <1>47 DEF Closed
<1>48. CASE UNCHANGED vars
  BY <1>48
<1> QED BY <1>1, <1>2, <1>3, <1>4, <1>5, <1>6, <1>7, <1>8, <1>9, <1>10, <1>11,
           <1>12, <1>13, <1>14, <1>15, <1>16, <1>17, <1>18, <1>19, <1>20,
           <1>21, <1>22, <1>23, <1>24, <1>25, <1>26, <1>27, <1>28, <1>29,
           <1>30, <1>31, <1>32, <1>33, <1>34, <1>35, <1>36, <1>37, <1>38,
           <1>39, <1>40, <1>41, <1>42, <1>43, <1>44, <1>45, <1>46, <1>47, <1>48
       DEF Next, StreamContinues, SetterContinues, EventContinues,
           RouterContinues, CloserContinues

\* The state of audio_control.
LEMMA ControlTypesStep ==
  ASSUME ControlTypes, StreamTypes, ListTypes, [Next]_vars
  PROVE  ControlTypes'
<1> USE ThreadFacts, CommandFacts, DevicesAssumption DEF ControlTypes,
        StreamTypes, Goto, At, vars, streamVars, evVars, rtVars, mixVars,
        ctlVars, locals
<1>1. ASSUME NEW s \in Streams, StartEnter(s) PROVE ControlTypes'
  BY <1>1 DEF StartEnter
<1>2. ASSUME NEW s \in Streams, Standby(s) PROVE ControlTypes'
  BY <1>2 DEF Standby
<1>3. ASSUME NEW s \in Streams, UsecaseLock(s) PROVE ControlTypes'
  BY <1>3 DEF UsecaseLock, Lock
<1>4. ASSUME NEW s \in Streams, UsecaseRefused(s) PROVE ControlTypes'
  BY <1>4 DEF UsecaseRefused, Unlock
<1>5. ASSUME NEW s \in Streams, UsecaseRead(s) PROVE ControlTypes'
  BY <1>5 DEF UsecaseRead
<1>6. ASSUME NEW s \in Streams, UsecaseOn(s) PROVE ControlTypes'
  BY <1>6 DEF UsecaseOn
<1>7. ASSUME NEW s \in Streams, UsecaseUnlock(s) PROVE ControlTypes'
  BY <1>7 DEF UsecaseUnlock, Unlock
<1>8. ASSUME NEW s \in Streams, SwitchVbcLock(s) PROVE ControlTypes'
  BY <1>8 DEF SwitchVbcLock, Lock
<1>9. ASSUME NEW s \in Streams, SwitchVbcRoute(s) PROVE ControlTypes'
  BY <1>9 DEF SwitchVbcRoute, VbcRoute, Unlock
<1>10. ASSUME NEW s \in Streams, PcmOpen(s) PROVE ControlTypes'
  BY <1>10 DEF PcmOpen
<1>11. ASSUME NEW s \in Streams, SendSync(s) PROVE ControlTypes'
  BY <1>11 DEF SendSync, Send, StartForces
<1>12. ASSUME NEW s \in Streams, StartDone(s) PROVE ControlTypes'
  BY <1>12 DEF StartDone
<1>13. ASSUME NEW s \in Streams, Release(s) PROVE ControlTypes'
  BY <1>13 DEF Release
<1>14. ASSUME NEW s \in Streams, UsecaseTest(s) PROVE ControlTypes'
  BY <1>14 DEF UsecaseTest, Unlock
<1>15. ASSUME NEW s \in Streams, UsecaseOff(s) PROVE ControlTypes'
  BY <1>15 DEF UsecaseOff
<1>16. ASSUME NEW s \in Streams, EventApply(s) PROVE ControlTypes'
  BY <1>16 DEF EventApply
<1>17. ASSUME NEW t \in Streams \cup {Event}, SendPost(t) PROVE ControlTypes'
  BY <1>17 DEF SendPost
<1>18. CASE Request
  BY <1>18 DEF Request
<1>19. CASE CreateEvent
  BY <1>19 DEF CreateEvent
<1>20. CASE PostEvent
  BY <1>20 DEF PostEvent
<1>21. CASE EventTop
  BY <1>21 DEF EventTop
<1>22. CASE EventEmpty
  BY <1>22 DEF EventEmpty
<1>23. CASE EventPop
  BY <1>23 DEF EventPop
<1>24. CASE EventWait
  BY <1>24 DEF EventWait
<1>25. CASE EventSend
  BY <1>25 DEF EventSend, Send
<1>26. CASE EventAborts
  BY <1>26 DEF EventAborts
<1>27. CASE EventDrain
  BY <1>27 DEF EventDrain
<1>28. CASE RouterTop
  BY <1>28 DEF RouterTop
<1>29. CASE RouterEmpty
  BY <1>29 DEF RouterEmpty
<1>30. CASE RouterPop
  BY <1>30 DEF RouterPop, TakeHead
<1>31. CASE RouterWait
  BY <1>31 DEF RouterWait
<1>32. CASE SelectLock
  BY <1>32 DEF SelectLock, Lock
<1>33. CASE SelectIdle
  BY <1>33 DEF SelectIdle, Unlock
<1>34. CASE SelectSame
  BY <1>34 DEF SelectSame, Unlock
<1>35. CASE SelectOther
  BY <1>35 DEF SelectOther
<1>36. CASE SelectEnable
  BY <1>36 DEF SelectEnable, VbcRoute
<1>37. CASE SelectNoAccess
  BY <1>37 DEF SelectNoAccess, Unlock
<1>38. CASE SelectDecide
  BY <1>38, cur.device \in Devices DEF SelectDecide, Unlock, ListTypes
<1>39. CASE SwitchRoute
  BY <1>39 DEF SwitchRoute
<1>40. CASE SelectRelock
  BY <1>40, cur.device \in Devices DEF SelectRelock, Unlock, ListTypes
<1>41. CASE RouterDone
  BY <1>41 DEF RouterDone, Answer
<1>42. CASE RouterDrain
  BY <1>42 DEF RouterDrain, Answer
<1>43. CASE RouterExit
  BY <1>43 DEF RouterExit
<1>44. CASE CloseRouting
  BY <1>44 DEF CloseRouting
<1>45. CASE ClosePost
  BY <1>45 DEF ClosePost
<1>46. CASE CloseEvents
  BY <1>46 DEF CloseEvents
<1>47. CASE Closed
  BY <1>47 DEF Closed
<1>48. CASE UNCHANGED vars
  BY <1>48
<1> QED BY <1>1, <1>2, <1>3, <1>4, <1>5, <1>6, <1>7, <1>8, <1>9, <1>10, <1>11,
           <1>12, <1>13, <1>14, <1>15, <1>16, <1>17, <1>18, <1>19, <1>20,
           <1>21, <1>22, <1>23, <1>24, <1>25, <1>26, <1>27, <1>28, <1>29,
           <1>30, <1>31, <1>32, <1>33, <1>34, <1>35, <1>36, <1>37, <1>38,
           <1>39, <1>40, <1>41, <1>42, <1>43, <1>44, <1>45, <1>46, <1>47, <1>48
       DEF Next, StreamContinues, SetterContinues, EventContinues,
           RouterContinues, CloserContinues

\* The two lists.
LEMMA ListTypesStep ==
  ASSUME ListTypes, StreamTypes, [Next]_vars
  PROVE  ListTypes'
<1> USE ThreadFacts, CommandFacts, DevicesAssumption DEF ListTypes,
        StreamTypes, Goto, At, vars, streamVars, evVars, rtVars, mixVars,
        ctlVars, locals
<1>1. ASSUME NEW s \in Streams, StartEnter(s) PROVE ListTypes'
  BY <1>1 DEF StartEnter
<1>2. ASSUME NEW s \in Streams, Standby(s) PROVE ListTypes'
  BY <1>2 DEF Standby
<1>3. ASSUME NEW s \in Streams, UsecaseLock(s) PROVE ListTypes'
  BY <1>3 DEF UsecaseLock, Lock
<1>4. ASSUME NEW s \in Streams, UsecaseRefused(s) PROVE ListTypes'
  BY <1>4 DEF UsecaseRefused, Unlock
<1>5. ASSUME NEW s \in Streams, UsecaseRead(s) PROVE ListTypes'
  BY <1>5 DEF UsecaseRead
<1>6. ASSUME NEW s \in Streams, UsecaseOn(s) PROVE ListTypes'
  BY <1>6 DEF UsecaseOn
<1>7. ASSUME NEW s \in Streams, UsecaseUnlock(s) PROVE ListTypes'
  BY <1>7 DEF UsecaseUnlock, Unlock
<1>8. ASSUME NEW s \in Streams, SwitchVbcLock(s) PROVE ListTypes'
  BY <1>8 DEF SwitchVbcLock, Lock
<1>9. ASSUME NEW s \in Streams, SwitchVbcRoute(s) PROVE ListTypes'
  BY <1>9 DEF SwitchVbcRoute, VbcRoute, Unlock
<1>10. ASSUME NEW s \in Streams, PcmOpen(s) PROVE ListTypes'
  BY <1>10 DEF PcmOpen
<1>11. ASSUME NEW s \in Streams, SendSync(s) PROVE ListTypes'
  BY <1>11, AppendAt DEF SendSync, Send, StartForces
<1>12. ASSUME NEW s \in Streams, StartDone(s) PROVE ListTypes'
  BY <1>12 DEF StartDone
<1>13. ASSUME NEW s \in Streams, Release(s) PROVE ListTypes'
  BY <1>13 DEF Release
<1>14. ASSUME NEW s \in Streams, UsecaseTest(s) PROVE ListTypes'
  BY <1>14 DEF UsecaseTest, Unlock
<1>15. ASSUME NEW s \in Streams, UsecaseOff(s) PROVE ListTypes'
  BY <1>15 DEF UsecaseOff
<1>16. ASSUME NEW s \in Streams, EventApply(s) PROVE ListTypes'
  BY <1>16 DEF EventApply
<1>17. ASSUME NEW t \in Streams \cup {Event}, SendPost(t) PROVE ListTypes'
  BY <1>17 DEF SendPost
<1>18. CASE Request
  BY <1>18 DEF Request
<1>19. CASE CreateEvent
  BY <1>19, AppendAt DEF CreateEvent
<1>20. CASE PostEvent
  BY <1>20 DEF PostEvent
<1>21. CASE EventTop
  BY <1>21 DEF EventTop
<1>22. CASE EventEmpty
  BY <1>22 DEF EventEmpty
<1>23. CASE EventPop
  BY <1>23, TailAt DEF EventPop
<1>24. CASE EventWait
  BY <1>24 DEF EventWait
<1>25. CASE EventSend
  BY <1>25, AppendAt DEF EventSend, Send
<1>26. CASE EventAborts
  BY <1>26 DEF EventAborts
<1>27. CASE EventDrain
  BY <1>27 DEF EventDrain
<1>28. CASE RouterTop
  BY <1>28 DEF RouterTop
<1>29. CASE RouterEmpty
  BY <1>29 DEF RouterEmpty
<1>30. CASE RouterPop
  BY <1>30, TailAt DEF RouterPop, TakeHead
<1>31. CASE RouterWait
  BY <1>31 DEF RouterWait
<1>32. CASE SelectLock
  BY <1>32 DEF SelectLock, Lock
<1>33. CASE SelectIdle
  BY <1>33 DEF SelectIdle, Unlock
<1>34. CASE SelectSame
  BY <1>34 DEF SelectSame, Unlock
<1>35. CASE SelectOther
  BY <1>35 DEF SelectOther
<1>36. CASE SelectEnable
  BY <1>36 DEF SelectEnable, VbcRoute
<1>37. CASE SelectNoAccess
  BY <1>37 DEF SelectNoAccess, Unlock
<1>38. CASE SelectDecide
  BY <1>38 DEF SelectDecide, Unlock
<1>39. CASE SwitchRoute
  BY <1>39 DEF SwitchRoute
<1>40. CASE SelectRelock
  BY <1>40 DEF SelectRelock, Unlock
<1>41. CASE RouterDone
  BY <1>41 DEF RouterDone, Answer
<1>42. CASE RouterDrain
  BY <1>42, TailAt DEF RouterDrain
<1>43. CASE RouterExit
  BY <1>43 DEF RouterExit
<1>44. CASE CloseRouting
  BY <1>44 DEF CloseRouting
<1>45. CASE ClosePost
  BY <1>45 DEF ClosePost
<1>46. CASE CloseEvents
  BY <1>46 DEF CloseEvents
<1>47. CASE Closed
  BY <1>47 DEF Closed
<1>48. CASE UNCHANGED vars
  BY <1>48
<1> QED BY <1>1, <1>2, <1>3, <1>4, <1>5, <1>6, <1>7, <1>8, <1>9, <1>10, <1>11,
           <1>12, <1>13, <1>14, <1>15, <1>16, <1>17, <1>18, <1>19, <1>20,
           <1>21, <1>22, <1>23, <1>24, <1>25, <1>26, <1>27, <1>28, <1>29,
           <1>30, <1>31, <1>32, <1>33, <1>34, <1>35, <1>36, <1>37, <1>38,
           <1>39, <1>40, <1>41, <1>42, <1>43, <1>44, <1>45, <1>46, <1>47, <1>48
       DEF Next, StreamContinues, SetterContinues, EventContinues,
           RouterContinues, CloserContinues

\* Semaphores and flags.
LEMMA CountTypesStep ==
  ASSUME CountTypes, ListTypes, [Next]_vars
  PROVE  CountTypes'
<1> USE ThreadFacts, CommandFacts, BoundsAssumption DEF CountTypes, Goto, At,
        vars, streamVars, evVars, rtVars, mixVars, ctlVars, locals
<1>1. ASSUME NEW s \in Streams, StartEnter(s) PROVE CountTypes'
  BY <1>1 DEF StartEnter
<1>2. ASSUME NEW s \in Streams, Standby(s) PROVE CountTypes'
  BY <1>2 DEF Standby
<1>3. ASSUME NEW s \in Streams, UsecaseLock(s) PROVE CountTypes'
  BY <1>3 DEF UsecaseLock, Lock
<1>4. ASSUME NEW s \in Streams, UsecaseRefused(s) PROVE CountTypes'
  BY <1>4 DEF UsecaseRefused, Unlock
<1>5. ASSUME NEW s \in Streams, UsecaseRead(s) PROVE CountTypes'
  BY <1>5 DEF UsecaseRead
<1>6. ASSUME NEW s \in Streams, UsecaseOn(s) PROVE CountTypes'
  BY <1>6 DEF UsecaseOn
<1>7. ASSUME NEW s \in Streams, UsecaseUnlock(s) PROVE CountTypes'
  BY <1>7 DEF UsecaseUnlock, Unlock
<1>8. ASSUME NEW s \in Streams, SwitchVbcLock(s) PROVE CountTypes'
  BY <1>8 DEF SwitchVbcLock, Lock
<1>9. ASSUME NEW s \in Streams, SwitchVbcRoute(s) PROVE CountTypes'
  BY <1>9 DEF SwitchVbcRoute, VbcRoute, Unlock
<1>10. ASSUME NEW s \in Streams, PcmOpen(s) PROVE CountTypes'
  BY <1>10 DEF PcmOpen
<1>11. ASSUME NEW s \in Streams, SendSync(s) PROVE CountTypes'
  BY <1>11 DEF SendSync, Send, StartForces
<1>12. ASSUME NEW s \in Streams, StartDone(s) PROVE CountTypes'
  BY <1>12 DEF StartDone
<1>13. ASSUME NEW s \in Streams, Release(s) PROVE CountTypes'
  BY <1>13 DEF Release
<1>14. ASSUME NEW s \in Streams, UsecaseTest(s) PROVE CountTypes'
  BY <1>14 DEF UsecaseTest, Unlock
<1>15. ASSUME NEW s \in Streams, UsecaseOff(s) PROVE CountTypes'
  BY <1>15 DEF UsecaseOff
<1>16. ASSUME NEW s \in Streams, EventApply(s) PROVE CountTypes'
  BY <1>16 DEF EventApply
<1>17. ASSUME NEW t \in Streams \cup {Event}, SendPost(t) PROVE CountTypes'
  BY <1>17 DEF SendPost
<1>18. CASE Request
  BY <1>18 DEF Request
<1>19. CASE CreateEvent
  BY <1>19 DEF CreateEvent
<1>20. CASE PostEvent
  BY <1>20 DEF PostEvent
<1>21. CASE EventTop
  BY <1>21 DEF EventTop
<1>22. CASE EventEmpty
  BY <1>22 DEF EventEmpty
<1>23. CASE EventPop
  BY <1>23 DEF EventPop
<1>24. CASE EventWait
  BY <1>24 DEF EventWait
<1>25. CASE EventSend
  BY <1>25 DEF EventSend, Send
<1>26. CASE EventAborts
  BY <1>26 DEF EventAborts
<1>27. CASE EventDrain
  BY <1>27 DEF EventDrain
<1>28. CASE RouterTop
  BY <1>28 DEF RouterTop
<1>29. CASE RouterEmpty
  BY <1>29 DEF RouterEmpty
<1>30. CASE RouterPop
  BY <1>30 DEF RouterPop, TakeHead
<1>31. CASE RouterWait
  BY <1>31 DEF RouterWait
<1>32. CASE SelectLock
  BY <1>32 DEF SelectLock, Lock
<1>33. CASE SelectIdle
  BY <1>33 DEF SelectIdle, Unlock
<1>34. CASE SelectSame
  BY <1>34 DEF SelectSame, Unlock
<1>35. CASE SelectOther
  BY <1>35 DEF SelectOther
<1>36. CASE SelectEnable
  BY <1>36 DEF SelectEnable, VbcRoute
<1>37. CASE SelectNoAccess
  BY <1>37 DEF SelectNoAccess, Unlock
<1>38. CASE SelectDecide
  BY <1>38 DEF SelectDecide, Unlock
<1>39. CASE SwitchRoute
  BY <1>39 DEF SwitchRoute
<1>40. CASE SelectRelock
  BY <1>40 DEF SelectRelock, Unlock
<1>41. CASE RouterDone
  BY <1>41 DEF RouterDone, Answer, ListTypes
<1>42. CASE RouterDrain
  BY <1>42, TailAt DEF RouterDrain, Answer, ListTypes
<1>43. CASE RouterExit
  BY <1>43 DEF RouterExit
<1>44. CASE CloseRouting
  BY <1>44 DEF CloseRouting
<1>45. CASE ClosePost
  BY <1>45 DEF ClosePost
<1>46. CASE CloseEvents
  BY <1>46 DEF CloseEvents
<1>47. CASE Closed
  BY <1>47 DEF Closed
<1>48. CASE UNCHANGED vars
  BY <1>48
<1> QED BY <1>1, <1>2, <1>3, <1>4, <1>5, <1>6, <1>7, <1>8, <1>9, <1>10, <1>11,
           <1>12, <1>13, <1>14, <1>15, <1>16, <1>17, <1>18, <1>19, <1>20,
           <1>21, <1>22, <1>23, <1>24, <1>25, <1>26, <1>27, <1>28, <1>29,
           <1>30, <1>31, <1>32, <1>33, <1>34, <1>35, <1>36, <1>37, <1>38,
           <1>39, <1>40, <1>41, <1>42, <1>43, <1>44, <1>45, <1>46, <1>47, <1>48
       DEF Next, StreamContinues, SetterContinues, EventContinues,
           RouterContinues, CloserContinues

\* Where the threads are.
LEMMA PlaceTypesStep ==
  ASSUME PlaceTypes, [Next]_vars
  PROVE  PlaceTypes'
<1> USE ThreadFacts DEF PlaceTypes, Goto, At, vars, streamVars, evVars, rtVars,
        mixVars, ctlVars, locals
<1>1. ASSUME NEW s \in Streams, StartEnter(s) PROVE PlaceTypes'
  BY <1>1 DEF StartEnter
<1>2. ASSUME NEW s \in Streams, Standby(s) PROVE PlaceTypes'
  BY <1>2 DEF Standby
<1>3. ASSUME NEW s \in Streams, UsecaseLock(s) PROVE PlaceTypes'
  BY <1>3 DEF UsecaseLock, Lock
<1>4. ASSUME NEW s \in Streams, UsecaseRefused(s) PROVE PlaceTypes'
  BY <1>4 DEF UsecaseRefused, Unlock
<1>5. ASSUME NEW s \in Streams, UsecaseRead(s) PROVE PlaceTypes'
  BY <1>5 DEF UsecaseRead
<1>6. ASSUME NEW s \in Streams, UsecaseOn(s) PROVE PlaceTypes'
  BY <1>6 DEF UsecaseOn
<1>7. ASSUME NEW s \in Streams, UsecaseUnlock(s) PROVE PlaceTypes'
  BY <1>7 DEF UsecaseUnlock, Unlock
<1>8. ASSUME NEW s \in Streams, SwitchVbcLock(s) PROVE PlaceTypes'
  BY <1>8 DEF SwitchVbcLock, Lock
<1>9. ASSUME NEW s \in Streams, SwitchVbcRoute(s) PROVE PlaceTypes'
  BY <1>9 DEF SwitchVbcRoute, VbcRoute, Unlock
<1>10. ASSUME NEW s \in Streams, PcmOpen(s) PROVE PlaceTypes'
  BY <1>10 DEF PcmOpen
<1>11. ASSUME NEW s \in Streams, SendSync(s) PROVE PlaceTypes'
  BY <1>11 DEF SendSync, Send, StartForces
<1>12. ASSUME NEW s \in Streams, StartDone(s) PROVE PlaceTypes'
  BY <1>12 DEF StartDone
<1>13. ASSUME NEW s \in Streams, Release(s) PROVE PlaceTypes'
  BY <1>13 DEF Release
<1>14. ASSUME NEW s \in Streams, UsecaseTest(s) PROVE PlaceTypes'
  BY <1>14 DEF UsecaseTest, Unlock
<1>15. ASSUME NEW s \in Streams, UsecaseOff(s) PROVE PlaceTypes'
  BY <1>15 DEF UsecaseOff
<1>16. ASSUME NEW s \in Streams, EventApply(s) PROVE PlaceTypes'
  BY <1>16 DEF EventApply
<1>17. ASSUME NEW t \in Streams \cup {Event}, SendPost(t) PROVE PlaceTypes'
  BY <1>17 DEF SendPost
<1>18. CASE Request
  BY <1>18 DEF Request
<1>19. CASE CreateEvent
  BY <1>19 DEF CreateEvent
<1>20. CASE PostEvent
  BY <1>20 DEF PostEvent
<1>21. CASE EventTop
  BY <1>21 DEF EventTop
<1>22. CASE EventEmpty
  BY <1>22 DEF EventEmpty
<1>23. CASE EventPop
  BY <1>23 DEF EventPop
<1>24. CASE EventWait
  BY <1>24 DEF EventWait
<1>25. CASE EventSend
  BY <1>25 DEF EventSend, Send
<1>26. CASE EventAborts
  BY <1>26 DEF EventAborts
<1>27. CASE EventDrain
  BY <1>27 DEF EventDrain
<1>28. CASE RouterTop
  BY <1>28 DEF RouterTop
<1>29. CASE RouterEmpty
  BY <1>29 DEF RouterEmpty
<1>30. CASE RouterPop
  BY <1>30 DEF RouterPop, TakeHead
<1>31. CASE RouterWait
  BY <1>31 DEF RouterWait
<1>32. CASE SelectLock
  BY <1>32 DEF SelectLock, Lock
<1>33. CASE SelectIdle
  BY <1>33 DEF SelectIdle, Unlock
<1>34. CASE SelectSame
  BY <1>34 DEF SelectSame, Unlock
<1>35. CASE SelectOther
  BY <1>35 DEF SelectOther
<1>36. CASE SelectEnable
  BY <1>36 DEF SelectEnable, VbcRoute
<1>37. CASE SelectNoAccess
  BY <1>37 DEF SelectNoAccess, Unlock
<1>38. CASE SelectDecide
  BY <1>38 DEF SelectDecide, Unlock
<1>39. CASE SwitchRoute
  BY <1>39 DEF SwitchRoute
<1>40. CASE SelectRelock
  BY <1>40 DEF SelectRelock, Unlock
<1>41. CASE RouterDone
  BY <1>41 DEF RouterDone, Answer
<1>42. CASE RouterDrain
  BY <1>42 DEF RouterDrain, Answer
<1>43. CASE RouterExit
  BY <1>43 DEF RouterExit
<1>44. CASE CloseRouting
  BY <1>44 DEF CloseRouting
<1>45. CASE ClosePost
  BY <1>45 DEF ClosePost
<1>46. CASE CloseEvents
  BY <1>46 DEF CloseEvents
<1>47. CASE Closed
  BY <1>47 DEF Closed
<1>48. CASE UNCHANGED vars
  BY <1>48
<1> QED BY <1>1, <1>2, <1>3, <1>4, <1>5, <1>6, <1>7, <1>8, <1>9, <1>10, <1>11,
           <1>12, <1>13, <1>14, <1>15, <1>16, <1>17, <1>18, <1>19, <1>20,
           <1>21, <1>22, <1>23, <1>24, <1>25, <1>26, <1>27, <1>28, <1>29,
           <1>30, <1>31, <1>32, <1>33, <1>34, <1>35, <1>36, <1>37, <1>38,
           <1>39, <1>40, <1>41, <1>42, <1>43, <1>44, <1>45, <1>46, <1>47, <1>48
       DEF Next, StreamContinues, SetterContinues, EventContinues,
           RouterContinues, CloserContinues

(* Every reachable state is well typed.                                      *)
THEOREM TypeCorrect == Spec => []TypeOK
<1>1. TypeOK /\ [Next]_vars => TypeOK'
  <2> SUFFICES ASSUME TypeOK, [Next]_vars PROVE TypeOK'
    OBVIOUS
  <2>1. StreamTypes /\ ControlTypes /\ ListTypes /\ CountTypes /\ PlaceTypes
    BY TypeParts
  <2>2. StreamTypes'
    BY <2>1, StreamTypesStep
  <2>3. ControlTypes'
    BY <2>1, ControlTypesStep
  <2>4. ListTypes'
    BY <2>1, ListTypesStep
  <2>5. CountTypes'
    BY <2>1, CountTypesStep
  <2>6. PlaceTypes'
    BY <2>1, PlaceTypesStep
  <2> QED BY <2>2, <2>3, <2>4, <2>5, <2>6
      DEF TypeOK, StreamTypes, ControlTypes, ListTypes, CountTypes, PlaceTypes
<1> QED BY <1>1, InitTypes, PTL DEF Spec

-----------------------------------------------------------------------------
(* The exit flags: each thread that has not seen its flag yet has a post of  *)
(* its semaphore before it, or to come.                                      *)
ExitInv ==
    /\ exit => \/ pc[Router] \in {"top", "drain", "exited", "aborted"}
               \/ sem > 0 \/ At(Closer, "post")
    /\ evExit => pc[Event] \in {"top", "drain", "exited", "aborted"} \/ evSem > 0
(* The lists: work in a list is covered by a post, made or to come.          *)
RouterInv ==
    At(Router, "wait") /\ sem = 0 => cmds = <<>> \/ \E t \in Streams \cup {Event} : At(t, "post")
EventInv == At(Event, "wait") /\ evSem = 0 => events = <<>> \/ At(Setter, "post")

\* An exit flag goes up together with a post, or before it.
LEMMA ExitStep ==
  ASSUME CountTypes, PlaceTypes, ExitInv, [Next]_vars
  PROVE  ExitInv'
<1> USE ThreadFacts DEF ExitInv, CountTypes, PlaceTypes, Goto, At, vars,
        streamVars, evVars, rtVars, mixVars, ctlVars, locals
<1>1. ASSUME NEW s \in Streams, StartEnter(s) PROVE ExitInv'
  BY <1>1 DEF StartEnter
<1>2. ASSUME NEW s \in Streams, Standby(s) PROVE ExitInv'
  BY <1>2 DEF Standby
<1>3. ASSUME NEW s \in Streams, UsecaseLock(s) PROVE ExitInv'
  BY <1>3 DEF UsecaseLock, Lock
<1>4. ASSUME NEW s \in Streams, UsecaseRefused(s) PROVE ExitInv'
  BY <1>4 DEF UsecaseRefused, Unlock
<1>5. ASSUME NEW s \in Streams, UsecaseRead(s) PROVE ExitInv'
  BY <1>5 DEF UsecaseRead
<1>6. ASSUME NEW s \in Streams, UsecaseOn(s) PROVE ExitInv'
  BY <1>6 DEF UsecaseOn
<1>7. ASSUME NEW s \in Streams, UsecaseUnlock(s) PROVE ExitInv'
  BY <1>7 DEF UsecaseUnlock, Unlock
<1>8. ASSUME NEW s \in Streams, SwitchVbcLock(s) PROVE ExitInv'
  BY <1>8 DEF SwitchVbcLock, Lock
<1>9. ASSUME NEW s \in Streams, SwitchVbcRoute(s) PROVE ExitInv'
  BY <1>9 DEF SwitchVbcRoute, VbcRoute, Unlock
<1>10. ASSUME NEW s \in Streams, PcmOpen(s) PROVE ExitInv'
  BY <1>10 DEF PcmOpen
<1>11. ASSUME NEW s \in Streams, SendSync(s) PROVE ExitInv'
  BY <1>11 DEF SendSync, Send, StartForces
<1>12. ASSUME NEW s \in Streams, StartDone(s) PROVE ExitInv'
  BY <1>12 DEF StartDone
<1>13. ASSUME NEW s \in Streams, Release(s) PROVE ExitInv'
  BY <1>13 DEF Release
<1>14. ASSUME NEW s \in Streams, UsecaseTest(s) PROVE ExitInv'
  BY <1>14 DEF UsecaseTest, Unlock
<1>15. ASSUME NEW s \in Streams, UsecaseOff(s) PROVE ExitInv'
  BY <1>15 DEF UsecaseOff
<1>16. ASSUME NEW s \in Streams, EventApply(s) PROVE ExitInv'
  BY <1>16 DEF EventApply
<1>17. ASSUME NEW t \in Streams \cup {Event}, SendPost(t) PROVE ExitInv'
  BY <1>17 DEF SendPost
<1>18. CASE Request
  BY <1>18 DEF Request
<1>19. CASE CreateEvent
  BY <1>19 DEF CreateEvent
<1>20. CASE PostEvent
  BY <1>20 DEF PostEvent
<1>21. CASE EventTop
  BY <1>21 DEF EventTop
<1>22. CASE EventEmpty
  BY <1>22 DEF EventEmpty
<1>23. CASE EventPop
  BY <1>23 DEF EventPop
<1>24. CASE EventWait
  BY <1>24 DEF EventWait
<1>25. CASE EventSend
  BY <1>25 DEF EventSend, Send
<1>26. CASE EventAborts
  BY <1>26 DEF EventAborts
<1>27. CASE EventDrain
  BY <1>27 DEF EventDrain
<1>28. CASE RouterTop
  BY <1>28 DEF RouterTop
<1>29. CASE RouterEmpty
  BY <1>29 DEF RouterEmpty
<1>30. CASE RouterPop
  BY <1>30 DEF RouterPop, TakeHead
<1>31. CASE RouterWait
  BY <1>31 DEF RouterWait
<1>32. CASE SelectLock
  BY <1>32 DEF SelectLock, Lock
<1>33. CASE SelectIdle
  BY <1>33 DEF SelectIdle, Unlock
<1>34. CASE SelectSame
  BY <1>34 DEF SelectSame, Unlock
<1>35. CASE SelectOther
  BY <1>35 DEF SelectOther
<1>36. CASE SelectEnable
  BY <1>36 DEF SelectEnable, VbcRoute
<1>37. CASE SelectNoAccess
  BY <1>37 DEF SelectNoAccess, Unlock
<1>38. CASE SelectDecide
  BY <1>38 DEF SelectDecide, Unlock
<1>39. CASE SwitchRoute
  BY <1>39 DEF SwitchRoute
<1>40. CASE SelectRelock
  BY <1>40 DEF SelectRelock, Unlock
<1>41. CASE RouterDone
  BY <1>41 DEF RouterDone, Answer
<1>42. CASE RouterDrain
  BY <1>42 DEF RouterDrain, Answer
<1>43. CASE RouterExit
  BY <1>43 DEF RouterExit
<1>44. CASE CloseRouting
  BY <1>44 DEF CloseRouting
<1>45. CASE ClosePost
  BY <1>45 DEF ClosePost
<1>46. CASE CloseEvents
  BY <1>46 DEF CloseEvents
<1>47. CASE Closed
  BY <1>47 DEF Closed
<1>48. CASE UNCHANGED vars
  BY <1>48
<1> QED BY <1>1, <1>2, <1>3, <1>4, <1>5, <1>6, <1>7, <1>8, <1>9, <1>10, <1>11,
           <1>12, <1>13, <1>14, <1>15, <1>16, <1>17, <1>18, <1>19, <1>20,
           <1>21, <1>22, <1>23, <1>24, <1>25, <1>26, <1>27, <1>28, <1>29,
           <1>30, <1>31, <1>32, <1>33, <1>34, <1>35, <1>36, <1>37, <1>38,
           <1>39, <1>40, <1>41, <1>42, <1>43, <1>44, <1>45, <1>46, <1>47, <1>48
       DEF Next, StreamContinues, SetterContinues, EventContinues,
           RouterContinues, CloserContinues

\* A command is appended before the post.
LEMMA RouterStep ==
  ASSUME CountTypes, PlaceTypes, RouterInv, [Next]_vars
  PROVE  RouterInv'
<1> USE ThreadFacts DEF RouterInv, CountTypes, PlaceTypes, Goto, At, vars,
        streamVars, evVars, rtVars, mixVars, ctlVars, locals
<1>1. ASSUME NEW s \in Streams, StartEnter(s) PROVE RouterInv'
  BY <1>1 DEF StartEnter
<1>2. ASSUME NEW s \in Streams, Standby(s) PROVE RouterInv'
  BY <1>2 DEF Standby
<1>3. ASSUME NEW s \in Streams, UsecaseLock(s) PROVE RouterInv'
  BY <1>3 DEF UsecaseLock, Lock
<1>4. ASSUME NEW s \in Streams, UsecaseRefused(s) PROVE RouterInv'
  BY <1>4 DEF UsecaseRefused, Unlock
<1>5. ASSUME NEW s \in Streams, UsecaseRead(s) PROVE RouterInv'
  BY <1>5 DEF UsecaseRead
<1>6. ASSUME NEW s \in Streams, UsecaseOn(s) PROVE RouterInv'
  BY <1>6 DEF UsecaseOn
<1>7. ASSUME NEW s \in Streams, UsecaseUnlock(s) PROVE RouterInv'
  BY <1>7 DEF UsecaseUnlock, Unlock
<1>8. ASSUME NEW s \in Streams, SwitchVbcLock(s) PROVE RouterInv'
  BY <1>8 DEF SwitchVbcLock, Lock
<1>9. ASSUME NEW s \in Streams, SwitchVbcRoute(s) PROVE RouterInv'
  BY <1>9 DEF SwitchVbcRoute, VbcRoute, Unlock
<1>10. ASSUME NEW s \in Streams, PcmOpen(s) PROVE RouterInv'
  BY <1>10 DEF PcmOpen
<1>11. ASSUME NEW s \in Streams, SendSync(s) PROVE RouterInv'
  BY <1>11 DEF SendSync, Send, StartForces
<1>12. ASSUME NEW s \in Streams, StartDone(s) PROVE RouterInv'
  BY <1>12 DEF StartDone
<1>13. ASSUME NEW s \in Streams, Release(s) PROVE RouterInv'
  BY <1>13 DEF Release
<1>14. ASSUME NEW s \in Streams, UsecaseTest(s) PROVE RouterInv'
  BY <1>14 DEF UsecaseTest, Unlock
<1>15. ASSUME NEW s \in Streams, UsecaseOff(s) PROVE RouterInv'
  BY <1>15 DEF UsecaseOff
<1>16. ASSUME NEW s \in Streams, EventApply(s) PROVE RouterInv'
  BY <1>16 DEF EventApply
<1>17. ASSUME NEW t \in Streams \cup {Event}, SendPost(t) PROVE RouterInv'
  BY <1>17 DEF SendPost
<1>18. CASE Request
  BY <1>18 DEF Request
<1>19. CASE CreateEvent
  BY <1>19 DEF CreateEvent
<1>20. CASE PostEvent
  BY <1>20 DEF PostEvent
<1>21. CASE EventTop
  BY <1>21 DEF EventTop
<1>22. CASE EventEmpty
  BY <1>22 DEF EventEmpty
<1>23. CASE EventPop
  BY <1>23 DEF EventPop
<1>24. CASE EventWait
  BY <1>24 DEF EventWait
<1>25. CASE EventSend
  BY <1>25 DEF EventSend, Send
<1>26. CASE EventAborts
  BY <1>26 DEF EventAborts
<1>27. CASE EventDrain
  BY <1>27 DEF EventDrain
<1>28. CASE RouterTop
  BY <1>28 DEF RouterTop
<1>29. CASE RouterEmpty
  BY <1>29 DEF RouterEmpty
<1>30. CASE RouterPop
  BY <1>30 DEF RouterPop, TakeHead
<1>31. CASE RouterWait
  BY <1>31 DEF RouterWait
<1>32. CASE SelectLock
  BY <1>32 DEF SelectLock, Lock
<1>33. CASE SelectIdle
  BY <1>33 DEF SelectIdle, Unlock
<1>34. CASE SelectSame
  BY <1>34 DEF SelectSame, Unlock
<1>35. CASE SelectOther
  BY <1>35 DEF SelectOther
<1>36. CASE SelectEnable
  BY <1>36 DEF SelectEnable, VbcRoute
<1>37. CASE SelectNoAccess
  BY <1>37 DEF SelectNoAccess, Unlock
<1>38. CASE SelectDecide
  BY <1>38 DEF SelectDecide, Unlock
<1>39. CASE SwitchRoute
  BY <1>39 DEF SwitchRoute
<1>40. CASE SelectRelock
  BY <1>40 DEF SelectRelock, Unlock
<1>41. CASE RouterDone
  BY <1>41 DEF RouterDone, Answer
<1>42. CASE RouterDrain
  BY <1>42 DEF RouterDrain, Answer
<1>43. CASE RouterExit
  BY <1>43 DEF RouterExit
<1>44. CASE CloseRouting
  BY <1>44 DEF CloseRouting
<1>45. CASE ClosePost
  BY <1>45 DEF ClosePost
<1>46. CASE CloseEvents
  BY <1>46 DEF CloseEvents
<1>47. CASE Closed
  BY <1>47 DEF Closed
<1>48. CASE UNCHANGED vars
  BY <1>48
<1> QED BY <1>1, <1>2, <1>3, <1>4, <1>5, <1>6, <1>7, <1>8, <1>9, <1>10, <1>11,
           <1>12, <1>13, <1>14, <1>15, <1>16, <1>17, <1>18, <1>19, <1>20,
           <1>21, <1>22, <1>23, <1>24, <1>25, <1>26, <1>27, <1>28, <1>29,
           <1>30, <1>31, <1>32, <1>33, <1>34, <1>35, <1>36, <1>37, <1>38,
           <1>39, <1>40, <1>41, <1>42, <1>43, <1>44, <1>45, <1>46, <1>47, <1>48
       DEF Next, StreamContinues, SetterContinues, EventContinues,
           RouterContinues, CloserContinues

\* So is an event.
LEMMA EventStep ==
  ASSUME CountTypes, PlaceTypes, EventInv, [Next]_vars
  PROVE  EventInv'
<1> USE ThreadFacts DEF EventInv, CountTypes, PlaceTypes, Goto, At, vars,
        streamVars, evVars, rtVars, mixVars, ctlVars, locals
<1>1. ASSUME NEW s \in Streams, StartEnter(s) PROVE EventInv'
  BY <1>1 DEF StartEnter
<1>2. ASSUME NEW s \in Streams, Standby(s) PROVE EventInv'
  BY <1>2 DEF Standby
<1>3. ASSUME NEW s \in Streams, UsecaseLock(s) PROVE EventInv'
  BY <1>3 DEF UsecaseLock, Lock
<1>4. ASSUME NEW s \in Streams, UsecaseRefused(s) PROVE EventInv'
  BY <1>4 DEF UsecaseRefused, Unlock
<1>5. ASSUME NEW s \in Streams, UsecaseRead(s) PROVE EventInv'
  BY <1>5 DEF UsecaseRead
<1>6. ASSUME NEW s \in Streams, UsecaseOn(s) PROVE EventInv'
  BY <1>6 DEF UsecaseOn
<1>7. ASSUME NEW s \in Streams, UsecaseUnlock(s) PROVE EventInv'
  BY <1>7 DEF UsecaseUnlock, Unlock
<1>8. ASSUME NEW s \in Streams, SwitchVbcLock(s) PROVE EventInv'
  BY <1>8 DEF SwitchVbcLock, Lock
<1>9. ASSUME NEW s \in Streams, SwitchVbcRoute(s) PROVE EventInv'
  BY <1>9 DEF SwitchVbcRoute, VbcRoute, Unlock
<1>10. ASSUME NEW s \in Streams, PcmOpen(s) PROVE EventInv'
  BY <1>10 DEF PcmOpen
<1>11. ASSUME NEW s \in Streams, SendSync(s) PROVE EventInv'
  BY <1>11 DEF SendSync, Send, StartForces
<1>12. ASSUME NEW s \in Streams, StartDone(s) PROVE EventInv'
  BY <1>12 DEF StartDone
<1>13. ASSUME NEW s \in Streams, Release(s) PROVE EventInv'
  BY <1>13 DEF Release
<1>14. ASSUME NEW s \in Streams, UsecaseTest(s) PROVE EventInv'
  BY <1>14 DEF UsecaseTest, Unlock
<1>15. ASSUME NEW s \in Streams, UsecaseOff(s) PROVE EventInv'
  BY <1>15 DEF UsecaseOff
<1>16. ASSUME NEW s \in Streams, EventApply(s) PROVE EventInv'
  BY <1>16 DEF EventApply
<1>17. ASSUME NEW t \in Streams \cup {Event}, SendPost(t) PROVE EventInv'
  BY <1>17 DEF SendPost
<1>18. CASE Request
  BY <1>18 DEF Request
<1>19. CASE CreateEvent
  BY <1>19 DEF CreateEvent
<1>20. CASE PostEvent
  BY <1>20 DEF PostEvent
<1>21. CASE EventTop
  BY <1>21 DEF EventTop
<1>22. CASE EventEmpty
  BY <1>22 DEF EventEmpty
<1>23. CASE EventPop
  BY <1>23 DEF EventPop
<1>24. CASE EventWait
  BY <1>24 DEF EventWait
<1>25. CASE EventSend
  BY <1>25 DEF EventSend, Send
<1>26. CASE EventAborts
  BY <1>26 DEF EventAborts
<1>27. CASE EventDrain
  BY <1>27 DEF EventDrain
<1>28. CASE RouterTop
  BY <1>28 DEF RouterTop
<1>29. CASE RouterEmpty
  BY <1>29 DEF RouterEmpty
<1>30. CASE RouterPop
  BY <1>30 DEF RouterPop, TakeHead
<1>31. CASE RouterWait
  BY <1>31 DEF RouterWait
<1>32. CASE SelectLock
  BY <1>32 DEF SelectLock, Lock
<1>33. CASE SelectIdle
  BY <1>33 DEF SelectIdle, Unlock
<1>34. CASE SelectSame
  BY <1>34 DEF SelectSame, Unlock
<1>35. CASE SelectOther
  BY <1>35 DEF SelectOther
<1>36. CASE SelectEnable
  BY <1>36 DEF SelectEnable, VbcRoute
<1>37. CASE SelectNoAccess
  BY <1>37 DEF SelectNoAccess, Unlock
<1>38. CASE SelectDecide
  BY <1>38 DEF SelectDecide, Unlock
<1>39. CASE SwitchRoute
  BY <1>39 DEF SwitchRoute
<1>40. CASE SelectRelock
  BY <1>40 DEF SelectRelock, Unlock
<1>41. CASE RouterDone
  BY <1>41 DEF RouterDone, Answer
<1>42. CASE RouterDrain
  BY <1>42 DEF RouterDrain, Answer
<1>43. CASE RouterExit
  BY <1>43 DEF RouterExit
<1>44. CASE CloseRouting
  BY <1>44 DEF CloseRouting
<1>45. CASE ClosePost
  BY <1>45 DEF ClosePost
<1>46. CASE CloseEvents
  BY <1>46 DEF CloseEvents
<1>47. CASE Closed
  BY <1>47 DEF Closed
<1>48. CASE UNCHANGED vars
  BY <1>48
<1> QED BY <1>1, <1>2, <1>3, <1>4, <1>5, <1>6, <1>7, <1>8, <1>9, <1>10, <1>11,
           <1>12, <1>13, <1>14, <1>15, <1>16, <1>17, <1>18, <1>19, <1>20,
           <1>21, <1>22, <1>23, <1>24, <1>25, <1>26, <1>27, <1>28, <1>29,
           <1>30, <1>31, <1>32, <1>33, <1>34, <1>35, <1>36, <1>37, <1>38,
           <1>39, <1>40, <1>41, <1>42, <1>43, <1>44, <1>45, <1>46, <1>47, <1>48
       DEF Next, StreamContinues, SetterContinues, EventContinues,
           RouterContinues, CloserContinues

(* For any streams, devices and bounds: neither the routing thread nor the   *)
(* event thread sleeps on its semaphore while its list holds work, or after  *)
(* adev_close told it to end, unless somebody is about to post.              *)
THEOREM WakeupsAreKept == Spec => []NoLostWakeup
<1>1. Init => ExitInv /\ RouterInv /\ EventInv
  BY ThreadFacts DEF Init, ExitInv, RouterInv, EventInv, At
<1>2. TypeOK /\ ExitInv /\ RouterInv /\ EventInv /\ [Next]_vars
        => (ExitInv /\ RouterInv /\ EventInv)'
  BY TypeParts, ExitStep, RouterStep, EventStep
<1>3. TypeOK /\ ExitInv /\ RouterInv /\ EventInv => NoLostWakeup
  BY DEF TypeOK, ExitInv, RouterInv, EventInv, NoLostWakeup, At
<1> QED BY <1>1, <1>2, <1>3, TypeCorrect, PTL DEF Spec

-----------------------------------------------------------------------------
(* Whose step a step is, and what each thread leaves alone.                  *)
StreamMoves(s) == StartEnter(s) \/ Standby(s) \/ StreamContinues(s)
SetterMoves == Request \/ SetterContinues
EventMoves ==
    \/ EventTop \/ EventEmpty \/ EventPop \/ EventWait
    \/ (\E s \in Streams : EventApply(s)) \/ EventSend \/ SendPost(Event) \/ EventDrain
RouterMoves == RouterContinues
CloserMoves == CloseRouting \/ CloserContinues

StaysBut(t) == \A u \in Threads \ {t} : pc'[u] = pc[u]
StreamFrame(s) ==
    /\ StaysBut(s) /\ UNCHANGED <<dev, evVars, exit, ctlDev, want, cur, todo>>
    /\ At(Closer, "idle") \/ pc[s] \notin {"idle", "aborted"}
SetterFrame ==
    /\ StaysBut(Setter) /\ pc[Setter] # "aborted" /\ pc'[Setter] # "aborted"
    /\ UNCHANGED <<standby, ctlVars, mixVars, evExit, rtVars, answered, seen, cur, todo>>
EventFrame ==
    /\ StaysBut(Event)
    /\ UNCHANGED <<standby, ctlVars, mixVars, evExit, exit, answered, seen, cur>>
RouterFrame ==
    /\ StaysBut(Router) /\ UNCHANGED <<streamVars, usecase, evVars, exit, seen, want, todo>>
CloserFrame ==
    /\ StaysBut(Closer) /\ pc'[Closer] # "idle"
    /\ UNCHANGED <<streamVars, ctlVars, mixVars, events, cmds, answered, seen, want, cur, todo>>

\* A stream knows nothing of the lists' threads and of the framework.
LEMMA StreamKeeps ==
  ASSUME NEW s \in Streams, PlaceTypes, StreamMoves(s)
  PROVE  StreamFrame(s)
<1> USE ThreadFacts DEF StreamFrame, StaysBut, PlaceTypes, Goto, At, vars, streamVars, evVars, rtVars,
        mixVars, ctlVars, locals
<1>1. CASE StartEnter(s)
  BY <1>1 DEF StartEnter
<1>2. CASE Standby(s)
  BY <1>2 DEF Standby
<1>3. CASE UsecaseLock(s)
  BY <1>3 DEF UsecaseLock, Lock
<1>4. CASE UsecaseRefused(s)
  BY <1>4 DEF UsecaseRefused, Unlock
<1>5. CASE UsecaseRead(s)
  BY <1>5 DEF UsecaseRead
<1>6. CASE UsecaseOn(s)
  BY <1>6 DEF UsecaseOn
<1>7. CASE UsecaseUnlock(s)
  BY <1>7 DEF UsecaseUnlock, Unlock
<1>8. CASE SwitchVbcLock(s)
  BY <1>8 DEF SwitchVbcLock, Lock
<1>9. CASE SwitchVbcRoute(s)
  BY <1>9 DEF SwitchVbcRoute, VbcRoute, Unlock
<1>10. CASE PcmOpen(s)
  BY <1>10 DEF PcmOpen
<1>11. CASE SendSync(s)
  BY <1>11 DEF SendSync, Send, StartForces
<1>12. CASE SendPost(s)
  BY <1>12 DEF SendPost
<1>13. CASE StartDone(s)
  BY <1>13 DEF StartDone
<1>14. CASE Release(s)
  BY <1>14 DEF Release
<1>15. CASE UsecaseTest(s)
  BY <1>15 DEF UsecaseTest, Unlock
<1>16. CASE UsecaseOff(s)
  BY <1>16 DEF UsecaseOff
<1> QED BY <1>1, <1>2, <1>3, <1>4, <1>5, <1>6, <1>7, <1>8, <1>9, <1>10, <1>11,
       <1>12, <1>13, <1>14, <1>15, <1>16 DEF StreamMoves, StreamContinues

\* The framework asks, and touches nothing of what is routed.
LEMMA SetterKeeps ==
  ASSUME PlaceTypes, SetterMoves
  PROVE  SetterFrame
<1> USE ThreadFacts DEF SetterFrame, StaysBut, PlaceTypes, Goto, At, vars, streamVars, evVars, rtVars,
        mixVars, ctlVars, locals
<1>1. CASE Request
  BY <1>1 DEF Request
<1>2. CASE CreateEvent
  BY <1>2 DEF CreateEvent
<1>3. CASE PostEvent
  BY <1>3 DEF PostEvent
<1> QED BY <1>1, <1>2, <1>3 DEF SetterMoves, SetterContinues

\* The event thread hands requests over; it does not route.
LEMMA EventKeeps ==
  ASSUME PlaceTypes, EventMoves
  PROVE  EventFrame
<1> USE ThreadFacts DEF EventFrame, StaysBut, PlaceTypes, Goto, At, vars, streamVars, evVars, rtVars,
        mixVars, ctlVars, locals
<1>1. CASE EventTop
  BY <1>1 DEF EventTop
<1>2. CASE EventEmpty
  BY <1>2 DEF EventEmpty
<1>3. CASE EventPop
  BY <1>3 DEF EventPop
<1>4. CASE EventWait
  BY <1>4 DEF EventWait
<1>5. ASSUME NEW u \in Streams, EventApply(u) PROVE EventFrame
  BY <1>5 DEF EventApply
<1>6. CASE EventSend
  BY <1>6 DEF EventSend, Send
<1>7. CASE SendPost(Event)
  BY <1>7 DEF SendPost
<1>8. CASE EventDrain
  BY <1>8 DEF EventDrain
<1> QED BY <1>1, <1>2, <1>3, <1>4, <1>5, <1>6, <1>7, <1>8 DEF EventMoves,
       EventContinues

\* The routing thread routes; the streams and the usecase are not its own.
LEMMA RouterKeeps ==
  ASSUME PlaceTypes, RouterMoves
  PROVE  RouterFrame
<1> USE ThreadFacts DEF RouterFrame, StaysBut, PlaceTypes, Goto, At, vars, streamVars, evVars, rtVars,
        mixVars, ctlVars, locals
<1>1. CASE RouterTop
  BY <1>1 DEF RouterTop
<1>2. CASE RouterEmpty
  BY <1>2 DEF RouterEmpty
<1>3. CASE RouterPop
  BY <1>3 DEF RouterPop, TakeHead
<1>4. CASE RouterWait
  BY <1>4 DEF RouterWait
<1>5. CASE SelectLock
  BY <1>5 DEF SelectLock, Lock
<1>6. CASE SelectIdle
  BY <1>6 DEF SelectIdle, Unlock
<1>7. CASE SelectSame
  BY <1>7 DEF SelectSame, Unlock
<1>8. CASE SelectOther
  BY <1>8 DEF SelectOther
<1>9. CASE SelectEnable
  BY <1>9 DEF SelectEnable, VbcRoute
<1>10. CASE SelectNoAccess
  BY <1>10 DEF SelectNoAccess, Unlock
<1>11. CASE SelectDecide
  BY <1>11 DEF SelectDecide, Unlock
<1>12. CASE SwitchRoute
  BY <1>12 DEF SwitchRoute
<1>13. CASE SelectRelock
  BY <1>13 DEF SelectRelock, Unlock
<1>14. CASE RouterDone
  BY <1>14 DEF RouterDone, Answer
<1>15. CASE RouterDrain
  BY <1>15 DEF RouterDrain, Answer
<1>16. CASE RouterExit
  BY <1>16 DEF RouterExit
<1> QED BY <1>1, <1>2, <1>3, <1>4, <1>5, <1>6, <1>7, <1>8, <1>9, <1>10, <1>11,
       <1>12, <1>13, <1>14, <1>15, <1>16 DEF RouterMoves, RouterContinues

\* adev_close only raises the flags and posts.
LEMMA CloserKeeps ==
  ASSUME PlaceTypes, CloserMoves
  PROVE  CloserFrame
<1> USE ThreadFacts DEF CloserFrame, StaysBut, PlaceTypes, Goto, At, vars, streamVars, evVars, rtVars,
        mixVars, ctlVars, locals
<1>1. CASE CloseRouting
  BY <1>1 DEF CloseRouting
<1>2. CASE ClosePost
  BY <1>2 DEF ClosePost
<1>3. CASE CloseEvents
  BY <1>3 DEF CloseEvents
<1>4. CASE Closed
  BY <1>4 DEF Closed
<1> QED BY <1>1, <1>2, <1>3, <1>4 DEF CloserMoves, CloserContinues

\* Every step is a step of one thread, the end of the process, or none.
LEMMA Moves ==
  ASSUME [Next]_vars
  PROVE  \/ \E s \in Streams : StreamMoves(s)
         \/ SetterMoves \/ EventMoves \/ EventAborts \/ RouterMoves \/ CloserMoves
         \/ UNCHANGED vars
BY DEF Next, StreamMoves, SetterMoves, EventMoves, EventContinues, RouterMoves,
       CloserMoves

-----------------------------------------------------------------------------
(* The end of the two threads: adev_close begins when no stream is in use,   *)
(* so that a thread that leaves its loop leaves nobody behind.               *)
Working == {"select", "test", "enable", "decide", "switch", "relock", "done"}
PhaseInv ==
    /\ At(Closer, "idle") \/ \A s \in Streams : pc[s] \in {"idle", "aborted"} /\ ~Playing(s)
    /\ exit \/ evExit => ~At(Closer, "idle")
    /\ pc[Router] \in {"drain", "exited"} => exit
    /\ pc[Event] \in {"drain", "exited"} => evExit
    /\ \A t \in Threads : At(t, "aborted") => ~At(Closer, "idle")
    /\ pc[Router] \in Working \cup {"top", "look", "wait", "drain", "exited", "aborted"}

\* Closing begins when all streams are idle, and nothing begins afterwards.
LEMMA PhaseStep ==
  ASSUME PlaceTypes, PhaseInv, [Next]_vars
  PROVE  PhaseInv'
<1> USE ThreadFacts DEF PhaseInv, Working, PlaceTypes, Playing, StaysBut, Goto,
        At, vars, streamVars, evVars, rtVars, mixVars, ctlVars, locals
<1>1. ASSUME NEW t \in Streams, StreamMoves(t) PROVE PhaseInv'
  <2>1. StreamFrame(t)
    BY <1>1, StreamKeeps
  <2>2. At(Closer, "idle") /\ pc'[Closer] = "idle"
    BY <2>1 DEF StreamFrame
  <2>3. pc'[t] # "aborted"
    BY <1>1 DEF StreamMoves, StreamContinues, StartEnter, Standby, UsecaseLock,
       UsecaseRefused, UsecaseRead, UsecaseOn, UsecaseUnlock, SwitchVbcLock,
       SwitchVbcRoute, PcmOpen, SendSync, SendPost, Send, StartDone, Release,
       UsecaseTest, UsecaseOff
  <2> QED BY <2>1, <2>2, <2>3 DEF StreamFrame
<1>2. CASE SetterMoves
  BY <1>2, SetterKeeps DEF SetterFrame
<1>3. CASE EventMoves
  <2>1. EventFrame
    BY <1>3, EventKeeps
  <2> USE <2>1 DEF EventFrame
  <2>2. CASE EventTop
    BY <2>2 DEF EventTop
  <2>3. CASE EventEmpty
    BY <2>3 DEF EventEmpty
  <2>4. CASE EventPop
    BY <2>4 DEF EventPop
  <2>5. CASE EventWait
    BY <2>5 DEF EventWait
  <2>6. ASSUME NEW u \in Streams, EventApply(u) PROVE PhaseInv'
    BY <2>6 DEF EventApply
  <2>7. CASE EventSend
    BY <2>7 DEF EventSend, Send
  <2>8. CASE SendPost(Event)
    BY <2>8 DEF SendPost
  <2>9. CASE EventDrain
    BY <2>9 DEF EventDrain
  <2> QED BY <1>3, <2>2, <2>3, <2>4, <2>5, <2>6, <2>7, <2>8, <2>9 DEF EventMoves,
           EventContinues
<1>4. CASE EventAborts
  BY <1>4 DEF EventAborts
<1>5. CASE RouterMoves
  <2>1. RouterFrame
    BY <1>5, RouterKeeps
  <2> USE <2>1 DEF RouterFrame
  <2>2. CASE RouterTop
    BY <2>2 DEF RouterTop
  <2>3. CASE RouterEmpty
    BY <2>3 DEF RouterEmpty
  <2>4. CASE RouterPop
    BY <2>4 DEF RouterPop, TakeHead
  <2>5. CASE RouterWait
    BY <2>5 DEF RouterWait
  <2>6. CASE SelectLock
    BY <2>6 DEF SelectLock, Lock
  <2>7. CASE SelectIdle
    BY <2>7 DEF SelectIdle, Unlock
  <2>8. CASE SelectSame
    BY <2>8 DEF SelectSame, Unlock
  <2>9. CASE SelectOther
    BY <2>9 DEF SelectOther
  <2>10. CASE SelectEnable
    BY <2>10 DEF SelectEnable, VbcRoute
  <2>11. CASE SelectNoAccess
    BY <2>11 DEF SelectNoAccess, Unlock
  <2>12. CASE SelectDecide
    BY <2>12 DEF SelectDecide, Unlock
  <2>13. CASE SwitchRoute
    BY <2>13 DEF SwitchRoute
  <2>14. CASE SelectRelock
    BY <2>14 DEF SelectRelock, Unlock
  <2>15. CASE RouterDone
    BY <2>15 DEF RouterDone, Answer
  <2>16. CASE RouterDrain
    BY <2>16 DEF RouterDrain, Answer
  <2>17. CASE RouterExit
    BY <2>17 DEF RouterExit
  <2> QED BY <1>5, <2>2, <2>3, <2>4, <2>5, <2>6, <2>7, <2>8, <2>9, <2>10, <2>11,
           <2>12, <2>13, <2>14, <2>15, <2>16, <2>17 DEF RouterMoves,
           RouterContinues
<1>6. CASE CloserMoves
  <2>1. CloserFrame
    BY <1>6, CloserKeeps
  <2> USE <2>1 DEF CloserFrame
  <2>2. CASE CloseRouting
    BY <2>2 DEF CloseRouting
  <2>3. CASE ClosePost
    BY <2>3 DEF ClosePost
  <2>4. CASE CloseEvents
    BY <2>4 DEF CloseEvents
  <2>5. CASE Closed
    BY <2>5 DEF Closed
  <2> QED BY <1>6, <2>2, <2>3, <2>4, <2>5 DEF CloserMoves, CloserContinues
<1>7. CASE UNCHANGED vars
  BY <1>7
<1> QED BY <1>1, <1>2, <1>3, <1>4, <1>5, <1>6, <1>7, Moves

-----------------------------------------------------------------------------
(* The commands of the streams that wait.                                    *)

LEMMA ListedAppend ==
  ASSUME NEW q \in Seq(Commands), NEW x \in Commands, NEW u
  PROVE  (\E i \in DOMAIN Append(q, x) : Append(q, x)[i].by = u)
           <=> (\E i \in DOMAIN q : q[i].by = u) \/ x.by = u
<1>1. ASSUME NEW i \in DOMAIN Append(q, x), Append(q, x)[i].by = u
      PROVE  (\E j \in DOMAIN q : q[j].by = u) \/ x.by = u
  <2>1. i \in DOMAIN q \/ i = Len(q) + 1
    BY AppendAt
  <2> QED BY <1>1, <2>1, AppendAt
<1>2. ASSUME NEW i \in DOMAIN q, q[i].by = u
      PROVE  i \in DOMAIN Append(q, x) /\ Append(q, x)[i].by = u
  BY <1>2, AppendAt
<1>3. Len(q) + 1 \in DOMAIN Append(q, x) /\ Append(q, x)[Len(q) + 1] = x
  BY AppendAt
<1> QED BY <1>1, <1>2, <1>3

InWait(s) == pc[s] \in {"post", "wait"}
Listed(s) == \E i \in DOMAIN cmds : cmds[i].by = s
LEMMA ListGrows ==
  ASSUME cmds \in Seq(Commands), NEW c \in Commands, cmds' = Append(cmds, c)
  PROVE  \A u \in Streams : Listed(u)' <=> Listed(u) \/ c.by = u
BY ListedAppend DEF Listed

\* One command for each stream that waits unanswered; one answer otherwise.
Owned(s) ==
    /\ Listed(s) => cur.by # s
    /\ \A i, j \in DOMAIN cmds : cmds[i].by = s /\ cmds[j].by = s => i = j
    /\ answered[s] # 0 => answered[s] = 1 /\ InWait(s)
    /\ Waiting(s) <=> cur.by = s \/ Listed(s)
OwnInv ==
    /\ \A s \in Streams : Owned(s)
    /\ pc[Router] \notin Working \cup {"aborted"} => cur.by = None

\* A command is listed once, taken once and answered once.
LEMMA OwnStep ==
  ASSUME StreamTypes, ListTypes, CountTypes, PlaceTypes, PhaseInv, OwnInv,
         [Next]_vars
  PROVE  OwnInv'
<1> USE ThreadFacts, CommandFacts DEF ListTypes, CountTypes, PlaceTypes,
        PhaseInv, OwnInv, Owned, Waiting, InWait, Listed, Working, Playing,
        StaysBut, Goto, At, vars, streamVars, evVars, rtVars, mixVars, ctlVars,
        locals
<1>1. ASSUME NEW t \in Streams, StreamMoves(t) PROVE OwnInv'
  <2>1. StreamFrame(t)
    BY <1>1, StreamKeeps
  <2> USE <2>1 DEF StreamFrame
  <2>2. CASE StartEnter(t)
    BY <2>2 DEF StartEnter
  <2>3. CASE Standby(t)
    BY <2>3 DEF Standby
  <2>4. CASE UsecaseLock(t)
    BY <2>4 DEF UsecaseLock, Lock
  <2>5. CASE UsecaseRefused(t)
    BY <2>5 DEF UsecaseRefused, Unlock
  <2>6. CASE UsecaseRead(t)
    BY <2>6 DEF UsecaseRead
  <2>7. CASE UsecaseOn(t)
    BY <2>7 DEF UsecaseOn
  <2>8. CASE UsecaseUnlock(t)
    BY <2>8 DEF UsecaseUnlock, Unlock
  <2>9. CASE SwitchVbcLock(t)
    BY <2>9 DEF SwitchVbcLock, Lock
  <2>10. CASE SwitchVbcRoute(t)
    BY <2>10 DEF SwitchVbcRoute, VbcRoute, Unlock
  <2>11. CASE PcmOpen(t)
    BY <2>11 DEF PcmOpen
  <2>12. CASE SendSync(t)
    <3>1. LET c == [device |-> dev[t], by |-> t, force |-> StartForces(t)]
          IN  c \in Commands /\ c.by = t /\ cmds' = Append(cmds, c)
      BY <2>12, StreamTypes DEF SendSync, Send, StartForces, StreamTypes, Commands
    <3>2. PICK c \in Commands : c.by = t /\ cmds' = Append(cmds, c)
      BY <3>1
    <3>3. At(t, "send") /\ pc' = [pc EXCEPT ![t] = "post"] /\ UNCHANGED <<cur, answered>>
      BY <2>12 DEF SendSync, Send
    <3>4. \A u \in Streams : Listed(u)' <=> Listed(u) \/ u = t
      BY <3>2, ListGrows
    <3>5. answered[t] = 0 /\ cur.by # t /\ ~Listed(t)
      BY <3>3
    <3>6. ASSUME NEW u \in Streams PROVE Owned(u)'
      <4>1. \A i, j \in DOMAIN cmds' : cmds'[i].by = u /\ cmds'[j].by = u => i = j
        BY <3>2, <3>5, AppendAt
      <4> QED BY <3>3, <3>4, <3>5, <4>1
    <3> QED BY <3>3, <3>6
  <2>13. CASE SendPost(t)
    BY <2>13 DEF SendPost
  <2>14. CASE StartDone(t)
    BY <2>14 DEF StartDone
  <2>15. CASE Release(t)
    BY <2>15 DEF Release
  <2>16. CASE UsecaseTest(t)
    BY <2>16 DEF UsecaseTest, Unlock
  <2>17. CASE UsecaseOff(t)
    BY <2>17 DEF UsecaseOff
  <2> QED BY <1>1, <2>2, <2>3, <2>4, <2>5, <2>6, <2>7, <2>8, <2>9, <2>10, <2>11,
           <2>12, <2>13, <2>14, <2>15, <2>16, <2>17 DEF StreamMoves,
           StreamContinues
<1>2. CASE SetterMoves
  BY <1>2, SetterKeeps DEF SetterFrame
<1>3. CASE EventMoves
  <2>1. EventFrame
    BY <1>3, EventKeeps
  <2> USE <2>1 DEF EventFrame
  <2>2. CASE EventTop
    BY <2>2 DEF EventTop
  <2>3. CASE EventEmpty
    BY <2>3 DEF EventEmpty
  <2>4. CASE EventPop
    BY <2>4 DEF EventPop
  <2>5. CASE EventWait
    BY <2>5 DEF EventWait
  <2>6. ASSUME NEW u \in Streams, EventApply(u) PROVE OwnInv'
    BY <2>6 DEF EventApply
  <2>7. CASE EventSend
    <3>1. PICK c \in Commands : c.by = None /\ cmds' = Append(cmds, c)
      BY <2>7, StreamTypes DEF EventSend, Send, StreamTypes
    <3>2. pc' = [pc EXCEPT ![Event] = "post"] /\ UNCHANGED <<cur, answered>>
      BY <2>7 DEF EventSend, Send
    <3>3. \A u \in Streams : Listed(u)' <=> Listed(u)
      BY <3>1, ListGrows
    <3>4. ASSUME NEW u \in Streams PROVE Owned(u)'
      <4>1. \A i, j \in DOMAIN cmds' : cmds'[i].by = u /\ cmds'[j].by = u => i = j
        BY <3>1, AppendAt
      <4> QED BY <3>2, <3>3, <4>1
    <3> QED BY <3>2, <3>4
  <2>8. CASE SendPost(Event)
    BY <2>8 DEF SendPost
  <2>9. CASE EventDrain
    BY <2>9 DEF EventDrain
  <2> QED BY <1>3, <2>2, <2>3, <2>4, <2>5, <2>6, <2>7, <2>8, <2>9 DEF EventMoves,
           EventContinues
<1>4. CASE EventAborts
  BY <1>4 DEF EventAborts
<1>5. CASE RouterMoves
  <2>1. RouterFrame
    BY <1>5, RouterKeeps
  <2> USE <2>1 DEF RouterFrame
  <2>2. CASE RouterTop
    BY <2>2 DEF RouterTop
  <2>3. CASE RouterEmpty
    BY <2>3 DEF RouterEmpty
  <2>4. CASE RouterPop
    <3>1. cmds # <<>> /\ cur' = Head(cmds) /\ cmds' = Tail(cmds) /\ cur.by = None
      BY <2>4 DEF RouterPop, TakeHead
    <3>2. pc' = [pc EXCEPT ![Router] = "select"] /\ UNCHANGED answered
      BY <2>4 DEF RouterPop
    <3>3. \A u \in Streams : Listed(u) <=> Listed(u)' \/ cur'.by = u
      <4> SUFFICES ASSUME NEW u \in Streams PROVE Listed(u) <=> Listed(u)' \/ cur'.by = u
        OBVIOUS
      <4>1. ASSUME Listed(u) PROVE Listed(u)' \/ cur'.by = u
        <5>1. PICK i \in DOMAIN cmds : cmds[i].by = u
          BY <4>1 DEF Listed
        <5>2. i = 1 \/ (i - 1 \in DOMAIN cmds' /\ cmds'[i - 1] = cmds[i])
          BY <3>1, TailAt
        <5> QED BY <3>1, <5>1, <5>2, TailAt DEF Listed
      <4>2. ASSUME Listed(u)' \/ cur'.by = u PROVE Listed(u)
        BY <3>1, <4>2, TailAt DEF Listed
      <4> QED BY <4>1, <4>2
    <3>4. ASSUME NEW u \in Streams PROVE Owned(u)'
      <4>1. \A i, j \in DOMAIN cmds' : cmds'[i].by = u /\ cmds'[j].by = u => i = j
        <5> SUFFICES ASSUME NEW i \in DOMAIN cmds', NEW j \in DOMAIN cmds',
                            cmds'[i].by = u, cmds'[j].by = u
                     PROVE  i = j
          OBVIOUS
        <5>1. i + 1 \in DOMAIN cmds /\ j + 1 \in DOMAIN cmds
          BY <3>1, TailAt
        <5>2. cmds[i + 1].by = u /\ cmds[j + 1].by = u
          BY <3>1, TailAt
        <5>3. i + 1 = j + 1
          BY <5>1, <5>2
        <5> QED BY <3>1, <5>3, TailAt
      <4>2. cur'.by = u => ~Listed(u)'
        <5> SUFFICES ASSUME cur'.by = u, NEW i \in DOMAIN cmds', cmds'[i].by = u PROVE FALSE
          BY DEF Listed
        <5>1. i + 1 \in DOMAIN cmds /\ cmds[i + 1].by = u /\ 1 \in DOMAIN cmds /\ cmds[1].by = u
          BY <3>1, TailAt
        <5>2. i + 1 = 1
          BY <5>1
        <5> QED BY <3>1, <5>2, TailAt
      <4> QED BY <3>1, <3>2, <3>3, <4>1, <4>2
    <3> QED BY <3>2, <3>4
  <2>5. CASE RouterWait
    BY <2>5 DEF RouterWait
  <2>6. CASE SelectLock
    BY <2>6 DEF SelectLock, Lock
  <2>7. CASE SelectIdle
    BY <2>7 DEF SelectIdle, Unlock
  <2>8. CASE SelectSame
    BY <2>8 DEF SelectSame, Unlock
  <2>9. CASE SelectOther
    BY <2>9 DEF SelectOther
  <2>10. CASE SelectEnable
    BY <2>10 DEF SelectEnable, VbcRoute
  <2>11. CASE SelectNoAccess
    BY <2>11 DEF SelectNoAccess, Unlock
  <2>12. CASE SelectDecide
    BY <2>12 DEF SelectDecide, Unlock
  <2>13. CASE SwitchRoute
    BY <2>13 DEF SwitchRoute
  <2>14. CASE SelectRelock
    BY <2>14 DEF SelectRelock, Unlock
  <2>15. CASE RouterDone
    <3>1. pc' = [pc EXCEPT ![Router] = "top"] /\ cur' = NoCommand /\ Answer(cur) /\ UNCHANGED cmds
      BY <2>15 DEF RouterDone
    <3>2. cur \in Commands /\ cur'.by = None
      BY <3>1 DEF NoCommand
    <3>3. CASE cur.by = None
      BY <3>1, <3>2, <3>3 DEF Answer
    <3>4. CASE cur.by # None
      <4>1. cur.by \in Streams /\ answered' = [answered EXCEPT ![cur.by] = answered[cur.by] + 1]
        BY <3>1, <3>2, <3>4 DEF Answer
      <4>2. answered[cur.by] = 0 /\ InWait(cur.by) /\ ~Listed(cur.by)
        BY <4>1
      <4>3. ASSUME NEW u \in Streams PROVE Owned(u)'
        <5>1. CASE u = cur.by
          BY <3>1, <3>2, <4>1, <4>2, <5>1
        <5>2. CASE u # cur.by
          BY <3>1, <3>2, <4>1, <5>2
        <5> QED BY <5>1, <5>2
      <4> QED BY <3>1, <3>2, <4>3
    <3> QED BY <3>3, <3>4
  <2>16. CASE RouterDrain
    <3>1. \A u \in Streams : ~InWait(u) /\ ~Listed(u) /\ cur.by # u /\ answered[u] = 0
      <4>1. \A u \in Streams : ~InWait(u)
        BY <2>16 DEF RouterDrain
      <4> QED BY <4>1
    <3>2. cmds # <<>> /\ cmds' = Tail(cmds) /\ Answer(Head(cmds)) /\ UNCHANGED <<cur, pc>>
      BY <2>16 DEF RouterDrain
    <3>3. Head(cmds).by = None /\ UNCHANGED answered
      BY <3>1, <3>2, TailAt DEF Answer
    <3>4. \A u \in Streams, i \in DOMAIN cmds' : cmds'[i].by # u
      <4> SUFFICES ASSUME NEW u \in Streams, NEW i \in DOMAIN cmds' PROVE cmds'[i].by # u
        OBVIOUS
      <4>1. i + 1 \in DOMAIN cmds /\ cmds'[i] = cmds[i + 1]
        BY <3>2, TailAt
      <4> QED BY <3>1, <4>1
    <3> QED BY <3>1, <3>2, <3>3, <3>4
  <2>17. CASE RouterExit
    BY <2>17 DEF RouterExit
  <2> QED BY <1>5, <2>2, <2>3, <2>4, <2>5, <2>6, <2>7, <2>8, <2>9, <2>10, <2>11,
           <2>12, <2>13, <2>14, <2>15, <2>16, <2>17 DEF RouterMoves,
           RouterContinues
<1>6. CASE CloserMoves
  BY <1>6, CloserKeeps DEF CloserFrame
<1>7. CASE UNCHANGED vars
  BY <1>7
<1> QED BY <1>1, <1>2, <1>3, <1>4, <1>5, <1>6, <1>7, Moves

(* For any streams, devices and bounds: a stream that waits for its device   *)
(* has exactly one command on its way, and no command is kept of a stream    *)
(* that was answered, and may have freed it.                                 *)
THEOREM CommandsAreOwned == Spec => []CommandsOwned
<1>1. Init => PhaseInv /\ OwnInv
  BY ThreadFacts DEF Init, PhaseInv, OwnInv, Owned, Waiting, InWait, Listed, NoCommand, At
<1>2. TypeOK /\ PhaseInv /\ [Next]_vars => PhaseInv'
  BY TypeParts, PhaseStep
<1>3. TypeOK /\ PhaseInv /\ OwnInv /\ [Next]_vars => OwnInv'
  BY TypeParts, OwnStep
<1>4. OwnInv => CommandsOwned
  BY DEF OwnInv, Owned, Listed, CommandsOwned
<1> QED BY <1>1, <1>2, <1>3, <1>4, TypeCorrect, PTL DEF Spec

-----------------------------------------------------------------------------
(* One stream s, every device with a route, and a DSP that wakes.            *)
Alone(s) == Streams = {s} /\ Routable = Devices /\ ~AccessFails
Using == {"onUnlock", "vbcLock", "vbcApply", "pcm", "send", "post", "wait", "off",
          "offTest", "offWrite"}

\* The usecase is on exactly while the stream needs it: nobody else writes it.
UseInv(s) ==
    /\ Playing(s) => pc[s] \in {"idle", "release"}
    /\ usecase = IF pc[s] \in Using \/ Playing(s) THEN {s} ELSE {}
    /\ pc[s] \in {"onWrite", "offWrite"} => seen[s] = usecase

\* The event thread hands over the device it has just given to the stream.
DevInv(s) ==
    At(Event, "apply") /\ todo = {} /\ events = <<>> /\ ~At(Setter, "send") /\ At(Closer, "idle")
      => dev[s] = want[Event]

\* The last command on its way, or else the device selected, is the stream's.
Calm == events = <<>> /\ ~At(Setter, "send") /\ ~At(Event, "apply")
LastWord ==
    IF cmds # <<>> THEN cmds[Len(cmds)].device
    ELSE IF pc[Router] \in Working THEN cur.device ELSE ctlDev
TailInv(s) == Calm /\ (InWait(s) \/ Playing(s)) => LastWord = dev[s]

LEMMA TailLast ==
  ASSUME NEW S, NEW q \in Seq(S), q # <<>>
  PROVE  /\ Tail(q) = <<>> => Head(q) = q[Len(q)]
         /\ Tail(q) # <<>> => Tail(q)[Len(Tail(q))] = q[Len(q)]
<1>1. CASE Tail(q) = <<>>
  <2>1. Len(q) - 1 = 0
    BY <1>1, TailAt
  <2> QED BY <1>1, <2>1, TailAt
<1>2. CASE Tail(q) # <<>>
  <2>1. Len(Tail(q)) \in DOMAIN Tail(q) /\ Len(Tail(q)) + 1 = Len(q)
    <3>1. Tail(q) \in Seq(S) /\ Len(Tail(q)) \in Nat \ {0}
      BY <1>2, TailAt
    <3>2. Len(q) \in Nat /\ DOMAIN Tail(q) = 1 .. Len(q) - 1 /\ Len(Tail(q)) = Len(q) - 1
      BY TailAt
    <3> QED BY <3>1, <3>2
  <2> QED BY <1>2, <2>1, TailAt
<1> QED BY <1>1, <1>2

\* What is on the codec while the stream is heard, and while its own command
\* is at work.
Heard(s) == Playing(s) \/ answered[s] # 0
RouteInv(s) ==
    /\ cur.by = s => cur.force
    /\ \A i \in DOMAIN cmds : cmds[i].by = s => cmds[i].force
    /\ Heard(s) =>
         /\ pc[Router] \in {"top", "look", "wait", "select", "test", "enable", "done"}
              => vbc = ctlDev /\ route = ctlDev /\ ctlDev # None
         /\ pc[Router] \in {"decide", "switch"} => route # None
    /\ Heard(s) \/ cur.by = s =>
         /\ pc[Router] \in {"decide", "switch"} => vbc = cur.device
         /\ At(Router, "relock") => vbc = cur.device /\ route = cur.device
         /\ At(Router, "done") => vbc = cur.device /\ route = cur.device /\ ctlDev = cur.device

\* Only the stream switches its usecase on and off.
LEMMA UseStep ==
  ASSUME NEW s, Streams = {s}, StreamTypes, ControlTypes, PlaceTypes, PhaseInv,
         UseInv(s), [Next]_vars
  PROVE  UseInv(s)'
<1> USE ThreadFacts DEF StreamTypes, ControlTypes, PlaceTypes, PhaseInv, UseInv,
        Using, Playing, StaysBut, Goto, At, vars, streamVars, evVars,
        rtVars, mixVars, ctlVars, locals
<1>1. ASSUME NEW t \in Streams, StreamMoves(t) PROVE UseInv(s)'
  <2>1. StreamFrame(t)
    BY <1>1, StreamKeeps
  <2> USE <2>1 DEF StreamFrame
  <2>2. CASE StartEnter(t)
    BY <2>2 DEF StartEnter
  <2>3. CASE Standby(t)
    BY <2>3 DEF Standby
  <2>4. CASE UsecaseLock(t)
    BY <2>4 DEF UsecaseLock, Lock
  <2>5. CASE UsecaseRefused(t)
    BY <2>5 DEF UsecaseRefused, Unlock
  <2>6. CASE UsecaseRead(t)
    BY <2>6 DEF UsecaseRead
  <2>7. CASE UsecaseOn(t)
    BY <2>7 DEF UsecaseOn
  <2>8. CASE UsecaseUnlock(t)
    BY <2>8 DEF UsecaseUnlock, Unlock
  <2>9. CASE SwitchVbcLock(t)
    BY <2>9 DEF SwitchVbcLock, Lock
  <2>10. CASE SwitchVbcRoute(t)
    BY <2>10 DEF SwitchVbcRoute, VbcRoute, Unlock
  <2>11. CASE PcmOpen(t)
    BY <2>11 DEF PcmOpen
  <2>12. CASE SendSync(t)
    BY <2>12 DEF SendSync, Send, StartForces
  <2>13. CASE SendPost(t)
    BY <2>13 DEF SendPost
  <2>14. CASE StartDone(t)
    BY <2>14 DEF StartDone
  <2>15. CASE Release(t)
    BY <2>15 DEF Release
  <2>16. CASE UsecaseTest(t)
    BY <2>16 DEF UsecaseTest, Unlock
  <2>17. CASE UsecaseOff(t)
    BY <2>17 DEF UsecaseOff
  <2> QED BY <1>1, <2>2, <2>3, <2>4, <2>5, <2>6, <2>7, <2>8, <2>9, <2>10, <2>11,
           <2>12, <2>13, <2>14, <2>15, <2>16, <2>17 DEF StreamMoves,
           StreamContinues
<1>2. CASE SetterMoves
  BY <1>2, SetterKeeps DEF SetterFrame
<1>3. CASE EventMoves
  BY <1>3, EventKeeps DEF EventFrame
<1>4. CASE EventAborts
  BY <1>4 DEF EventAborts
<1>5. CASE RouterMoves
  BY <1>5, RouterKeeps DEF RouterFrame
<1>6. CASE CloserMoves
  BY <1>6, CloserKeeps DEF CloserFrame
<1>7. CASE UNCHANGED vars
  BY <1>7
<1> QED BY <1>1, <1>2, <1>3, <1>4, <1>5, <1>6, <1>7, Moves

\* A device asked for meanwhile is in the list, or about to be.
LEMMA DevStep ==
  ASSUME NEW s, Alone(s), StreamTypes, ListTypes, PlaceTypes, PhaseInv,
         DevInv(s), [Next]_vars
  PROVE  DevInv(s)'
<1> USE ThreadFacts DEF Alone, StreamTypes, ListTypes, PlaceTypes, PhaseInv,
        DevInv, Playing, StaysBut, Goto, At, vars, streamVars, evVars, rtVars,
        mixVars, ctlVars, locals
<1>1. ASSUME NEW t \in Streams, StreamMoves(t) PROVE DevInv(s)'
  BY <1>1, StreamKeeps DEF StreamFrame
<1>2. CASE SetterMoves
  <2>1. SetterFrame
    BY <1>2, SetterKeeps
  <2> USE <2>1 DEF SetterFrame
  <2>2. CASE Request
    BY <2>2 DEF Request
  <2>3. CASE CreateEvent
    <3>1. events' = Append(events, want[Setter]) /\ want[Setter] \in Devices
      BY <2>3 DEF CreateEvent
    <3>2. events' # <<>>
      BY <3>1, AppendAt
    <3> QED BY <3>2
  <2>4. CASE PostEvent
    BY <2>4 DEF PostEvent
  <2> QED BY <1>2, <2>2, <2>3, <2>4 DEF SetterMoves, SetterContinues
<1>3. CASE EventMoves
  <2>1. EventFrame
    BY <1>3, EventKeeps
  <2> USE <2>1 DEF EventFrame
  <2>2. CASE EventTop
    BY <2>2 DEF EventTop
  <2>3. CASE EventEmpty
    BY <2>3 DEF EventEmpty
  <2>4. CASE EventPop
    BY <2>4 DEF EventPop
  <2>5. CASE EventWait
    BY <2>5 DEF EventWait
  <2>6. ASSUME NEW u \in Streams, EventApply(u) PROVE DevInv(s)'
    BY <2>6 DEF EventApply
  <2>7. CASE EventSend
    BY <2>7 DEF EventSend, Send
  <2>8. CASE SendPost(Event)
    BY <2>8 DEF SendPost
  <2>9. CASE EventDrain
    BY <2>9 DEF EventDrain
  <2> QED BY <1>3, <2>2, <2>3, <2>4, <2>5, <2>6, <2>7, <2>8, <2>9 DEF EventMoves,
           EventContinues
<1>4. CASE EventAborts
  BY <1>4 DEF EventAborts
<1>5. CASE RouterMoves
  BY <1>5, RouterKeeps DEF RouterFrame
<1>6. CASE CloserMoves
  BY <1>6, CloserKeeps DEF CloserFrame
<1>7. CASE UNCHANGED vars
  BY <1>7
<1> QED BY <1>1, <1>2, <1>3, <1>4, <1>5, <1>6, <1>7, Moves

\* A command for the stream's device goes behind all others.
LEMMA TailStep ==
  ASSUME NEW s, Alone(s), StreamTypes, ListTypes, CountTypes, PlaceTypes,
         PhaseInv, OwnInv, DevInv(s), RouteInv(s), TailInv(s), [Next]_vars
  PROVE  TailInv(s)'
<1> USE ThreadFacts, CommandFacts DEF Alone, StreamTypes, ListTypes,
        CountTypes, PlaceTypes, PhaseInv, DevInv, TailInv, Calm, LastWord,
        InWait, Working, Playing, StaysBut, Goto, At, vars, streamVars, evVars,
        rtVars, mixVars, ctlVars, locals
<1>1. ASSUME NEW t \in Streams, StreamMoves(t) PROVE TailInv(s)'
  <2>1. StreamFrame(t)
    BY <1>1, StreamKeeps
  <2> USE <2>1 DEF StreamFrame
  <2>2. CASE StartEnter(t)
    BY <2>2 DEF StartEnter
  <2>3. CASE Standby(t)
    BY <2>3 DEF Standby
  <2>4. CASE UsecaseLock(t)
    BY <2>4 DEF UsecaseLock, Lock
  <2>5. CASE UsecaseRefused(t)
    BY <2>5 DEF UsecaseRefused, Unlock
  <2>6. CASE UsecaseRead(t)
    BY <2>6 DEF UsecaseRead
  <2>7. CASE UsecaseOn(t)
    BY <2>7 DEF UsecaseOn
  <2>8. CASE UsecaseUnlock(t)
    BY <2>8 DEF UsecaseUnlock, Unlock
  <2>9. CASE SwitchVbcLock(t)
    BY <2>9 DEF SwitchVbcLock, Lock
  <2>10. CASE SwitchVbcRoute(t)
    BY <2>10 DEF SwitchVbcRoute, VbcRoute, Unlock
  <2>11. CASE PcmOpen(t)
    BY <2>11 DEF PcmOpen
  <2>12. CASE SendSync(t)
    BY <2>12 DEF SendSync, Send, StartForces
  <2>13. CASE SendPost(t)
    BY <2>13 DEF SendPost
  <2>14. CASE StartDone(t)
    BY <2>14 DEF StartDone
  <2>15. CASE Release(t)
    BY <2>15 DEF Release
  <2>16. CASE UsecaseTest(t)
    BY <2>16 DEF UsecaseTest, Unlock
  <2>17. CASE UsecaseOff(t)
    BY <2>17 DEF UsecaseOff
  <2> QED BY <1>1, <2>2, <2>3, <2>4, <2>5, <2>6, <2>7, <2>8, <2>9, <2>10, <2>11,
           <2>12, <2>13, <2>14, <2>15, <2>16, <2>17 DEF StreamMoves,
           StreamContinues
<1>2. CASE SetterMoves
  <2>1. SetterFrame
    BY <1>2, SetterKeeps
  <2> USE <2>1 DEF SetterFrame
  <2>2. CASE Request
    BY <2>2 DEF Request
  <2>3. CASE CreateEvent
    <3>1. events' = Append(events, want[Setter]) /\ want[Setter] \in Devices
      BY <2>3 DEF CreateEvent
    <3>2. events' # <<>>
      BY <3>1, AppendAt
    <3> QED BY <3>2
  <2>4. CASE PostEvent
    BY <2>4 DEF PostEvent
  <2> QED BY <1>2, <2>2, <2>3, <2>4 DEF SetterMoves, SetterContinues
<1>3. CASE EventMoves
  <2>1. EventFrame
    BY <1>3, EventKeeps
  <2> USE <2>1 DEF EventFrame
  <2>2. CASE EventTop
    BY <2>2 DEF EventTop
  <2>3. CASE EventEmpty
    BY <2>3 DEF EventEmpty
  <2>4. CASE EventPop
    BY <2>4 DEF EventPop
  <2>5. CASE EventWait
    BY <2>5 DEF EventWait
  <2>6. ASSUME NEW u \in Streams, EventApply(u) PROVE TailInv(s)'
    BY <2>6 DEF EventApply
  <2>7. CASE EventSend
    <3>1. PICK c \in Commands : c.device = want[Event] /\ cmds' = Append(cmds, c)
      BY <2>7 DEF EventSend, Send
    <3>2. cmds' # <<>> /\ cmds'[Len(cmds')] = c
      BY <3>1, AppendAt
    <3>3. At(Event, "apply") /\ todo = {} /\ UNCHANGED <<events, dev>>
      BY <2>7 DEF EventSend
    <3> QED BY <3>1, <3>2, <3>3
  <2>8. CASE SendPost(Event)
    BY <2>8 DEF SendPost
  <2>9. CASE EventDrain
    BY <2>9 DEF EventDrain
  <2> QED BY <1>3, <2>2, <2>3, <2>4, <2>5, <2>6, <2>7, <2>8, <2>9 DEF EventMoves,
           EventContinues
<1>4. CASE EventAborts
  BY <1>4 DEF EventAborts
<1>5. CASE RouterMoves
  <2>1. RouterFrame
    BY <1>5, RouterKeeps
  <2> USE <2>1 DEF RouterFrame
  <2>2. CASE RouterTop
    BY <2>2 DEF RouterTop
  <2>3. CASE RouterEmpty
    BY <2>3 DEF RouterEmpty
  <2>4. CASE RouterPop
    <3>1. cmds # <<>> /\ cur' = Head(cmds) /\ cmds' = Tail(cmds) /\ pc'[Router] = "select"
      BY <2>4 DEF RouterPop, TakeHead
    <3>2. LastWord' = LastWord
      BY <3>1, TailLast
    <3>3. UNCHANGED <<dev, events>>
      BY <2>4 DEF RouterPop
    <3> QED BY <3>2, <3>3 DEF RouterPop
  <2>5. CASE RouterWait
    BY <2>5 DEF RouterWait
  <2>6. CASE SelectLock
    BY <2>6 DEF SelectLock, Lock
  <2>7. CASE SelectIdle
    BY <2>7 DEF SelectIdle, Unlock
  <2>8. CASE SelectSame
    BY <2>8 DEF SelectSame, Unlock
  <2>9. CASE SelectOther
    BY <2>9 DEF SelectOther
  <2>10. CASE SelectEnable
    BY <2>10 DEF SelectEnable, VbcRoute
  <2>11. CASE SelectNoAccess
    BY <2>11 DEF SelectNoAccess, Unlock
  <2>12. CASE SelectDecide
    BY <2>12 DEF SelectDecide, Unlock
  <2>13. CASE SwitchRoute
    BY <2>13 DEF SwitchRoute
  <2>14. CASE SelectRelock
    BY <2>14 DEF SelectRelock, Unlock
  <2>15. CASE RouterDone
    <3>1. At(Router, "done") /\ pc'[Router] = "top" /\ UNCHANGED <<cmds, ctlDev, standby>>
      BY <2>15 DEF RouterDone
    <3> SUFFICES ASSUME Calm', (InWait(s) \/ Playing(s))' PROVE LastWord' = dev[s]'
      BY DEF TailInv
    <3>2. CASE cmds # <<>>
      BY <3>1, <3>2
    <3>3. CASE cmds = <<>>
      <4>1. ~Listed(s)
        BY <3>3 DEF Listed
      <4>2. Heard(s) \/ cur.by = s
        BY <3>1, <4>1 DEF OwnInv, Owned, Waiting, Heard
      <4>3. ctlDev = cur.device
        BY <3>1, <4>2 DEF RouteInv
      <4> QED BY <3>1, <3>3, <4>3
    <3> QED BY <3>2, <3>3
  <2>16. CASE RouterDrain
    BY <2>16 DEF RouterDrain, Answer
  <2>17. CASE RouterExit
    BY <2>17 DEF RouterExit
  <2> QED BY <1>5, <2>2, <2>3, <2>4, <2>5, <2>6, <2>7, <2>8, <2>9, <2>10, <2>11,
           <2>12, <2>13, <2>14, <2>15, <2>16, <2>17 DEF RouterMoves,
           RouterContinues
<1>6. CASE CloserMoves
  BY <1>6, CloserKeeps DEF CloserFrame
<1>7. CASE UNCHANGED vars
  BY <1>7
<1> QED BY <1>1, <1>2, <1>3, <1>4, <1>5, <1>6, <1>7, Moves

\* A command is carried out from end to end while the usecase is on.
LEMMA RouteStep ==
  ASSUME NEW s, Alone(s), StreamTypes, ControlTypes, ListTypes, CountTypes,
         PlaceTypes, PhaseInv, OwnInv, UseInv(s), RouteInv(s), [Next]_vars
  PROVE  RouteInv(s)'
<1> USE ThreadFacts, CommandFacts, DevicesAssumption DEF Alone, StreamTypes,
        ControlTypes, ListTypes, CountTypes, PlaceTypes, PhaseInv, OwnInv,
        Owned, Waiting, InWait, UseInv, Using, RouteInv, Heard, Working,
        Playing, StaysBut, Goto, At, vars, streamVars, evVars, rtVars, mixVars,
        ctlVars, locals
<1>1. ASSUME NEW t \in Streams, StreamMoves(t) PROVE RouteInv(s)'
  <2>1. StreamFrame(t)
    BY <1>1, StreamKeeps
  <2> USE <2>1 DEF StreamFrame
  <2>2. CASE StartEnter(t)
    BY <2>2 DEF StartEnter
  <2>3. CASE Standby(t)
    BY <2>3 DEF Standby
  <2>4. CASE UsecaseLock(t)
    BY <2>4 DEF UsecaseLock, Lock
  <2>5. CASE UsecaseRefused(t)
    BY <2>5 DEF UsecaseRefused, Unlock
  <2>6. CASE UsecaseRead(t)
    BY <2>6 DEF UsecaseRead
  <2>7. CASE UsecaseOn(t)
    BY <2>7 DEF UsecaseOn
  <2>8. CASE UsecaseUnlock(t)
    BY <2>8 DEF UsecaseUnlock, Unlock
  <2>9. CASE SwitchVbcLock(t)
    BY <2>9 DEF SwitchVbcLock, Lock
  <2>10. CASE SwitchVbcRoute(t)
    BY <2>10 DEF SwitchVbcRoute, VbcRoute, Unlock
  <2>11. CASE PcmOpen(t)
    BY <2>11 DEF PcmOpen
  <2>12. CASE SendSync(t)
    BY <2>12 DEF SendSync, Send, StartForces
  <2>13. CASE SendPost(t)
    BY <2>13 DEF SendPost
  <2>14. CASE StartDone(t)
    BY <2>14 DEF StartDone
  <2>15. CASE Release(t)
    BY <2>15 DEF Release
  <2>16. CASE UsecaseTest(t)
    BY <2>16 DEF UsecaseTest, Unlock
  <2>17. CASE UsecaseOff(t)
    BY <2>17 DEF UsecaseOff
  <2> QED BY <1>1, <2>2, <2>3, <2>4, <2>5, <2>6, <2>7, <2>8, <2>9, <2>10, <2>11,
           <2>12, <2>13, <2>14, <2>15, <2>16, <2>17 DEF StreamMoves,
           StreamContinues
<1>2. CASE SetterMoves
  BY <1>2, SetterKeeps DEF SetterFrame
<1>3. CASE EventMoves
  <2>1. EventFrame
    BY <1>3, EventKeeps
  <2> USE <2>1 DEF EventFrame
  <2>2. CASE EventTop
    BY <2>2 DEF EventTop
  <2>3. CASE EventEmpty
    BY <2>3 DEF EventEmpty
  <2>4. CASE EventPop
    BY <2>4 DEF EventPop
  <2>5. CASE EventWait
    BY <2>5 DEF EventWait
  <2>6. ASSUME NEW u \in Streams, EventApply(u) PROVE RouteInv(s)'
    BY <2>6 DEF EventApply
  <2>7. CASE EventSend
    BY <2>7 DEF EventSend, Send
  <2>8. CASE SendPost(Event)
    BY <2>8 DEF SendPost
  <2>9. CASE EventDrain
    BY <2>9 DEF EventDrain
  <2> QED BY <1>3, <2>2, <2>3, <2>4, <2>5, <2>6, <2>7, <2>8, <2>9 DEF EventMoves,
           EventContinues
<1>4. CASE EventAborts
  BY <1>4 DEF EventAborts
<1>5. CASE RouterMoves
  <2>1. RouterFrame
    BY <1>5, RouterKeeps
  <2> USE <2>1 DEF RouterFrame
  <2>2. CASE RouterTop
    BY <2>2 DEF RouterTop
  <2>3. CASE RouterEmpty
    BY <2>3 DEF RouterEmpty
  <2>4. CASE RouterPop
    BY <2>4 DEF RouterPop, TakeHead
  <2>5. CASE RouterWait
    BY <2>5 DEF RouterWait
  <2>6. CASE SelectLock
    BY <2>6 DEF SelectLock, Lock
  <2>7. CASE SelectIdle
    BY <2>7 DEF SelectIdle, Unlock
  <2>8. CASE SelectSame
    BY <2>8 DEF SelectSame, Unlock
  <2>9. CASE SelectOther
    BY <2>9 DEF SelectOther
  <2>10. CASE SelectEnable
    BY <2>10 DEF SelectEnable, VbcRoute
  <2>11. CASE SelectNoAccess
    BY <2>11 DEF SelectNoAccess, Unlock
  <2>12. CASE SelectDecide
    BY <2>12 DEF SelectDecide, Unlock
  <2>13. CASE SwitchRoute
    BY <2>13 DEF SwitchRoute
  <2>14. CASE SelectRelock
    BY <2>14 DEF SelectRelock, Unlock
  <2>15. CASE RouterDone
    <3>1. At(Router, "done") /\ pc'[Router] = "top" /\ cur' = NoCommand /\ Answer(cur)
          /\ UNCHANGED <<cmds, standby, mixVars, ctlDev>>
      BY <2>15 DEF RouterDone
    <3>2. Heard(s)' => Heard(s) \/ cur.by = s
      BY <3>1 DEF Answer
    <3>3. cur'.by # s /\ cur.device # None
      BY <3>1 DEF NoCommand
    <3> QED BY <3>1, <3>2, <3>3
  <2>16. CASE RouterDrain
    BY <2>16 DEF RouterDrain, Answer
  <2>17. CASE RouterExit
    BY <2>17 DEF RouterExit
  <2> QED BY <1>5, <2>2, <2>3, <2>4, <2>5, <2>6, <2>7, <2>8, <2>9, <2>10, <2>11,
           <2>12, <2>13, <2>14, <2>15, <2>16, <2>17 DEF RouterMoves,
           RouterContinues
<1>6. CASE CloserMoves
  BY <1>6, CloserKeeps DEF CloserFrame
<1>7. CASE UNCHANGED vars
  BY <1>7
<1> QED BY <1>1, <1>2, <1>3, <1>4, <1>5, <1>6, <1>7, Moves

(* What the routing of one stream rests on.                                  *)
RoutingInv(s) == PhaseInv /\ OwnInv /\ UseInv(s) /\ DevInv(s) /\ TailInv(s) /\ RouteInv(s)

LEMMA OneStreamRouting ==
  ASSUME NEW s, Alone(s)
  PROVE  Spec => [](TypeOK /\ RoutingInv(s))
<1>1. Init => RoutingInv(s)
  BY ThreadFacts DEF Init, RoutingInv, PhaseInv, OwnInv, Owned, Waiting, InWait, Listed,
     NoCommand, At, Alone, UseInv, Using, Playing, DevInv, TailInv, RouteInv, Heard
<1>2. TypeOK /\ RoutingInv(s) /\ [Next]_vars => RoutingInv(s)'
  <2> SUFFICES ASSUME TypeOK, RoutingInv(s), [Next]_vars PROVE RoutingInv(s)'
    OBVIOUS
  <2> USE TypeParts DEF RoutingInv
  <2>1. PhaseInv'
    BY PhaseStep
  <2>2. OwnInv'
    BY OwnStep
  <2>3. UseInv(s)'
    BY UseStep DEF Alone
  <2>4. DevInv(s)'
    BY DevStep
  <2>5. TailInv(s)'
    BY TailStep
  <2>6. RouteInv(s)'
    BY RouteStep
  <2> QED BY <2>1, <2>2, <2>3, <2>4, <2>5, <2>6
<1> QED BY <1>1, <1>2, TypeCorrect, PTL DEF Spec

(* One stream, all devices routable, a DSP that wakes; any number of devices *)
(* and requests: a stream that plays has a route, at every moment.           *)
THEOREM PlayingStreamIsHeard ==
  ASSUME NEW s, Streams = {s}, Routable = Devices, AccessFails = FALSE
  PROVE  Spec => []PlayingIsHeard
<1>1. Alone(s)
  BY DEF Alone
<1>2. TypeOK /\ RoutingInv(s) => PlayingIsHeard
  <2> SUFFICES ASSUME TypeOK, RoutingInv(s), Playing(s) PROVE route # None
    BY DEF PlayingIsHeard
  <2>1. PhaseInv /\ RouteInv(s) /\ Heard(s) /\ cur.device # None
    BY CommandFacts, DevicesAssumption DEF RoutingInv, Heard, TypeOK
  <2>2. At(Closer, "idle")
    BY <2>1 DEF PhaseInv
  <2>3. pc[Router] \in Working \cup {"top", "look", "wait"}
    BY <2>1, <2>2, ThreadFacts DEF PhaseInv, At
  <2> QED BY <2>1, <2>3 DEF RouteInv, Working, At
<1> QED BY <1>1, <1>2, OneStreamRouting, PTL

(* Under the same conditions: whatever the order in which requests, starts   *)
(* and stops meet, once the lists are empty the stream is routed, in the     *)
(* vbc and in the codec, to the device it was given last.                    *)
THEOREM LastRequestWins ==
  ASSUME NEW s, Streams = {s}, Routable = Devices, AccessFails = FALSE
  PROVE  Spec => []RoutedAsAsked
<1>1. Alone(s)
  BY DEF Alone
<1>2. TypeOK /\ RoutingInv(s) => RoutedAsAsked
  <2> SUFFICES ASSUME TypeOK, RoutingInv(s), Settled, Playing(s)
               PROVE  route = dev[s] /\ vbc = dev[s] /\ ctlDev = dev[s]
    BY DEF RoutedAsAsked
  <2>1. pc[Router] \in {"top", "look", "wait"} /\ cmds = <<>> /\ Calm
    BY DEF Settled, Busy, Calm, At
  <2>2. LastWord = dev[s] /\ LastWord = ctlDev
    BY <2>1 DEF RoutingInv, TailInv, LastWord, Working
  <2>3. vbc = ctlDev /\ route = ctlDev
    BY <2>1 DEF RoutingInv, RouteInv, Heard
  <2> QED BY <2>2, <2>3
<1> QED BY <1>1, <1>2, OneStreamRouting, PTL

-----------------------------------------------------------------------------
(* One stream s, whatever devices have a route and whether or not the DSP    *)
(* wakes: the mixer is not switched without actl->lock.                      *)
Holding == {"onRead", "onWrite", "onUnlock", "vbcApply", "offTest", "offWrite", "offUnlock"}

\* Who holds the lock of the stream, and of the controller.
LocksInv(s) ==
    /\ pc[s] \notin {"idle", "aborted"} => outLock[s] = s
    /\ ctlLock \in {s, Router, None}
    /\ ctlLock = s <=> pc[s] \in Holding
    /\ ctlLock = Router => pc[Router] \in {"test", "enable", "decide", "aborted"}
    /\ At(Router, "test") => ctlLock = Router

\* The stream's command is for the device it stands for; no other is forced.
ForceInv(s) ==
    /\ cur.by = s => cur.device = dev[s]
    /\ cur.force => cur.by = s
    /\ \A i \in DOMAIN cmds :
         (cmds[i].by = s => cmds[i].device = dev[s]) /\ (cmds[i].force => cmds[i].by = s)

\* Only a forced command for the device in use goes on without the lock.
Bare == pc[Router] \in {"enable", "decide"} /\ ctlLock # Router
BareInv(s) ==
    /\ Bare => cur.by = s /\ cur.device = ctlDev
    /\ At(Router, "enable") => usecase # {}

\* What the mixer may be switched to while the stream starts.
Starting(s) == pc[s] \in {"onUnlock", "vbcLock", "vbcApply", "pcm", "send", "post", "wait"}
Reached ==
    IF pc[Router] \in {"decide", "switch", "relock"} /\ cur.device \in Routable
    THEN cur.device ELSE ctlDev
VbcInv(s) ==
    /\ usecase = {} => vbc = None
    /\ Starting(s) => vbc \in {None, dev[s], Reached}

\* The lock is given back by its holder; unlocked twice, while the stream waits.
LEMMA LocksStep ==
  ASSUME NEW s, Streams = {s}, StreamTypes, ControlTypes, PlaceTypes,
         PhaseInv, OwnInv, LocksInv(s), BareInv(s), [Next]_vars
  PROVE  LocksInv(s)'
<1> USE ThreadFacts, ThreadsAssumption DEF StreamTypes, ControlTypes,
        PlaceTypes, PhaseInv, OwnInv, Owned, Waiting, Playing, LocksInv,
        Holding, Bare, BareInv, Working, StaysBut, Goto, At, vars, streamVars,
        evVars, rtVars, mixVars, ctlVars, locals
<1>1. ASSUME NEW t \in Streams, StreamMoves(t) PROVE LocksInv(s)'
  <2>1. StreamFrame(t)
    BY <1>1, StreamKeeps
  <2> USE <2>1 DEF StreamFrame
  <2>2. CASE StartEnter(t)
    BY <2>2 DEF StartEnter
  <2>3. CASE Standby(t)
    BY <2>3 DEF Standby
  <2>4. CASE UsecaseLock(t)
    BY <2>4 DEF UsecaseLock, Lock
  <2>5. CASE UsecaseRefused(t)
    BY <2>5 DEF UsecaseRefused, Unlock
  <2>6. CASE UsecaseRead(t)
    BY <2>6 DEF UsecaseRead
  <2>7. CASE UsecaseOn(t)
    BY <2>7 DEF UsecaseOn
  <2>8. CASE UsecaseUnlock(t)
    BY <2>8 DEF UsecaseUnlock, Unlock
  <2>9. CASE SwitchVbcLock(t)
    BY <2>9 DEF SwitchVbcLock, Lock
  <2>10. CASE SwitchVbcRoute(t)
    BY <2>10 DEF SwitchVbcRoute, VbcRoute, Unlock
  <2>11. CASE PcmOpen(t)
    BY <2>11 DEF PcmOpen
  <2>12. CASE SendSync(t)
    BY <2>12 DEF SendSync, Send, StartForces
  <2>13. CASE SendPost(t)
    BY <2>13 DEF SendPost
  <2>14. CASE StartDone(t)
    BY <2>14 DEF StartDone
  <2>15. CASE Release(t)
    BY <2>15 DEF Release
  <2>16. CASE UsecaseTest(t)
    BY <2>16 DEF UsecaseTest, Unlock
  <2>17. CASE UsecaseOff(t)
    BY <2>17 DEF UsecaseOff
  <2> QED BY <1>1, <2>2, <2>3, <2>4, <2>5, <2>6, <2>7, <2>8, <2>9, <2>10,
           <2>11, <2>12, <2>13, <2>14, <2>15, <2>16, <2>17 DEF StreamMoves,
           StreamContinues
<1>2. CASE SetterMoves
  <2>1. SetterFrame
    BY <1>2, SetterKeeps
  <2> USE <2>1 DEF SetterFrame
  <2>2. CASE Request
    BY <2>2 DEF Request
  <2>3. CASE CreateEvent
    BY <2>3 DEF CreateEvent
  <2>4. CASE PostEvent
    BY <2>4 DEF PostEvent
  <2> QED BY <1>2, <2>2, <2>3, <2>4 DEF SetterMoves, SetterContinues
<1>3. CASE EventMoves
  <2>1. EventFrame
    BY <1>3, EventKeeps
  <2> USE <2>1 DEF EventFrame
  <2>2. CASE EventTop
    BY <2>2 DEF EventTop
  <2>3. CASE EventEmpty
    BY <2>3 DEF EventEmpty
  <2>4. CASE EventPop
    BY <2>4 DEF EventPop
  <2>5. CASE EventWait
    BY <2>5 DEF EventWait
  <2>6. ASSUME NEW u \in Streams, EventApply(u) PROVE LocksInv(s)'
    BY <2>6 DEF EventApply
  <2>7. CASE EventSend
    BY <2>7 DEF EventSend, Send
  <2>8. CASE SendPost(Event)
    BY <2>8 DEF SendPost
  <2>9. CASE EventDrain
    BY <2>9 DEF EventDrain
  <2> QED BY <1>3, <2>2, <2>3, <2>4, <2>5, <2>6, <2>7, <2>8, <2>9 DEF
           EventMoves, EventContinues
<1>4. CASE EventAborts
  BY <1>4 DEF EventAborts
<1>5. CASE RouterMoves
  <2>1. RouterFrame
    BY <1>5, RouterKeeps
  <2> USE <2>1 DEF RouterFrame
  <2>2. CASE RouterTop
    BY <2>2 DEF RouterTop
  <2>3. CASE RouterEmpty
    BY <2>3 DEF RouterEmpty
  <2>4. CASE RouterPop
    BY <2>4 DEF RouterPop, TakeHead
  <2>5. CASE RouterWait
    BY <2>5 DEF RouterWait
  <2>6. CASE SelectLock
    BY <2>6 DEF SelectLock, Lock
  <2>7. CASE SelectIdle
    BY <2>7 DEF SelectIdle, Unlock
  <2>8. CASE SelectSame
    BY <2>8 DEF SelectSame, Unlock
  <2>9. CASE SelectOther
    BY <2>9 DEF SelectOther
  <2>10. CASE SelectEnable
    BY <2>10 DEF SelectEnable, VbcRoute
  <2>11. CASE SelectNoAccess
    BY <2>11 DEF SelectNoAccess, Unlock
  <2>12. CASE SelectDecide
    BY <2>12 DEF SelectDecide, Unlock
  <2>13. CASE SwitchRoute
    BY <2>13 DEF SwitchRoute
  <2>14. CASE SelectRelock
    BY <2>14 DEF SelectRelock, Unlock
  <2>15. CASE RouterDone
    BY <2>15 DEF RouterDone, Answer
  <2>16. CASE RouterDrain
    BY <2>16 DEF RouterDrain, Answer
  <2>17. CASE RouterExit
    BY <2>17 DEF RouterExit
  <2> QED BY <1>5, <2>2, <2>3, <2>4, <2>5, <2>6, <2>7, <2>8, <2>9, <2>10,
           <2>11, <2>12, <2>13, <2>14, <2>15, <2>16, <2>17 DEF RouterMoves,
           RouterContinues
<1>6. CASE CloserMoves
  BY <1>6, CloserKeeps DEF CloserFrame
<1>7. CASE UNCHANGED vars
  BY <1>7
<1> QED BY <1>1, <1>2, <1>3, <1>4, <1>5, <1>6, <1>7, Moves

\* The device of a stream that waits is not changed under it.
LEMMA ForceStep ==
  ASSUME NEW s, Streams = {s}, StreamTypes, ControlTypes, ListTypes,
         CountTypes, PlaceTypes, PhaseInv, OwnInv, LocksInv(s), ForceInv(s),
         [Next]_vars
  PROVE  ForceInv(s)'
<1> USE ThreadFacts, CommandFacts DEF StreamTypes, ControlTypes, ListTypes,
        CountTypes, PlaceTypes, PhaseInv, OwnInv, Owned, Waiting, InWait,
        Listed, Playing, LocksInv, ForceInv, Working, StaysBut, Goto, At,
        vars, streamVars, evVars, rtVars, mixVars, ctlVars, locals
<1>1. ASSUME NEW t \in Streams, StreamMoves(t) PROVE ForceInv(s)'
  <2>1. StreamFrame(t)
    BY <1>1, StreamKeeps
  <2> USE <2>1 DEF StreamFrame
  <2>2. CASE StartEnter(t)
    BY <2>2 DEF StartEnter
  <2>3. CASE Standby(t)
    BY <2>3 DEF Standby
  <2>4. CASE UsecaseLock(t)
    BY <2>4 DEF UsecaseLock, Lock
  <2>5. CASE UsecaseRefused(t)
    BY <2>5 DEF UsecaseRefused, Unlock
  <2>6. CASE UsecaseRead(t)
    BY <2>6 DEF UsecaseRead
  <2>7. CASE UsecaseOn(t)
    BY <2>7 DEF UsecaseOn
  <2>8. CASE UsecaseUnlock(t)
    BY <2>8 DEF UsecaseUnlock, Unlock
  <2>9. CASE SwitchVbcLock(t)
    BY <2>9 DEF SwitchVbcLock, Lock
  <2>10. CASE SwitchVbcRoute(t)
    BY <2>10 DEF SwitchVbcRoute, VbcRoute, Unlock
  <2>11. CASE PcmOpen(t)
    BY <2>11 DEF PcmOpen
  <2>12. CASE SendSync(t)
    <3>1. PICK c \in Commands : /\ c.device = dev[t] /\ c.by = t /\ cmds' = Append(cmds, c)
                              /\ UNCHANGED <<dev, cur>>
      BY <2>12 DEF SendSync, Send, StartForces, Commands
    <3> QED BY <3>1, AppendAt
  <2>13. CASE SendPost(t)
    BY <2>13 DEF SendPost
  <2>14. CASE StartDone(t)
    BY <2>14 DEF StartDone
  <2>15. CASE Release(t)
    BY <2>15 DEF Release
  <2>16. CASE UsecaseTest(t)
    BY <2>16 DEF UsecaseTest, Unlock
  <2>17. CASE UsecaseOff(t)
    BY <2>17 DEF UsecaseOff
  <2> QED BY <1>1, <2>2, <2>3, <2>4, <2>5, <2>6, <2>7, <2>8, <2>9, <2>10,
           <2>11, <2>12, <2>13, <2>14, <2>15, <2>16, <2>17 DEF StreamMoves,
           StreamContinues
<1>2. CASE SetterMoves
  <2>1. SetterFrame
    BY <1>2, SetterKeeps
  <2> USE <2>1 DEF SetterFrame
  <2>2. CASE Request
    BY <2>2 DEF Request
  <2>3. CASE CreateEvent
    BY <2>3 DEF CreateEvent
  <2>4. CASE PostEvent
    BY <2>4 DEF PostEvent
  <2> QED BY <1>2, <2>2, <2>3, <2>4 DEF SetterMoves, SetterContinues
<1>3. CASE EventMoves
  <2>1. EventFrame
    BY <1>3, EventKeeps
  <2> USE <2>1 DEF EventFrame
  <2>2. CASE EventTop
    BY <2>2 DEF EventTop
  <2>3. CASE EventEmpty
    BY <2>3 DEF EventEmpty
  <2>4. CASE EventPop
    BY <2>4 DEF EventPop
  <2>5. CASE EventWait
    BY <2>5 DEF EventWait
  <2>6. ASSUME NEW u \in Streams, EventApply(u) PROVE ForceInv(s)'
    BY <2>6 DEF EventApply
  <2>7. CASE EventSend
    <3>1. PICK c \in Commands : /\ c.by = None /\ c.force = FALSE /\ cmds' = Append(cmds, c)
                              /\ UNCHANGED <<dev, cur>>
      BY <2>7 DEF EventSend, Send, Commands
    <3> QED BY <3>1, AppendAt
  <2>8. CASE SendPost(Event)
    BY <2>8 DEF SendPost
  <2>9. CASE EventDrain
    BY <2>9 DEF EventDrain
  <2> QED BY <1>3, <2>2, <2>3, <2>4, <2>5, <2>6, <2>7, <2>8, <2>9 DEF
           EventMoves, EventContinues
<1>4. CASE EventAborts
  BY <1>4 DEF EventAborts
<1>5. CASE RouterMoves
  <2>1. RouterFrame
    BY <1>5, RouterKeeps
  <2> USE <2>1 DEF RouterFrame
  <2>2. CASE RouterTop
    BY <2>2 DEF RouterTop
  <2>3. CASE RouterEmpty
    BY <2>3 DEF RouterEmpty
  <2>4. CASE RouterPop
    <3>1. cmds # <<>> /\ cur' = Head(cmds) /\ cmds' = Tail(cmds) /\ UNCHANGED dev
      BY <2>4 DEF RouterPop, TakeHead
    <3> QED BY <3>1, TailAt
  <2>5. CASE RouterWait
    BY <2>5 DEF RouterWait
  <2>6. CASE SelectLock
    BY <2>6 DEF SelectLock, Lock
  <2>7. CASE SelectIdle
    BY <2>7 DEF SelectIdle, Unlock
  <2>8. CASE SelectSame
    BY <2>8 DEF SelectSame, Unlock
  <2>9. CASE SelectOther
    BY <2>9 DEF SelectOther
  <2>10. CASE SelectEnable
    BY <2>10 DEF SelectEnable, VbcRoute
  <2>11. CASE SelectNoAccess
    BY <2>11 DEF SelectNoAccess, Unlock
  <2>12. CASE SelectDecide
    BY <2>12 DEF SelectDecide, Unlock
  <2>13. CASE SwitchRoute
    BY <2>13 DEF SwitchRoute
  <2>14. CASE SelectRelock
    BY <2>14 DEF SelectRelock, Unlock
  <2>15. CASE RouterDone
    BY <2>15 DEF RouterDone, NoCommand
  <2>16. CASE RouterDrain
    <3>1. cmds # <<>> /\ cmds' = Tail(cmds) /\ UNCHANGED <<dev, cur>>
      BY <2>16 DEF RouterDrain
    <3> QED BY <3>1, TailAt
  <2>17. CASE RouterExit
    BY <2>17 DEF RouterExit
  <2> QED BY <1>5, <2>2, <2>3, <2>4, <2>5, <2>6, <2>7, <2>8, <2>9, <2>10,
           <2>11, <2>12, <2>13, <2>14, <2>15, <2>16, <2>17 DEF RouterMoves,
           RouterContinues
<1>6. CASE CloserMoves
  BY <1>6, CloserKeeps DEF CloserFrame
<1>7. CASE UNCHANGED vars
  BY <1>7
<1> QED BY <1>1, <1>2, <1>3, <1>4, <1>5, <1>6, <1>7, Moves

\* The stream that waits keeps its usecase, so that its command is carried out.
LEMMA BareStep ==
  ASSUME NEW s, Streams = {s}, StreamTypes, ControlTypes, ListTypes,
         CountTypes, PlaceTypes, PhaseInv, OwnInv, UseInv(s), LocksInv(s),
         ForceInv(s), BareInv(s), [Next]_vars
  PROVE  BareInv(s)'
<1> USE ThreadFacts, CommandFacts DEF StreamTypes, ControlTypes, ListTypes,
        CountTypes, PlaceTypes, PhaseInv, OwnInv, Owned, Waiting, InWait,
        UseInv, Using, Playing, LocksInv, Holding, ForceInv, Bare, BareInv,
        Working, StaysBut, Goto, At, vars, streamVars, evVars, rtVars,
        mixVars, ctlVars, locals
<1>1. ASSUME NEW t \in Streams, StreamMoves(t) PROVE BareInv(s)'
  <2>1. StreamFrame(t)
    BY <1>1, StreamKeeps
  <2> USE <2>1 DEF StreamFrame
  <2>2. CASE StartEnter(t)
    BY <2>2 DEF StartEnter
  <2>3. CASE Standby(t)
    BY <2>3 DEF Standby
  <2>4. CASE UsecaseLock(t)
    BY <2>4 DEF UsecaseLock, Lock
  <2>5. CASE UsecaseRefused(t)
    BY <2>5 DEF UsecaseRefused, Unlock
  <2>6. CASE UsecaseRead(t)
    BY <2>6 DEF UsecaseRead
  <2>7. CASE UsecaseOn(t)
    BY <2>7 DEF UsecaseOn
  <2>8. CASE UsecaseUnlock(t)
    BY <2>8 DEF UsecaseUnlock, Unlock
  <2>9. CASE SwitchVbcLock(t)
    BY <2>9 DEF SwitchVbcLock, Lock
  <2>10. CASE SwitchVbcRoute(t)
    BY <2>10 DEF SwitchVbcRoute, VbcRoute, Unlock
  <2>11. CASE PcmOpen(t)
    BY <2>11 DEF PcmOpen
  <2>12. CASE SendSync(t)
    BY <2>12 DEF SendSync, Send, StartForces
  <2>13. CASE SendPost(t)
    BY <2>13 DEF SendPost
  <2>14. CASE StartDone(t)
    BY <2>14 DEF StartDone
  <2>15. CASE Release(t)
    BY <2>15 DEF Release
  <2>16. CASE UsecaseTest(t)
    BY <2>16 DEF UsecaseTest, Unlock
  <2>17. CASE UsecaseOff(t)
    BY <2>17 DEF UsecaseOff
  <2> QED BY <1>1, <2>2, <2>3, <2>4, <2>5, <2>6, <2>7, <2>8, <2>9, <2>10,
           <2>11, <2>12, <2>13, <2>14, <2>15, <2>16, <2>17 DEF StreamMoves,
           StreamContinues
<1>2. CASE SetterMoves
  <2>1. SetterFrame
    BY <1>2, SetterKeeps
  <2> USE <2>1 DEF SetterFrame
  <2>2. CASE Request
    BY <2>2 DEF Request
  <2>3. CASE CreateEvent
    BY <2>3 DEF CreateEvent
  <2>4. CASE PostEvent
    BY <2>4 DEF PostEvent
  <2> QED BY <1>2, <2>2, <2>3, <2>4 DEF SetterMoves, SetterContinues
<1>3. CASE EventMoves
  <2>1. EventFrame
    BY <1>3, EventKeeps
  <2> USE <2>1 DEF EventFrame
  <2>2. CASE EventTop
    BY <2>2 DEF EventTop
  <2>3. CASE EventEmpty
    BY <2>3 DEF EventEmpty
  <2>4. CASE EventPop
    BY <2>4 DEF EventPop
  <2>5. CASE EventWait
    BY <2>5 DEF EventWait
  <2>6. ASSUME NEW u \in Streams, EventApply(u) PROVE BareInv(s)'
    BY <2>6 DEF EventApply
  <2>7. CASE EventSend
    BY <2>7 DEF EventSend, Send
  <2>8. CASE SendPost(Event)
    BY <2>8 DEF SendPost
  <2>9. CASE EventDrain
    BY <2>9 DEF EventDrain
  <2> QED BY <1>3, <2>2, <2>3, <2>4, <2>5, <2>6, <2>7, <2>8, <2>9 DEF
           EventMoves, EventContinues
<1>4. CASE EventAborts
  BY <1>4 DEF EventAborts
<1>5. CASE RouterMoves
  <2>1. RouterFrame
    BY <1>5, RouterKeeps
  <2> USE <2>1 DEF RouterFrame
  <2>2. CASE RouterTop
    BY <2>2 DEF RouterTop
  <2>3. CASE RouterEmpty
    BY <2>3 DEF RouterEmpty
  <2>4. CASE RouterPop
    BY <2>4 DEF RouterPop, TakeHead
  <2>5. CASE RouterWait
    BY <2>5 DEF RouterWait
  <2>6. CASE SelectLock
    BY <2>6 DEF SelectLock, Lock
  <2>7. CASE SelectIdle
    BY <2>7 DEF SelectIdle, Unlock
  <2>8. CASE SelectSame
    BY <2>8 DEF SelectSame, Unlock
  <2>9. CASE SelectOther
    BY <2>9 DEF SelectOther
  <2>10. CASE SelectEnable
    BY <2>10 DEF SelectEnable, VbcRoute
  <2>11. CASE SelectNoAccess
    BY <2>11 DEF SelectNoAccess, Unlock
  <2>12. CASE SelectDecide
    BY <2>12 DEF SelectDecide, Unlock
  <2>13. CASE SwitchRoute
    BY <2>13 DEF SwitchRoute
  <2>14. CASE SelectRelock
    BY <2>14 DEF SelectRelock, Unlock
  <2>15. CASE RouterDone
    BY <2>15 DEF RouterDone, Answer
  <2>16. CASE RouterDrain
    BY <2>16 DEF RouterDrain, Answer
  <2>17. CASE RouterExit
    BY <2>17 DEF RouterExit
  <2> QED BY <1>5, <2>2, <2>3, <2>4, <2>5, <2>6, <2>7, <2>8, <2>9, <2>10,
           <2>11, <2>12, <2>13, <2>14, <2>15, <2>16, <2>17 DEF RouterMoves,
           RouterContinues
<1>6. CASE CloserMoves
  BY <1>6, CloserKeeps DEF CloserFrame
<1>7. CASE UNCHANGED vars
  BY <1>7
<1> QED BY <1>1, <1>2, <1>3, <1>4, <1>5, <1>6, <1>7, Moves

\* While a stream starts, the mixer shows its device or the one selected.
LEMMA VbcStep ==
  ASSUME NEW s, Streams = {s}, StreamTypes, ControlTypes, ListTypes,
         CountTypes, PlaceTypes, PhaseInv, OwnInv, UseInv(s), LocksInv(s),
         ForceInv(s), BareInv(s), VbcInv(s), [Next]_vars
  PROVE  VbcInv(s)'
<1> USE ThreadFacts, CommandFacts, DevicesAssumption DEF StreamTypes,
        ControlTypes, ListTypes, CountTypes, PlaceTypes, PhaseInv, OwnInv,
        Owned, Waiting, InWait, UseInv, Using, Playing, LocksInv, Holding,
        BareInv, Bare, VbcInv, Starting, Reached, Working, StaysBut, Goto, At,
        vars, streamVars, evVars, rtVars, mixVars, ctlVars, locals
<1>1. ASSUME NEW t \in Streams, StreamMoves(t) PROVE VbcInv(s)'
  <2>1. StreamFrame(t)
    BY <1>1, StreamKeeps
  <2> USE <2>1 DEF StreamFrame
  <2>2. CASE StartEnter(t)
    BY <2>2 DEF StartEnter
  <2>3. CASE Standby(t)
    BY <2>3 DEF Standby
  <2>4. CASE UsecaseLock(t)
    BY <2>4 DEF UsecaseLock, Lock
  <2>5. CASE UsecaseRefused(t)
    BY <2>5 DEF UsecaseRefused, Unlock
  <2>6. CASE UsecaseRead(t)
    BY <2>6 DEF UsecaseRead
  <2>7. CASE UsecaseOn(t)
    BY <2>7 DEF UsecaseOn
  <2>8. CASE UsecaseUnlock(t)
    BY <2>8 DEF UsecaseUnlock, Unlock
  <2>9. CASE SwitchVbcLock(t)
    BY <2>9 DEF SwitchVbcLock, Lock
  <2>10. CASE SwitchVbcRoute(t)
    BY <2>10 DEF SwitchVbcRoute, VbcRoute, Unlock
  <2>11. CASE PcmOpen(t)
    BY <2>11 DEF PcmOpen
  <2>12. CASE SendSync(t)
    BY <2>12 DEF SendSync, Send, StartForces
  <2>13. CASE SendPost(t)
    BY <2>13 DEF SendPost
  <2>14. CASE StartDone(t)
    BY <2>14 DEF StartDone
  <2>15. CASE Release(t)
    BY <2>15 DEF Release
  <2>16. CASE UsecaseTest(t)
    BY <2>16 DEF UsecaseTest, Unlock
  <2>17. CASE UsecaseOff(t)
    BY <2>17 DEF UsecaseOff
  <2> QED BY <1>1, <2>2, <2>3, <2>4, <2>5, <2>6, <2>7, <2>8, <2>9, <2>10,
           <2>11, <2>12, <2>13, <2>14, <2>15, <2>16, <2>17 DEF StreamMoves,
           StreamContinues
<1>2. CASE SetterMoves
  <2>1. SetterFrame
    BY <1>2, SetterKeeps
  <2> USE <2>1 DEF SetterFrame
  <2>2. CASE Request
    BY <2>2 DEF Request
  <2>3. CASE CreateEvent
    BY <2>3 DEF CreateEvent
  <2>4. CASE PostEvent
    BY <2>4 DEF PostEvent
  <2> QED BY <1>2, <2>2, <2>3, <2>4 DEF SetterMoves, SetterContinues
<1>3. CASE EventMoves
  <2>1. EventFrame
    BY <1>3, EventKeeps
  <2> USE <2>1 DEF EventFrame
  <2>2. CASE EventTop
    BY <2>2 DEF EventTop
  <2>3. CASE EventEmpty
    BY <2>3 DEF EventEmpty
  <2>4. CASE EventPop
    BY <2>4 DEF EventPop
  <2>5. CASE EventWait
    BY <2>5 DEF EventWait
  <2>6. ASSUME NEW u \in Streams, EventApply(u) PROVE VbcInv(s)'
    BY <2>6 DEF EventApply
  <2>7. CASE EventSend
    BY <2>7 DEF EventSend, Send
  <2>8. CASE SendPost(Event)
    BY <2>8 DEF SendPost
  <2>9. CASE EventDrain
    BY <2>9 DEF EventDrain
  <2> QED BY <1>3, <2>2, <2>3, <2>4, <2>5, <2>6, <2>7, <2>8, <2>9 DEF
           EventMoves, EventContinues
<1>4. CASE EventAborts
  BY <1>4 DEF EventAborts
<1>5. CASE RouterMoves
  <2>1. RouterFrame
    BY <1>5, RouterKeeps
  <2> USE <2>1 DEF RouterFrame
  <2>2. CASE RouterTop
    BY <2>2 DEF RouterTop
  <2>3. CASE RouterEmpty
    BY <2>3 DEF RouterEmpty
  <2>4. CASE RouterPop
    BY <2>4 DEF RouterPop, TakeHead
  <2>5. CASE RouterWait
    BY <2>5 DEF RouterWait
  <2>6. CASE SelectLock
    BY <2>6 DEF SelectLock, Lock
  <2>7. CASE SelectIdle
    BY <2>7 DEF SelectIdle, Unlock
  <2>8. CASE SelectSame
    BY <2>8 DEF SelectSame, Unlock
  <2>9. CASE SelectOther
    BY <2>9 DEF SelectOther
  <2>10. CASE SelectEnable
    BY <2>10 DEF SelectEnable, VbcRoute
  <2>11. CASE SelectNoAccess
    BY <2>11 DEF SelectNoAccess, Unlock
  <2>12. CASE SelectDecide
    BY <2>12 DEF SelectDecide, Unlock
  <2>13. CASE SwitchRoute
    BY <2>13 DEF SwitchRoute
  <2>14. CASE SelectRelock
    BY <2>14 DEF SelectRelock, Unlock
  <2>15. CASE RouterDone
    BY <2>15 DEF RouterDone, Answer
  <2>16. CASE RouterDrain
    BY <2>16 DEF RouterDrain, Answer
  <2>17. CASE RouterExit
    BY <2>17 DEF RouterExit
  <2> QED BY <1>5, <2>2, <2>3, <2>4, <2>5, <2>6, <2>7, <2>8, <2>9, <2>10,
           <2>11, <2>12, <2>13, <2>14, <2>15, <2>16, <2>17 DEF RouterMoves,
           RouterContinues
<1>6. CASE CloserMoves
  BY <1>6, CloserKeeps DEF CloserFrame
<1>7. CASE UNCHANGED vars
  BY <1>7
<1> QED BY <1>1, <1>2, <1>3, <1>4, <1>5, <1>6, <1>7, Moves

\* Without the lock the routing thread only repeats what the mixer shows.
LEMMA LoneSwitch ==
  ASSUME NEW s, Streams = {s}, ControlTypes, PlaceTypes, CountTypes, PhaseInv, OwnInv,
         UseInv(s), LocksInv(s), ForceInv(s), BareInv(s), VbcInv(s), [Next]_vars,
         vbc # None, vbc' \notin {None, vbc}
  PROVE  ctlLock \in Threads /\ pc'[ctlLock] # pc[ctlLock]
<1> USE ThreadFacts
<1>1. ASSUME NEW t \in Streams, StreamMoves(t) PROVE SwitchVbcRoute(t) /\ t = s
  BY <1>1 DEF StreamMoves, StreamContinues, StartEnter, Standby, UsecaseLock, UsecaseRefused,
     UsecaseRead, UsecaseOn, UsecaseUnlock, SwitchVbcLock, PcmOpen, SendSync, SendPost,
     StartDone, Release, UsecaseTest, UsecaseOff, mixVars
<1>2. CASE SwitchVbcRoute(s)
  <2>1. pc[s] = "vbcApply" /\ pc'[s] = "pcm"
    BY <1>2 DEF SwitchVbcRoute, At, Goto, PlaceTypes
  <2> QED BY <2>1 DEF LocksInv, Holding
<1>3. CASE RouterMoves
  <2>1. SelectEnable
    BY <1>3 DEF RouterMoves, RouterContinues, RouterTop, RouterEmpty, RouterPop, RouterWait,
       SelectLock, SelectIdle, SelectSame, SelectOther, SelectNoAccess, SelectDecide,
       SwitchRoute, SelectRelock, RouterDone, RouterDrain, RouterExit, mixVars
  <2>2. pc[Router] = "enable" /\ pc'[Router] = "decide" /\ vbc' = cur.device
    BY <2>1 DEF SelectEnable, VbcRoute, At, Goto, PlaceTypes
  <2>3. CASE ctlLock # Router
    <3>1. cur.by = s /\ cur.device = ctlDev /\ cur.device = dev[s]
      BY <2>2, <2>3 DEF BareInv, Bare, ForceInv
    <3>2. pc[s] \in {"post", "wait"}
      BY <3>1 DEF OwnInv, Owned, Waiting
    <3>3. vbc \in {None, dev[s], ctlDev}
      BY <2>2, <3>2 DEF VbcInv, Starting, Reached
    <3> QED BY <2>2, <3>1, <3>3
  <2> QED BY <2>2, <2>3
<1>4. CASE SetterMoves
  BY <1>4, SetterKeeps DEF SetterFrame, mixVars
<1>5. CASE EventMoves
  BY <1>5, EventKeeps DEF EventFrame, mixVars
<1>6. CASE EventAborts
  BY <1>6 DEF EventAborts, mixVars
<1>7. CASE CloserMoves
  BY <1>7, CloserKeeps DEF CloserFrame, mixVars
<1>8. CASE UNCHANGED vars
  BY <1>8 DEF vars
<1> QED BY <1>1, <1>2, <1>3, <1>4, <1>5, <1>6, <1>7, <1>8, Moves

LoneInv(s) ==
    PhaseInv /\ OwnInv /\ UseInv(s) /\ LocksInv(s) /\ ForceInv(s) /\ BareInv(s) /\ VbcInv(s)

(* A single stream, any devices, any route table, a DSP that may not wake:   *)
(* no step changes the vbc route of the mixer but that of the thread which   *)
(* holds actl->lock.  It takes a second stream to reach do_select_device     *)
(* after its unlock with a device other than the one the mixer shows.        *)
THEOREM LoneStreamSwitchesUnderLock ==
  ASSUME NEW s, Streams = {s}
  PROVE  Spec => MixerUnderLock
<1>1. Init => LoneInv(s)
  BY ThreadFacts DEF Init, LoneInv, PhaseInv, OwnInv, Owned, Waiting, InWait, Listed,
     NoCommand, At, UseInv, Using, Playing, LocksInv, Holding, ForceInv, BareInv, Bare,
     VbcInv, Starting
<1>2. TypeOK /\ LoneInv(s) /\ [Next]_vars => LoneInv(s)'
  <2> SUFFICES ASSUME TypeOK, LoneInv(s), [Next]_vars PROVE LoneInv(s)'
    OBVIOUS
  <2> USE TypeParts DEF LoneInv
  <2>1. PhaseInv'
    BY PhaseStep
  <2>2. OwnInv'
    BY OwnStep
  <2>3. UseInv(s)'
    BY UseStep
  <2>4. LocksInv(s)'
    BY LocksStep
  <2>5. ForceInv(s)'
    BY ForceStep
  <2>6. BareInv(s)'
    BY BareStep
  <2>7. VbcInv(s)'
    BY VbcStep
  <2> QED BY <2>1, <2>2, <2>3, <2>4, <2>5, <2>6, <2>7
<1>3. TypeOK /\ LoneInv(s) /\ [Next]_vars
        => [vbc # None /\ vbc' \notin {None, vbc} => ctlLock \in Threads /\ pc'[ctlLock] # pc[ctlLock]]_vars
  BY TypeParts, LoneSwitch DEF LoneInv
<1> QED BY <1>1, <1>2, <1>3, TypeCorrect, PTL DEF Spec, MixerUnderLock
=============================================================================
