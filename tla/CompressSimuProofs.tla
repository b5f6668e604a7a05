-------------------------- MODULE CompressSimuProofs --------------------------
(***************************************************************************)
(* The properties of CompressSimu for buffers and queues of any size.  The *)
(* argument: a synchronous command is sent with compress->lock held, so it *)
(* is the last of the list (CommandLast) and the state is the one it asks  *)
(* for; the device follows when it is taken (DeviceMatches).  A drain that *)
(* sleeps is in a stream that runs, or the stop that wakes it is in the    *)
(* list (DrainAlive); an end of data that is still on record was noticed   *)
(* after the last write, or the command of that write will clear it        *)
(* (NoDataSeen), so the one that ends a drain came after it.  What a drain *)
(* is owed is in the two buffers or is lost (DueLeft); at the end of the   *)
(* data the last frame alone is left in them, so that is all that remains  *)
(* (PlayedOut).                                                            *)
(***************************************************************************)
EXTENDS CompressSimu, TLAPS

\* What the sizes are good for.
LEMMA Sizes ==
  /\ MaxSrc \in Nat /\ MaxPcm \in Nat
  /\ 0 \in 0..MaxSrc /\ 0 \in 0..MaxPcm /\ 0 \in 0..(MaxSrc + MaxPcm)
BY BoundsAssumption

\* What is left of a song fits in pcm_stream when the song does.
LEMMA LeftOfType ==
  ASSUME NEW s \in {None} \cup 0..MaxPcm, NEW n \in Nat
  PROVE  LeftOf(s, n) \in {None} \cup 0..MaxPcm
BY Sizes DEF LeftOf, None

\* There is a song left when there was one.
LEMMA LeftOfNone ==
  ASSUME NEW s \in {None} \cup 0..MaxPcm, NEW n \in Nat
  PROVE  LeftOf(s, n) = None <=> s = None
BY Sizes DEF LeftOf, None

\* A debt does not grow, and what is lost of it remains.
LEMMA OwedType ==
  ASSUME DataTypes, NEW d \in Nat, NEW p \in Nat
  PROVE  Owed(d, p) \in Nat /\ lost <= Owed(d, p) /\ Owed(d, p) <= due
BY Sizes DEF Owed, DataTypes

\* Nothing that is lost is found again.
LEMMA LostType ==
  ASSUME DataTypes, NEW o \in Nat, lost <= o, NEW g \in Nat
  PROVE  Lost(o, g) \in Nat /\ lost <= Lost(o, g) /\ Lost(o, g) <= o
BY Sizes DEF Lost, DataTypes

\* What the second half of a pass does to the debts, ...
LEMMA PlayDebts ==
  ASSUME DataTypes, NEW d \in Nat, NEW noData, NEW frames, NEW n \in Nat,
         NEW given \in Nat, Play(d, noData, frames, n, given)
  PROVE  /\ due' = Owed(d, n) /\ due' \in Nat /\ lost <= due' /\ due' <= due
         /\ lost' = Lost(due', given) /\ lost' \in Nat /\ lost <= lost' /\ lost' <= due'
         /\ early' = early
<1>1. due' = Owed(d, n) /\ lost' = Lost(due', given) /\ early' = early
  BY DEF Play
<1>2. due' \in Nat /\ lost <= due' /\ due' <= due
  BY <1>1, OwedType
<1>3. due' \in Nat /\ lost \in Nat
  BY <1>2 DEF DataTypes
<1>4. lost' \in Nat /\ lost <= lost' /\ lost' <= due'
  BY <1>1, <1>2, <1>3 DEF Lost
<1> QED BY <1>1, <1>2, <1>4

\* ... to the data ...
LEMMA PlayData ==
  ASSUME DataTypes, NEW d \in Nat, NEW noData,
         NEW frames \in {None} \cup 0..MaxPcm, NEW n \in Nat, NEW given \in Nat,
         Play(d, noData, frames, n, given),
         pcm + d <= MaxPcm, given = 0 \/ n + given <= pcm + d
  PROVE  /\ pcm' \in 0..MaxPcm
         /\ song' \in {None} \cup 0..MaxPcm
         /\ behind' \in BOOLEAN /\ slipped' \in BOOLEAN
<1> DEFINE have == pcm + d
           left == LeftOf(frames, n)
<1>1. /\ pcm' = IF n > have THEN 0 ELSE have - n - given
      /\ song' \in {None, LeftOf(left, given)}
  BY DEF Play
<1>2. behind' \in BOOLEAN /\ slipped' \in BOOLEAN
  BY DEF Play, DataTypes
<1>3. pcm' \in 0..MaxPcm
  BY <1>1, Sizes DEF DataTypes
<1>4. song' \in {None} \cup 0..MaxPcm
  <2>1. left \in {None} \cup 0..MaxPcm
    BY LeftOfType
  <2>2. LeftOf(left, given) \in {None} \cup 0..MaxPcm
    BY <2>1, LeftOfType
  <2> QED BY <1>1, <2>2
<1> QED BY <1>2, <1>3, <1>4

\* ... and to the streams: a transition ends, or its song goes on to its end.
LEMMA PlayStreams ==
  ASSUME NEW d, NEW noData \in BOOLEAN, NEW frames, NEW n, NEW given,
         Play(d, noData, frames, n, given)
  PROVE  /\ \/ transition /\ EndTransition
            \/ /\ UNCHANGED gapless /\ song' = LeftOf(LeftOf(frames, n), given)
               /\ transition => LeftOf(frames, n) # None
         /\ \/ offload' = offload
            \/ offload \in {"waitSleep", "availSleep"} /\ offload' \in {"wait", "availWoken"}
         /\ decoder' \in {"ok", "noData", "noPcm"} /\ (decoder' = "noData" => noData)
<1>1. PICK ends \in BOOLEAN :
         /\ song' = IF ends THEN None ELSE LeftOf(LeftOf(frames, n), given)
         /\ IF ends THEN EndTransition ELSE UNCHANGED gapless
         /\ ends => transition
         /\ ~ends /\ transition => LeftOf(frames, n) # None
         /\ offload' = IF offload = "waitSleep" /\ bufferReady' THEN "wait"
                       ELSE IF offload = "availSleep" /\ ends THEN "availWoken"
                       ELSE offload
  BY DEF Play, None
<1>2. decoder' \in {"ok", "noData", "noPcm"} /\ (decoder' = "noData" => noData)
  BY DEF Play
<1> QED BY <1>1, <1>2

\* The end of a transition leaves two streams.
LEMMA EndTransitionTypes ==
  ASSUME TrackTypes, EndTransition
  PROVE  TrackTypes'
<1>1. opened' \in [1..2 -> BOOLEAN] /\ setNext' \in BOOLEAN
  BY DEF TrackTypes, EndTransition
<1>2. cur' \in 1..2 /\ next' \in 0..2
  BY DEF TrackTypes, EndTransition
<1> QED BY <1>1, <1>2 DEF TrackTypes, EndTransition, avail

LEMMA NoStream == [id \in 1..2 |-> FALSE] \in [1..2 -> BOOLEAN]
OBVIOUS

LEMMA StreamIds == 1 \in 1..2 /\ 0 \in 0..2
OBVIOUS

-----------------------------------------------------------------------------
\* The threads stay where they can be.
LEMMA ThreadsStep ==
  ASSUME TypeOK, [Next]_vars
  PROVE  ThreadTypes'
<1> USE DEF vars, caller, wire, data, history, flags, avail, tracks, gapless,
        TypeOK, ThreadTypes, PlayerAt, OffloadAt, Requests
<1>1. CASE Write
  BY <1>1 DEF Write, Send
<1>2. CASE Pause
  BY <1>2 DEF Pause, SendSync, Send
<1>3. CASE SetDevice
  BY <1>3 DEF SetDevice, SendSync, Send
<1>4. CASE Open
  BY <1>4 DEF Open
<1>5. ASSUME NEW r \in {"drain", "partial"}, CallDrain(r) PROVE ThreadTypes'
  BY <1>5 DEF CallDrain
<1>6. ASSUME NEW b \in BOOLEAN, Stop(b) PROVE ThreadTypes'
  BY <1>6 DEF Stop, SendSync, Send
<1>7. CASE Start
  BY <1>7 DEF Start, SendSync, Send
<1>8. CASE Resume
  BY <1>8 DEF Resume, SendSync, Send
<1>9. CASE Close
  BY <1>9 DEF Close, SendSync, Send
<1>10. CASE Return
  BY <1>10 DEF Return, Answered
<1>11. CASE Unblocked
  BY <1>11 DEF Unblocked
<1>12. CASE Join
  BY <1>12 DEF Join
<1>13. CASE TakeRequest
  BY <1>13 DEF TakeRequest
<1>14. CASE Finish
  BY <1>14 DEF Finish
<1>15. CASE WaitForBuffer
  BY <1>15 DEF WaitForBuffer
<1>16. CASE Drain
  BY <1>16 DEF Drain, SendSync, Send
<1>17. CASE DrainSent
  BY <1>17 DEF DrainSent, Answered
<1>18. CASE DrainWaits
  BY <1>18 DEF DrainWaits
<1>19. CASE NextTrack
  BY <1>19 DEF NextTrack, OpenNext, Send
<1>20. CASE StreamAvailable
  BY <1>20 DEF StreamAvailable, OpenNext, Send
<1>21. CASE NextTrackSent
  BY <1>21 DEF NextTrackSent, Answered
<1>22. CASE PartialDrain
  BY <1>22 DEF PartialDrain, SendSync, Send
<1>23. CASE PartialDrainSent
  BY <1>23 DEF PartialDrainSent, Answered
<1>24. CASE PartialDrainSleeps
  BY <1>24 DEF PartialDrainSleeps
<1>25. CASE PartialDrainWaited
  BY <1>25 DEF PartialDrainWaited
<1>26. CASE DelayOver
  BY <1>26 DEF DelayOver
<1>27. CASE FlipStream
  BY <1>27 DEF FlipStream
<1>28. CASE DecoderSleeps
  BY <1>28 DEF DecoderSleeps
<1>29. CASE DecoderGoesOn
  BY <1>29 DEF DecoderGoesOn
<1>30. CASE DoStop
  BY <1>30 DEF DoStop, Take, AfterCommand
<1>31. CASE DoStart
  BY <1>31 DEF DoStart, Take, AfterCommand
<1>32. CASE DoPause
  BY <1>32 DEF DoPause, Take, AfterCommand
<1>33. CASE DoChangeDev
  BY <1>33 DEF DoChangeDev, Take, AfterCommand
<1>34. CASE DoResume
  BY <1>34 DEF DoResume, Take, AfterCommand
<1>35. CASE DoNextTrack
  BY <1>35 DEF DoNextTrack, Take, AfterCommand
<1>36. CASE DoNothing
  BY <1>36 DEF DoNothing, Take, AfterCommand
<1>37. CASE DoClose
  BY <1>37 DEF DoClose, Take
<1>38. ASSUME NEW n \in 0..(MaxPcm + 1), NEW given \in 0..MaxPcm,
               PassBusy(n, given)
        PROVE  ThreadTypes'
  BY <1>38 DEF PassBusy, Play, Moves, EndTransition
<1>39. ASSUME NEW n \in 0..(MaxPcm + 1), PassDecodes(n) PROVE ThreadTypes'
  BY <1>39 DEF PassDecodes, Play, Moves, EndTransition
<1>40. ASSUME NEW n \in 0..(MaxPcm + 1), NEW given \in 0..MaxPcm,
               PassFindsNoData(n, given)
        PROVE  ThreadTypes'
  BY <1>40 DEF PassFindsNoData, OutOfData, Reopens, Play, Moves, EndTransition
<1>41. CASE PassFindsEnd
  BY <1>41 DEF PassFindsEnd, OutOfData
<1>42. CASE PassOk
  BY <1>42 DEF PassOk
<1>43. CASE NotifyPartialDrain
  BY <1>43 DEF NotifyPartialDrain
<1>44. CASE NotifyDrain
  BY <1>44 DEF NotifyDrain
<1>45. CASE UNCHANGED vars
  BY <1>45
<1> QED BY <1>1, <1>2, <1>3, <1>4, <1>5, <1>6, <1>7, <1>8, <1>9, <1>10, <1>11,
           <1>12, <1>13, <1>14, <1>15, <1>16, <1>17, <1>18, <1>19, <1>20,
           <1>21, <1>22, <1>23, <1>24, <1>25, <1>26, <1>27, <1>28, <1>29,
           <1>30, <1>31, <1>32, <1>33, <1>34, <1>35, <1>36, <1>37, <1>38,
           <1>39, <1>40, <1>41, <1>42, <1>43, <1>44, <1>45 DEF Next,
           PlayerCalls, PlayerInside, OffloadSteps, DecoderSteps,
           DecoderCommands, Passes

\* Lock, answer, state and list.
LEMMA WireStep ==
  ASSUME TypeOK, [Next]_vars
  PROVE  WireTypes'
<1> USE DEF vars, caller, wire, data, history, flags, avail, tracks, gapless,
        TypeOK, WireTypes, States, Commands
<1>1. CASE Write
  BY <1>1 DEF Write, Send
<1>2. CASE Pause
  BY <1>2 DEF Pause, SendSync, Send
<1>3. CASE SetDevice
  BY <1>3 DEF SetDevice, SendSync, Send
<1>4. CASE Open
  BY <1>4 DEF Open
<1>5. ASSUME NEW r \in {"drain", "partial"}, CallDrain(r) PROVE WireTypes'
  BY <1>5 DEF CallDrain
<1>6. ASSUME NEW b \in BOOLEAN, Stop(b) PROVE WireTypes'
  BY <1>6 DEF Stop, SendSync, Send
<1>7. CASE Start
  BY <1>7 DEF Start, SendSync, Send
<1>8. CASE Resume
  BY <1>8 DEF Resume, SendSync, Send
<1>9. CASE Close
  BY <1>9 DEF Close, SendSync, Send
<1>10. CASE Return
  BY <1>10 DEF Return, Answered
<1>11. CASE Unblocked
  BY <1>11 DEF Unblocked
<1>12. CASE Join
  BY <1>12 DEF Join
<1>13. CASE TakeRequest
  BY <1>13 DEF TakeRequest
<1>14. CASE Finish
  BY <1>14 DEF Finish
<1>15. CASE WaitForBuffer
  BY <1>15 DEF WaitForBuffer
<1>16. CASE Drain
  BY <1>16 DEF Drain, SendSync, Send
<1>17. CASE DrainSent
  BY <1>17 DEF DrainSent, Answered
<1>18. CASE DrainWaits
  BY <1>18 DEF DrainWaits
<1>19. CASE NextTrack
  BY <1>19 DEF NextTrack, OpenNext, Send
<1>20. CASE StreamAvailable
  BY <1>20 DEF StreamAvailable, OpenNext, Send
<1>21. CASE NextTrackSent
  BY <1>21 DEF NextTrackSent, Answered
<1>22. CASE PartialDrain
  BY <1>22 DEF PartialDrain, SendSync, Send
<1>23. CASE PartialDrainSent
  BY <1>23 DEF PartialDrainSent, Answered
<1>24. CASE PartialDrainSleeps
  BY <1>24 DEF PartialDrainSleeps
<1>25. CASE PartialDrainWaited
  BY <1>25 DEF PartialDrainWaited
<1>26. CASE DelayOver
  BY <1>26 DEF DelayOver
<1>27. CASE FlipStream
  BY <1>27 DEF FlipStream
<1>28. CASE DecoderSleeps
  BY <1>28 DEF DecoderSleeps
<1>29. CASE DecoderGoesOn
  BY <1>29 DEF DecoderGoesOn
<1>30. CASE DoStop
  BY <1>30 DEF DoStop, Take, AfterCommand
<1>31. CASE DoStart
  BY <1>31 DEF DoStart, Take, AfterCommand
<1>32. CASE DoPause
  BY <1>32 DEF DoPause, Take, AfterCommand
<1>33. CASE DoChangeDev
  BY <1>33 DEF DoChangeDev, Take, AfterCommand
<1>34. CASE DoResume
  BY <1>34 DEF DoResume, Take, AfterCommand
<1>35. CASE DoNextTrack
  BY <1>35 DEF DoNextTrack, Take, AfterCommand
<1>36. CASE DoNothing
  BY <1>36 DEF DoNothing, Take, AfterCommand
<1>37. CASE DoClose
  BY <1>37 DEF DoClose, Take
<1>38. ASSUME NEW n \in 0..(MaxPcm + 1), NEW given \in 0..MaxPcm,
               PassBusy(n, given)
        PROVE  WireTypes'
  BY <1>38 DEF PassBusy, Play, Moves, EndTransition
<1>39. ASSUME NEW n \in 0..(MaxPcm + 1), PassDecodes(n) PROVE WireTypes'
  BY <1>39 DEF PassDecodes, Play, Moves, EndTransition
<1>40. ASSUME NEW n \in 0..(MaxPcm + 1), NEW given \in 0..MaxPcm,
               PassFindsNoData(n, given)
        PROVE  WireTypes'
  BY <1>40 DEF PassFindsNoData, OutOfData, Reopens, Play, Moves, EndTransition
<1>41. CASE PassFindsEnd
  BY <1>41 DEF PassFindsEnd, OutOfData
<1>42. CASE PassOk
  BY <1>42 DEF PassOk
<1>43. CASE NotifyPartialDrain
  BY <1>43 DEF NotifyPartialDrain
<1>44. CASE NotifyDrain
  BY <1>44 DEF NotifyDrain
<1>45. CASE UNCHANGED vars
  BY <1>45
<1> QED BY <1>1, <1>2, <1>3, <1>4, <1>5, <1>6, <1>7, <1>8, <1>9, <1>10, <1>11,
           <1>12, <1>13, <1>14, <1>15, <1>16, <1>17, <1>18, <1>19, <1>20,
           <1>21, <1>22, <1>23, <1>24, <1>25, <1>26, <1>27, <1>28, <1>29,
           <1>30, <1>31, <1>32, <1>33, <1>34, <1>35, <1>36, <1>37, <1>38,
           <1>39, <1>40, <1>41, <1>42, <1>43, <1>44, <1>45 DEF Next,
           PlayerCalls, PlayerInside, OffloadSteps, DecoderSteps,
           DecoderCommands, Passes

\* The data stay within the buffers.
LEMMA DataStep ==
  ASSUME TypeOK, [Next]_vars
  PROVE  DataTypes'
<1> USE Sizes DEF vars, caller, wire, data, history, flags, avail, tracks,
        gapless, TypeOK, DataTypes, None
<1>1. CASE Write
  <2>1. src' \in 0..MaxSrc
    BY <1>1 DEF Write
  <2> QED BY <1>1, <2>1 DEF Write
<1>2. CASE Pause
  BY <1>2 DEF Pause, SendSync, Send
<1>3. CASE SetDevice
  BY <1>3 DEF SetDevice, SendSync, Send
<1>4. CASE Open
  BY <1>4 DEF Open
<1>5. ASSUME NEW r \in {"drain", "partial"}, CallDrain(r) PROVE DataTypes'
  BY <1>5 DEF CallDrain
<1>6. ASSUME NEW b \in BOOLEAN, Stop(b) PROVE DataTypes'
  BY <1>6 DEF Stop, SendSync, Send
<1>7. CASE Start
  BY <1>7 DEF Start, SendSync, Send
<1>8. CASE Resume
  BY <1>8 DEF Resume, SendSync, Send
<1>9. CASE Close
  BY <1>9 DEF Close, SendSync, Send
<1>10. CASE Return
  BY <1>10 DEF Return, Answered
<1>11. CASE Unblocked
  BY <1>11 DEF Unblocked
<1>12. CASE Join
  <2>1. due' \in 0..(MaxSrc + MaxPcm) /\ lost' \in Nat /\ lost' <= due'
    BY <1>12 DEF Join
  <2> QED BY <1>12, <2>1 DEF Join
<1>13. CASE TakeRequest
  <2>1. due' \in 0..(MaxSrc + MaxPcm) /\ lost' \in Nat /\ lost' <= due'
    BY <1>13 DEF TakeRequest
  <2> QED BY <1>13, <2>1 DEF TakeRequest
<1>14. CASE Finish
  <2>1. due' \in 0..(MaxSrc + MaxPcm) /\ lost' \in Nat /\ lost' <= due'
    BY <1>14 DEF Finish
  <2> QED BY <1>14, <2>1 DEF Finish
<1>15. CASE WaitForBuffer
  BY <1>15 DEF WaitForBuffer
<1>16. CASE Drain
  <2>1. due' \in 0..(MaxSrc + MaxPcm)
    BY <1>16 DEF Drain
  <2> QED BY <1>16, <2>1 DEF Drain
<1>17. CASE DrainSent
  BY <1>17 DEF DrainSent, Answered
<1>18. CASE DrainWaits
  BY <1>18 DEF DrainWaits
<1>19. CASE NextTrack
  BY <1>19 DEF NextTrack, OpenNext, Send
<1>20. CASE StreamAvailable
  BY <1>20 DEF StreamAvailable, OpenNext, Send
<1>21. CASE NextTrackSent
  BY <1>21 DEF NextTrackSent, Answered
<1>22. CASE PartialDrain
  <2>1. due' \in 0..(MaxSrc + MaxPcm)
    BY <1>22 DEF PartialDrain
  <2> QED BY <1>22, <2>1 DEF PartialDrain
<1>23. CASE PartialDrainSent
  BY <1>23 DEF PartialDrainSent, Answered
<1>24. CASE PartialDrainSleeps
  BY <1>24 DEF PartialDrainSleeps
<1>25. CASE PartialDrainWaited
  BY <1>25 DEF PartialDrainWaited
<1>26. CASE DelayOver
  BY <1>26 DEF DelayOver
<1>27. CASE FlipStream
  BY <1>27 DEF FlipStream
<1>28. CASE DecoderSleeps
  BY <1>28 DEF DecoderSleeps
<1>29. CASE DecoderGoesOn
  <2>0. pcm \in Nat /\ due \in Nat /\ lost <= due
    OBVIOUS
  <2>1. /\ LeftOf(song, pcm) \in {None} \cup 0..MaxPcm /\ Lost(due, pcm) \in Nat
        /\ Lost(due, pcm) <= due
    BY <2>0, LeftOfType, LostType
  <2>2. /\ pcm' \in {0, pcm} /\ song' \in {song, LeftOf(song, pcm)}
        /\ lost' \in {lost, Lost(due, pcm)} /\ pending' \in BOOLEAN
        /\ UNCHANGED <<isStart, src, noSrc, behind, slipped, due, early>>
    BY <1>29 DEF DecoderGoesOn
  <2> QED BY <2>0, <2>1, <2>2
<1>30. CASE DoStop
  <2>1. due' \in 0..(MaxSrc + MaxPcm) /\ lost' \in Nat /\ lost' <= due'
    BY <1>30 DEF DoStop
  <2> QED BY <1>30, <2>1 DEF DoStop
<1>31. CASE DoStart
  BY <1>31 DEF DoStart, Take, AfterCommand
<1>32. CASE DoPause
  <2>1. PICK n \in 0..pcm : pcm' = pcm - n /\ song' = LeftOf(song, n) /\ due' = Owed(0, n)
    BY <1>32 DEF DoPause
  <2>0. n \in Nat /\ 0 \in Nat
    OBVIOUS
  <2>2. due' \in Nat /\ lost <= due' /\ due' <= due
    BY <2>0, <2>1, OwedType
  <2>4. song' \in {None} \cup 0..MaxPcm
    BY <2>0, <2>1, LeftOfType
  <2>5. pcm' \in 0..MaxPcm
    BY <2>0, <2>1
  <2>3. /\ isStart' \in BOOLEAN /\ behind' \in BOOLEAN
        /\ UNCHANGED <<src, noSrc, pending, slipped, lost, early>>
    BY <1>32 DEF DoPause
  <2> QED BY <2>2, <2>3, <2>4, <2>5
<1>33. CASE DoChangeDev
  <2>0. pcm \in Nat /\ due \in Nat /\ lost <= due
    OBVIOUS
  <2>1. /\ LeftOf(song, pcm) \in {None} \cup 0..MaxPcm /\ Lost(due, pcm) \in Nat
        /\ Lost(due, pcm) <= due
    BY <2>0, LeftOfType, LostType
  <2>2. /\ pcm' = 0 /\ song' = LeftOf(song, pcm) /\ lost' = Lost(due, pcm)
        /\ UNCHANGED <<isStart, src, noSrc, behind, pending, slipped, due, early>>
    BY <1>33 DEF DoChangeDev
  <2> QED BY <2>1, <2>2
<1>34. CASE DoResume
  BY <1>34 DEF DoResume, Take, AfterCommand
<1>35. CASE DoNextTrack
  BY <1>35 DEF DoNextTrack, Take, AfterCommand
<1>36. CASE DoNothing
  BY <1>36 DEF DoNothing, Take, AfterCommand
<1>37. CASE DoClose
  BY <1>37 DEF DoClose, Take
<1>38. ASSUME NEW n \in 0..(MaxPcm + 1), NEW given \in 0..MaxPcm,
               PassBusy(n, given)
        PROVE  DataTypes'
  <2>0. n \in Nat /\ given \in Nat /\ 0 \in Nat
    BY Sizes
  <2>1. Play(0, FALSE, song, n, given)
    BY <1>38 DEF PassBusy
  <2>8. given = 0 \/ given = pcm - n
    BY <1>38 DEF PassBusy
  <2>9. pcm \in Nat /\ pcm <= MaxPcm
    OBVIOUS
  <2>2. pcm + 0 <= MaxPcm /\ (given = 0 \/ n + given <= pcm + 0)
    BY <2>0, <2>8, <2>9
  <2>4. /\ pcm' \in 0..MaxPcm /\ song' \in {None} \cup 0..MaxPcm
        /\ behind' \in BOOLEAN /\ slipped' \in BOOLEAN
    BY <2>0, <2>1, <2>2, PlayData
  <2>5. due' \in Nat /\ due' <= due /\ lost' \in Nat /\ lost' <= due' /\ early' = early
    BY <2>0, <2>1, PlayDebts
  <2>6. src' \in 0..MaxSrc
    BY <1>38 DEF PassBusy
  <2>7. noSrc' \in BOOLEAN /\ pending' \in BOOLEAN /\ isStart' = isStart
    BY <1>38 DEF PassBusy
  <2> QED BY <2>4, <2>5, <2>6, <2>7
<1>39. ASSUME NEW n \in 0..(MaxPcm + 1), PassDecodes(n) PROVE DataTypes'
  <2>0. n \in Nat /\ 1 \in Nat /\ 0 \in Nat
    BY Sizes
  <2>1. Play(1, FALSE, song, n, 0)
    BY <1>39 DEF PassDecodes
  <2>2. pcm + 1 <= MaxPcm
    BY <1>39 DEF PassDecodes
  <2>4. /\ pcm' \in 0..MaxPcm /\ song' \in {None} \cup 0..MaxPcm
        /\ behind' \in BOOLEAN /\ slipped' \in BOOLEAN
    BY <2>0, <2>1, <2>2, PlayData
  <2>5. due' \in Nat /\ due' <= due /\ lost' \in Nat /\ lost' <= due' /\ early' = early
    BY <2>0, <2>1, PlayDebts
  <2>6. src' \in 0..MaxSrc
    BY <1>39 DEF PassDecodes
  <2>7. noSrc' \in BOOLEAN /\ pending' \in BOOLEAN /\ isStart' = isStart
    BY <1>39 DEF PassDecodes
  <2> QED BY <2>4, <2>5, <2>6, <2>7
<1>40. ASSUME NEW n \in 0..(MaxPcm + 1), NEW given \in 0..MaxPcm,
               PassFindsNoData(n, given)
        PROVE  DataTypes'
  <2> DEFINE end == IF setNext /\ draining /\ ~transition THEN pcm ELSE song
  <2>0. n \in Nat /\ given \in Nat /\ 0 \in Nat
    BY Sizes
  <2>1. Play(0, TRUE, LeftOf(end, given), n, given)
    BY <1>40 DEF PassFindsNoData
  <2>2. pcm + 0 <= MaxPcm /\ (given = 0 \/ n + given <= pcm + 0)
    BY <1>40 DEF PassFindsNoData, OutOfData, Reopens
  <2>3. LeftOf(end, given) \in {None} \cup 0..MaxPcm
    BY <2>0, LeftOfType
  <2>4. /\ pcm' \in 0..MaxPcm /\ song' \in {None} \cup 0..MaxPcm
        /\ behind' \in BOOLEAN /\ slipped' \in BOOLEAN
    BY <2>0, <2>1, <2>2, <2>3, PlayData
  <2>5. due' \in Nat /\ due' <= due /\ lost' \in Nat /\ lost' <= due' /\ early' = early
    BY <2>0, <2>1, PlayDebts
  <2>6. src' \in 0..MaxSrc
    BY <1>40 DEF PassFindsNoData, OutOfData, Reopens
  <2>9. Reopens(n, given)
    BY <1>40 DEF PassFindsNoData
  <2>8. pending' \in BOOLEAN
    <3>1. (pcm > 0) \in BOOLEAN
      OBVIOUS
    <3> QED BY <2>9, <3>1, Zenon DEF Reopens
  <2>7. noSrc' \in BOOLEAN /\ pending' \in BOOLEAN /\ isStart' = isStart
    BY <1>40, <2>8 DEF PassFindsNoData, OutOfData, Reopens
  <2> QED BY <2>4, <2>5, <2>6, <2>7
<1>41. CASE PassFindsEnd
  <2>0. pcm \in Nat /\ due \in Nat /\ lost <= due
    OBVIOUS
  <2>1. /\ LeftOf(song, pcm) \in {None} \cup 0..MaxPcm /\ Lost(due, pcm) \in Nat
        /\ Lost(due, pcm) <= due
    BY <2>0, LeftOfType, LostType
  <2>2. /\ pcm' = 0 /\ song' = LeftOf(song, pcm) /\ lost' = Lost(due, pcm)
        /\ noSrc' = TRUE /\ slipped' \in BOOLEAN
        /\ UNCHANGED <<isStart, src, behind, pending, due, early>>
    BY <1>41 DEF PassFindsEnd
  <2> QED BY <2>1, <2>2
<1>42. CASE PassOk
  BY <1>42 DEF PassOk
<1>43. CASE NotifyPartialDrain
  BY <1>43 DEF NotifyPartialDrain
<1>44. CASE NotifyDrain
  BY <1>44 DEF NotifyDrain
<1>45. CASE UNCHANGED vars
  BY <1>45
<1> QED BY <1>1, <1>2, <1>3, <1>4, <1>5, <1>6, <1>7, <1>8, <1>9, <1>10, <1>11,
           <1>12, <1>13, <1>14, <1>15, <1>16, <1>17, <1>18, <1>19, <1>20,
           <1>21, <1>22, <1>23, <1>24, <1>25, <1>26, <1>27, <1>28, <1>29,
           <1>30, <1>31, <1>32, <1>33, <1>34, <1>35, <1>36, <1>37, <1>38,
           <1>39, <1>40, <1>41, <1>42, <1>43, <1>44, <1>45 DEF Next,
           PlayerCalls, PlayerInside, OffloadSteps, DecoderSteps,
           DecoderCommands, Passes

\* The flags of the waits.
LEMMA FlagsStep ==
  ASSUME TypeOK, [Next]_vars
  PROVE  FlagTypes'
<1> USE DEF vars, caller, wire, data, history, flags, avail, tracks, gapless,
        TypeOK, FlagTypes
<1>1. CASE Write
  BY <1>1 DEF Write, Send
<1>2. CASE Pause
  BY <1>2 DEF Pause, SendSync, Send
<1>3. CASE SetDevice
  BY <1>3 DEF SetDevice, SendSync, Send
<1>4. CASE Open
  BY <1>4 DEF Open
<1>5. ASSUME NEW r \in {"drain", "partial"}, CallDrain(r) PROVE FlagTypes'
  BY <1>5 DEF CallDrain
<1>6. ASSUME NEW b \in BOOLEAN, Stop(b) PROVE FlagTypes'
  BY <1>6 DEF Stop, SendSync, Send
<1>7. CASE Start
  BY <1>7 DEF Start, SendSync, Send
<1>8. CASE Resume
  BY <1>8 DEF Resume, SendSync, Send
<1>9. CASE Close
  BY <1>9 DEF Close, SendSync, Send
<1>10. CASE Return
  BY <1>10 DEF Return, Answered
<1>11. CASE Unblocked
  BY <1>11 DEF Unblocked
<1>12. CASE Join
  BY <1>12 DEF Join
<1>13. CASE TakeRequest
  BY <1>13 DEF TakeRequest
<1>14. CASE Finish
  BY <1>14 DEF Finish
<1>15. CASE WaitForBuffer
  BY <1>15 DEF WaitForBuffer
<1>16. CASE Drain
  BY <1>16 DEF Drain, SendSync, Send
<1>17. CASE DrainSent
  BY <1>17 DEF DrainSent, Answered
<1>18. CASE DrainWaits
  BY <1>18 DEF DrainWaits
<1>19. CASE NextTrack
  BY <1>19 DEF NextTrack, OpenNext, Send
<1>20. CASE StreamAvailable
  BY <1>20 DEF StreamAvailable, OpenNext, Send
<1>21. CASE NextTrackSent
  BY <1>21 DEF NextTrackSent, Answered
<1>22. CASE PartialDrain
  BY <1>22 DEF PartialDrain, SendSync, Send
<1>23. CASE PartialDrainSent
  BY <1>23 DEF PartialDrainSent, Answered
<1>24. CASE PartialDrainSleeps
  BY <1>24 DEF PartialDrainSleeps
<1>25. CASE PartialDrainWaited
  BY <1>25 DEF PartialDrainWaited
<1>26. CASE DelayOver
  BY <1>26 DEF DelayOver
<1>27. CASE FlipStream
  BY <1>27 DEF FlipStream
<1>28. CASE DecoderSleeps
  BY <1>28 DEF DecoderSleeps
<1>29. CASE DecoderGoesOn
  BY <1>29 DEF DecoderGoesOn
<1>30. CASE DoStop
  BY <1>30 DEF DoStop, Take, AfterCommand
<1>31. CASE DoStart
  BY <1>31 DEF DoStart, Take, AfterCommand
<1>32. CASE DoPause
  BY <1>32 DEF DoPause, Take, AfterCommand
<1>33. CASE DoChangeDev
  BY <1>33 DEF DoChangeDev, Take, AfterCommand
<1>34. CASE DoResume
  BY <1>34 DEF DoResume, Take, AfterCommand
<1>35. CASE DoNextTrack
  BY <1>35 DEF DoNextTrack, Take, AfterCommand
<1>36. CASE DoNothing
  BY <1>36 DEF DoNothing, Take, AfterCommand
<1>37. CASE DoClose
  BY <1>37 DEF DoClose, Take
<1>38. ASSUME NEW n \in 0..(MaxPcm + 1), NEW given \in 0..MaxPcm,
               PassBusy(n, given)
        PROVE  FlagTypes'
  BY <1>38 DEF PassBusy, Play, Moves, EndTransition
<1>39. ASSUME NEW n \in 0..(MaxPcm + 1), PassDecodes(n) PROVE FlagTypes'
  BY <1>39 DEF PassDecodes, Play, Moves, EndTransition
<1>40. ASSUME NEW n \in 0..(MaxPcm + 1), NEW given \in 0..MaxPcm,
               PassFindsNoData(n, given)
        PROVE  FlagTypes'
  BY <1>40 DEF PassFindsNoData, OutOfData, Reopens, Play, Moves, EndTransition
<1>41. CASE PassFindsEnd
  BY <1>41 DEF PassFindsEnd, OutOfData
<1>42. CASE PassOk
  BY <1>42 DEF PassOk
<1>43. CASE NotifyPartialDrain
  BY <1>43 DEF NotifyPartialDrain
<1>44. CASE NotifyDrain
  BY <1>44 DEF NotifyDrain
<1>45. CASE UNCHANGED vars
  BY <1>45
<1> QED BY <1>1, <1>2, <1>3, <1>4, <1>5, <1>6, <1>7, <1>8, <1>9, <1>10, <1>11,
           <1>12, <1>13, <1>14, <1>15, <1>16, <1>17, <1>18, <1>19, <1>20,
           <1>21, <1>22, <1>23, <1>24, <1>25, <1>26, <1>27, <1>28, <1>29,
           <1>30, <1>31, <1>32, <1>33, <1>34, <1>35, <1>36, <1>37, <1>38,
           <1>39, <1>40, <1>41, <1>42, <1>43, <1>44, <1>45 DEF Next,
           PlayerCalls, PlayerInside, OffloadSteps, DecoderSteps,
           DecoderCommands, Passes

\* The two streams.
LEMMA TracksStep ==
  ASSUME TypeOK, [Next]_vars
  PROVE  TrackTypes'
<1> USE EndTransitionTypes DEF vars, caller, wire, data, history, flags,
        avail, tracks, gapless, TypeOK, TrackTypes, NextStreamId
<1>1. CASE Write
  BY <1>1 DEF Write, Send
<1>2. CASE Pause
  BY <1>2 DEF Pause, SendSync, Send
<1>3. CASE SetDevice
  BY <1>3 DEF SetDevice, SendSync, Send
<1>4. CASE Open
  BY <1>4 DEF Open
<1>5. ASSUME NEW r \in {"drain", "partial"}, CallDrain(r) PROVE TrackTypes'
  BY <1>5 DEF CallDrain
<1>6. ASSUME NEW b \in BOOLEAN, Stop(b) PROVE TrackTypes'
  BY <1>6 DEF Stop, SendSync, Send
<1>7. CASE Start
  BY <1>7 DEF Start, SendSync, Send
<1>8. CASE Resume
  BY <1>8 DEF Resume, SendSync, Send
<1>9. CASE Close
  BY <1>9 DEF Close, SendSync, Send
<1>10. CASE Return
  BY <1>10 DEF Return, Answered
<1>11. CASE Unblocked
  BY <1>11 DEF Unblocked
<1>12. CASE Join
  <2>1. opened' \in [1..2 -> BOOLEAN]
    BY <1>12, NoStream, Zenon DEF Join
  <2>2. client' \in 1..2 /\ cur' \in 1..2 /\ next' \in 0..2
    BY <1>12, StreamIds, Zenon DEF Join
  <2>3. /\ setNext' \in BOOLEAN /\ transition' \in BOOLEAN /\ draining' \in BOOLEAN
        /\ nextStream' \in BOOLEAN /\ streamBreak' \in BOOLEAN
    BY <1>12, Zenon DEF Join
  <2> QED BY <2>1, <2>2, <2>3
<1>13. CASE TakeRequest
  BY <1>13 DEF TakeRequest
<1>14. CASE Finish
  BY <1>14 DEF Finish
<1>15. CASE WaitForBuffer
  BY <1>15 DEF WaitForBuffer
<1>16. CASE Drain
  BY <1>16 DEF Drain, SendSync, Send
<1>17. CASE DrainSent
  BY <1>17 DEF DrainSent, Answered
<1>18. CASE DrainWaits
  BY <1>18 DEF DrainWaits
<1>19. CASE NextTrack
  BY <1>19 DEF NextTrack, OpenNext, Send
<1>20. CASE StreamAvailable
  BY <1>20 DEF StreamAvailable, OpenNext, Send
<1>21. CASE NextTrackSent
  BY <1>21 DEF NextTrackSent, Answered
<1>22. CASE PartialDrain
  BY <1>22 DEF PartialDrain, SendSync, Send
<1>23. CASE PartialDrainSent
  BY <1>23 DEF PartialDrainSent, Answered
<1>24. CASE PartialDrainSleeps
  BY <1>24 DEF PartialDrainSleeps
<1>25. CASE PartialDrainWaited
  BY <1>25 DEF PartialDrainWaited
<1>26. CASE DelayOver
  BY <1>26 DEF DelayOver
<1>27. CASE FlipStream
  BY <1>27 DEF FlipStream
<1>28. CASE DecoderSleeps
  BY <1>28 DEF DecoderSleeps
<1>29. CASE DecoderGoesOn
  BY <1>29 DEF DecoderGoesOn
<1>30. CASE DoStop
  BY <1>30 DEF DoStop, Take, AfterCommand
<1>31. CASE DoStart
  BY <1>31 DEF DoStart, Take, AfterCommand
<1>32. CASE DoPause
  BY <1>32 DEF DoPause, Take, AfterCommand
<1>33. CASE DoChangeDev
  BY <1>33 DEF DoChangeDev, Take, AfterCommand
<1>34. CASE DoResume
  BY <1>34 DEF DoResume, Take, AfterCommand
<1>35. CASE DoNextTrack
  BY <1>35 DEF DoNextTrack, Take, AfterCommand
<1>36. CASE DoNothing
  BY <1>36 DEF DoNothing, Take, AfterCommand
<1>37. CASE DoClose
  BY <1>37 DEF DoClose, Take
<1>38. ASSUME NEW n \in 0..(MaxPcm + 1), NEW given \in 0..MaxPcm,
               PassBusy(n, given)
        PROVE  TrackTypes'
  <2>1. CASE EndTransition
    BY <2>1
  <2>2. CASE UNCHANGED gapless
    BY <2>2
  <2> QED BY <1>38, <2>1, <2>2 DEF PassBusy, PassDecodes, PassFindsNoData, Play
<1>39. ASSUME NEW n \in 0..(MaxPcm + 1), PassDecodes(n) PROVE TrackTypes'
  <2>1. CASE EndTransition
    BY <2>1
  <2>2. CASE UNCHANGED gapless
    BY <2>2
  <2> QED BY <1>39, <2>1, <2>2 DEF PassBusy, PassDecodes, PassFindsNoData, Play
<1>40. ASSUME NEW n \in 0..(MaxPcm + 1), NEW given \in 0..MaxPcm,
               PassFindsNoData(n, given)
        PROVE  TrackTypes'
  <2>1. CASE EndTransition
    BY <2>1
  <2>2. CASE UNCHANGED gapless
    BY <2>2
  <2> QED BY <1>40, <2>1, <2>2 DEF PassBusy, PassDecodes, PassFindsNoData, Play
<1>41. CASE PassFindsEnd
  BY <1>41 DEF PassFindsEnd, OutOfData
<1>42. CASE PassOk
  BY <1>42 DEF PassOk
<1>43. CASE NotifyPartialDrain
  BY <1>43 DEF NotifyPartialDrain
<1>44. CASE NotifyDrain
  BY <1>44 DEF NotifyDrain
<1>45. CASE UNCHANGED vars
  BY <1>45
<1> QED BY <1>1, <1>2, <1>3, <1>4, <1>5, <1>6, <1>7, <1>8, <1>9, <1>10, <1>11,
           <1>12, <1>13, <1>14, <1>15, <1>16, <1>17, <1>18, <1>19, <1>20,
           <1>21, <1>22, <1>23, <1>24, <1>25, <1>26, <1>27, <1>28, <1>29,
           <1>30, <1>31, <1>32, <1>33, <1>34, <1>35, <1>36, <1>37, <1>38,
           <1>39, <1>40, <1>41, <1>42, <1>43, <1>44, <1>45 DEF Next,
           PlayerCalls, PlayerInside, OffloadSteps, DecoderSteps,
           DecoderCommands, Passes

\* The types, from compress_open on ...
LEMMA InitTypes == Init => TypeOK
<1> SUFFICES ASSUME Init PROVE TypeOK
  OBVIOUS
<1>1. ThreadTypes
  <2>1. asked \in Seq(Requests)
    BY DEF Init
  <2> QED BY <2>1 DEF Init, ThreadTypes, PlayerAt, OffloadAt
<1>2. WireTypes
  <2>1. cmds \in Seq(Commands)
    BY DEF Init
  <2> QED BY <2>1 DEF Init, WireTypes, States
<1>3. DataTypes
  <2>1. due = 0 /\ lost = 0
    BY DEF Init
  <2>2. due \in 0..(MaxSrc + MaxPcm) /\ lost \in Nat /\ lost <= due
    BY Sizes, <2>1
  <2> QED BY Sizes, <2>2 DEF Init, DataTypes
<1>4. FlagTypes
  BY DEF Init, FlagTypes
<1>5. TrackTypes
  <2>1. opened \in [1..2 -> BOOLEAN]
    BY NoStream DEF Init
  <2>2. /\ setNext \in BOOLEAN /\ transition \in BOOLEAN /\ draining \in BOOLEAN
        /\ nextStream \in BOOLEAN /\ streamBreak \in BOOLEAN
        /\ client \in 1..2 /\ cur \in 1..2 /\ next \in 0..2
    BY StreamIds, Zenon DEF Init
  <2> QED BY <2>1, <2>2 DEF TrackTypes
<1> QED BY <1>1, <1>2, <1>3, <1>4, <1>5 DEF TypeOK

\* ... and after every step.
LEMMA TypeStep ==
  ASSUME TypeOK, [Next]_vars
  PROVE  TypeOK'
BY ThreadsStep, WireStep, DataStep, FlagsStep, TracksStep DEF TypeOK

-----------------------------------------------------------------------------
\* A thread waits for the answer to the command it has sent ...
Waiting ==
    \/ lock = "player" /\ player # "join"
    \/ lock = "offload" /\ offload \in {"drainSync", "nextSync", "partialSync"}

\* ... which is this one.
Carries(c) ==
    \/ lock = "player" /\ player = c /\ c \in {"start", "pause", "resume", "stop", "close"}
    \/ lock = "player" /\ player = "setDev" /\ c = "changeDev"
    \/ lock = "offload" /\ offload = "drainSync" /\ c = "drain"
    \/ lock = "offload" /\ offload = "nextSync" /\ c = "nextTrack"
    \/ lock = "offload" /\ offload = "partialSync" /\ c = "partialDrain"

\* Who holds compress->lock.
LockHeld ==
    /\ (lock = "player") => player \notin {"idle", "blocked"}
    /\ player \in {"pause", "setDev", "stop", "join"} => lock = "player"
    /\ (lock = "offload") <=> (offload \in {"drainSync", "nextSync", "partialSync", "availSleep", "availWoken"})

\* Every command is sent with compress->lock held, so the one that is waited for
\* is the last of the list, and goes away when it is answered.
CommandLast ==
    /\ posted => Waiting
    /\ Waiting /\ ~posted => Len(cmds) > 0 /\ cmds[Len(cmds)] # "sendData"
    /\ \A i \in 1..Len(cmds) : cmds[i] # "sendData" =>
          i = Len(cmds) /\ Waiting /\ ~posted /\ Carries(cmds[i])

\* The state is written when the command is sent ...
StateOfCall == lock = "player" =>
    /\ player \in {"start", "pause", "resume", "stop"} => state = player
    /\ player \in {"close", "join"} => state = "exit"

\* ... and the device follows when it is answered.
DeviceMatches ==
    \/ lock = "player" /\ player \in {"start", "pause", "resume", "stop"} /\ ~posted
    \/ lock = "player" /\ player \in {"close", "join"}
    \/ isStart <=> state \in {"start", "resume"}

\* The decoder sleeps with an empty list, in a state that does not play.
SleepIsQuiet == decoder = "sleep" => cmds = <<>> /\ state \in {"open", "pause", "stop"}

\* The stop has been sent and not yet taken.
StopComes == player = "stop" /\ lock = "player" /\ ~posted

\* What the HAL believes of the stream between its calls.
HalState ==
    /\ player = "idle" /\ hal = "stopped" => ~Running
    /\ player = "idle" /\ hal = "playing" => state \in {"start", "resume"}
    /\ player = "idle" /\ hal = "paused" => state = "pause"
    /\ player = "pause" => hal = "playing"
    /\ player \in {"setDev", "resume"} => hal = "paused"
    /\ player = "setDev" => state = "pause"
    /\ player = "resume" /\ lock # "player" => state = "pause"
    /\ player = "start" => hal = "stopped"
    /\ player = "start" => state # "closed"
    /\ player = "start" /\ lock # "player" => ~Running
    /\ player \in {"stop", "blocked", "close", "join"} => hal = "stopped"
    /\ player \in {"blocked", "close", "join"} => ~Running
    /\ player \in {"close", "join"} => offload = "idle"

\* A drain that is going to sleep, or does, is in a stream that runs, unless the
\* stop that wakes it is in the list.
DrainAlive ==
    (\/ offload \in {"drainSync", "drainSleep", "partialSync", "partialSleep"}
     \/ offload = "drainCheck" /\ ~drainOk
     \/ offload = "partialCheck" /\ ~partialBreak) => Running \/ StopComes

\* A stop drops what a drain is owed.
DueRuns == (due > 0 => Running \/ StopComes) /\ (player = "start" => due = 0)

\* Data wait in the list of a stream that plays, or is about to be started.
DataRuns == (\E i \in 1..Len(cmds) : cmds[i] = "sendData") => isStart \/ player = "start"

\* An end of data that was seen before the last write is going to be cleared.
NoDataSeen ==
    /\ state = "closed" => src = 0
    /\ (partialOk \/ decoder = "noData") /\ src > 1 =>
        \/ \E i \in 1..Len(cmds) : cmds[i] = "sendData"
        \/ decoder \in {"process", "ok"}
        \/ player = "start" /\ ~(lock = "player" /\ posted)

\* What is owed is still there to be decoded, or to be played, or a drain has
\* lost it.
DueLeft ==
    /\ lost > 0 => DrainCalled \/ offload = "drained"
    /\ offload \in {"drainSync", "drainCheck", "drainSleep"} => due <= src + pcm + lost
    /\ offload \in {"partialSync", "partialCheck", "partialSleep"} => due <= src

\* The end of data that ends a partial drain was seen after its command.
PartialInv ==
    /\ ((offload = "partialSync" /\ posted) \/ offload \in {"partialCheck", "partialSleep"})
          /\ (partialOk \/ decoder = "noData") => due <= 1
    /\ offload \in {"partialWoken", "delay", "flip"} => due <= 1

\* What was written before the drain has been played, but the last frame and
\* what is lost; or the exception.
PlayedOut == early \/ due <= 1 + lost

\* The same of the end of playing.
DrainInv ==
    /\ ((offload = "drainSync" /\ posted) \/ offload \in {"drainCheck", "drainSleep"})
          /\ (drainOk \/ decoder = "noPcm") => PlayedOut
    /\ offload \in {"drainWoken", "drained"} => PlayedOut

\* No start comes between a partial drain and its end.
PartialRuns ==
    offload \in {"partialSync", "partialCheck", "partialSleep", "partialWoken", "delay"} =>
      (Running /\ player # "start") \/ player \in {"stop", "blocked"}

\* The wait of a partial drain.
InPartial == offload \in {"partialCheck", "partialSleep", "partialWoken"}

\* The decoder that notices the end of data also takes down the end of the song.
SongInv ==
    /\ InPartial => draining
    /\ InPartial /\ ~early => partialBreak \/ (setNext /\ ~transition)
    /\ (InPartial /\ ~early /\ ~partialBreak /\ (partialOk \/ decoder = "noData" \/ offload = "partialWoken")) => song # None
    /\ offload = "delay" => ~draining
    /\ offload = "delay" /\ transition /\ ~early => song # None \/ (~isStart /\ player \in {"stop", "blocked"})

-----------------------------------------------------------------------------
\* A request of the framework is one of three.
LEMMA RequestFacts ==
  ASSUME TypeOK, asked # <<>>
  PROVE  Head(asked) \in Requests
BY DEF TypeOK, ThreadTypes

\* What sending does to the list ...
LEMMA SendFacts ==
  ASSUME TypeOK, NEW c \in Commands, Send(c)
  PROVE  /\ decoder' # "sleep"
         /\ decoder' = decoder \/ (decoder = "sleep" /\ decoder' = "top")
         /\ Len(cmds') = Len(cmds) + 1 /\ cmds'[Len(cmds) + 1] = c
         /\ \A i \in 1..Len(cmds) : cmds'[i] = cmds[i]
         /\ \A i \in 1..Len(cmds') : i \in 1..Len(cmds) \/ i = Len(cmds')
<1>1. cmds \in Seq(Commands) /\ cmds' = Append(cmds, c)
  BY DEF TypeOK, WireTypes, Send
<1>2. Len(cmds) \in Nat /\ Len(cmds') = Len(cmds) + 1
  BY <1>1
<1>3. cmds'[Len(cmds) + 1] = c /\ \A i \in 1..Len(cmds) : cmds'[i] = cmds[i]
  BY <1>1
<1> QED BY <1>2, <1>3 DEF Send

\* ... and what taking does: a command that is waited for empties it.
LEMMA TakeFacts ==
  ASSUME TypeOK, CommandLast, NEW c, Take(c)
  PROVE  /\ decoder = "top" /\ lock' = lock /\ state' = state
         /\ Len(cmds') = Len(cmds) - 1 /\ Len(cmds) > 0 /\ cmds[1] = c
         /\ \A i \in 1..Len(cmds') : i + 1 \in 1..Len(cmds) /\ cmds'[i] = cmds[i + 1]
         /\ c = "sendData" => posted' = posted
         /\ c # "sendData" => posted' /\ cmds' = <<>> /\ Waiting /\ ~posted /\ Carries(c)
<1>1. cmds \in Seq(Commands) /\ cmds # <<>> /\ cmds' = Tail(cmds) /\ c = cmds[1]
  BY DEF TypeOK, WireTypes, Take
<1>2. Len(cmds) \in Nat /\ Len(cmds) > 0 /\ Len(cmds') = Len(cmds) - 1
  BY <1>1
<1>3. \A i \in 1..Len(cmds') : i + 1 \in 1..Len(cmds) /\ cmds'[i] = cmds[i + 1]
  BY <1>1, <1>2
<1>4. ASSUME c # "sendData" PROVE posted' /\ cmds' = <<>> /\ Waiting /\ ~posted /\ Carries(c)
  <2>0. 1 \in 1..Len(cmds)
    BY <1>2
  <2>1. Len(cmds) = 1 /\ Waiting /\ ~posted /\ Carries(c)
    BY <1>1, <2>0, <1>4 DEF CommandLast
  <2>2. cmds' = <<>>
    BY <1>1, <1>2, <2>1
  <2> QED BY <1>4, <2>1, <2>2 DEF Take
<1> QED BY <1>1, <1>2, <1>3, <1>4 DEF Take, TypeOK, WireTypes

\* compress->lock is taken and released in pairs.
LEMMA LockStep ==
  ASSUME TypeOK, LockHeld, [Next]_vars
  PROVE  LockHeld'
<1> USE RequestFacts DEF vars, caller, wire, data, history, flags, avail,
        tracks, gapless, TypeOK, ThreadTypes, WireTypes, LockHeld
<1>1. CASE Write
  BY <1>1 DEF Write
<1>2. CASE Pause
  BY <1>2 DEF Pause, SendSync
<1>3. CASE SetDevice
  BY <1>3 DEF SetDevice, SendSync
<1>4. CASE Open
  BY <1>4 DEF Open
<1>5. ASSUME NEW r \in {"drain", "partial"}, CallDrain(r) PROVE LockHeld'
  BY <1>5 DEF CallDrain
<1>6. ASSUME NEW b \in BOOLEAN, Stop(b) PROVE LockHeld'
  BY <1>6 DEF Stop, SendSync
<1>7. CASE Start
  BY <1>7 DEF Start, SendSync
<1>8. CASE Resume
  BY <1>8 DEF Resume, SendSync
<1>9. CASE Close
  BY <1>9 DEF Close, SendSync
<1>10. CASE Return
  BY <1>10 DEF Return, Answered
<1>11. CASE Unblocked
  BY <1>11 DEF Unblocked
<1>12. CASE Join
  BY <1>12 DEF Join
<1>13. CASE TakeRequest
  BY <1>13 DEF TakeRequest, Requests
<1>14. CASE Finish
  BY <1>14 DEF Finish
<1>15. CASE WaitForBuffer
  BY <1>15 DEF WaitForBuffer
<1>16. CASE Drain
  BY <1>16 DEF Drain, SendSync
<1>17. CASE DrainSent
  BY <1>17 DEF DrainSent, Answered
<1>18. CASE DrainWaits
  BY <1>18 DEF DrainWaits
<1>19. CASE NextTrack
  BY <1>19 DEF NextTrack, OpenNext
<1>20. CASE StreamAvailable
  BY <1>20 DEF StreamAvailable, OpenNext
<1>21. CASE NextTrackSent
  BY <1>21 DEF NextTrackSent, Answered
<1>22. CASE PartialDrain
  BY <1>22 DEF PartialDrain, SendSync
<1>23. CASE PartialDrainSent
  BY <1>23 DEF PartialDrainSent, Answered
<1>24. CASE PartialDrainSleeps
  BY <1>24 DEF PartialDrainSleeps
<1>25. CASE PartialDrainWaited
  BY <1>25 DEF PartialDrainWaited
<1>26. CASE DelayOver
  BY <1>26 DEF DelayOver
<1>27. CASE FlipStream
  BY <1>27 DEF FlipStream
<1>28. CASE DecoderSleeps
  BY <1>28 DEF DecoderSleeps
<1>29. CASE DecoderGoesOn
  BY <1>29 DEF DecoderGoesOn
<1>30. CASE DoStop
  BY <1>30 DEF DoStop, AfterCommand, Take
<1>31. CASE DoStart
  BY <1>31 DEF DoStart, AfterCommand, Take
<1>32. CASE DoPause
  BY <1>32 DEF DoPause, AfterCommand, Take
<1>33. CASE DoChangeDev
  BY <1>33 DEF DoChangeDev, AfterCommand, Take
<1>34. CASE DoResume
  BY <1>34 DEF DoResume, AfterCommand, Take
<1>35. CASE DoNextTrack
  BY <1>35 DEF DoNextTrack, AfterCommand, Take
<1>36. CASE DoNothing
  BY <1>36 DEF DoNothing, AfterCommand, Take
<1>37. CASE DoClose
  BY <1>37 DEF DoClose, Take
<1>38. ASSUME NEW n \in 0..(MaxPcm + 1), NEW given \in 0..MaxPcm,
               PassBusy(n, given)
        PROVE  LockHeld'
  BY <1>38 DEF PassBusy, Play, Moves
<1>39. ASSUME NEW n \in 0..(MaxPcm + 1), PassDecodes(n) PROVE LockHeld'
  BY <1>39 DEF PassDecodes, Play, Moves
<1>40. ASSUME NEW n \in 0..(MaxPcm + 1), NEW given \in 0..MaxPcm,
               PassFindsNoData(n, given)
        PROVE  LockHeld'
  BY <1>40 DEF PassFindsNoData, OutOfData, Reopens, Play, Moves
<1>41. CASE PassFindsEnd
  BY <1>41 DEF PassFindsEnd, OutOfData
<1>42. CASE PassOk
  BY <1>42 DEF PassOk
<1>43. CASE NotifyPartialDrain
  BY <1>43 DEF NotifyPartialDrain
<1>44. CASE NotifyDrain
  BY <1>44 DEF NotifyDrain
<1>45. CASE UNCHANGED vars
  BY <1>45
<1> QED BY <1>1, <1>2, <1>3, <1>4, <1>5, <1>6, <1>7, <1>8, <1>9, <1>10, <1>11,
           <1>12, <1>13, <1>14, <1>15, <1>16, <1>17, <1>18, <1>19, <1>20,
           <1>21, <1>22, <1>23, <1>24, <1>25, <1>26, <1>27, <1>28, <1>29,
           <1>30, <1>31, <1>32, <1>33, <1>34, <1>35, <1>36, <1>37, <1>38,
           <1>39, <1>40, <1>41, <1>42, <1>43, <1>44, <1>45 DEF Next,
           PlayerCalls, PlayerInside, OffloadSteps, DecoderSteps,
           DecoderCommands, Passes

\* The command that is waited for is the last one.
LEMMA CommandStep ==
  ASSUME TypeOK, LockHeld, CommandLast, [Next]_vars
  PROVE  CommandLast'
<1> USE SendFacts, TakeFacts DEF vars, caller, wire, data, history, flags,
        avail, tracks, gapless, TypeOK, ThreadTypes, WireTypes, LockHeld,
        CommandLast, Waiting, Carries, Commands
<1>1. CASE Write
  BY <1>1 DEF Write
<1>2. CASE Pause
  BY <1>2 DEF Pause, SendSync
<1>3. CASE SetDevice
  BY <1>3 DEF SetDevice, SendSync
<1>4. CASE Open
  BY <1>4 DEF Open
<1>5. ASSUME NEW r \in {"drain", "partial"}, CallDrain(r) PROVE CommandLast'
  BY <1>5 DEF CallDrain
<1>6. ASSUME NEW b \in BOOLEAN, Stop(b) PROVE CommandLast'
  BY <1>6 DEF Stop, SendSync
<1>7. CASE Start
  BY <1>7 DEF Start, SendSync
<1>8. CASE Resume
  BY <1>8 DEF Resume, SendSync
<1>9. CASE Close
  BY <1>9 DEF Close, SendSync
<1>10. CASE Return
  BY <1>10 DEF Return, Answered
<1>11. CASE Unblocked
  BY <1>11 DEF Unblocked
<1>12. CASE Join
  BY <1>12 DEF Join
<1>13. CASE TakeRequest
  BY <1>13 DEF TakeRequest, Requests
<1>14. CASE Finish
  BY <1>14 DEF Finish
<1>15. CASE WaitForBuffer
  BY <1>15 DEF WaitForBuffer
<1>16. CASE Drain
  BY <1>16 DEF Drain, SendSync
<1>17. CASE DrainSent
  BY <1>17 DEF DrainSent, Answered
<1>18. CASE DrainWaits
  BY <1>18 DEF DrainWaits
<1>19. CASE NextTrack
  BY <1>19 DEF NextTrack, OpenNext
<1>20. CASE StreamAvailable
  BY <1>20 DEF StreamAvailable, OpenNext
<1>21. CASE NextTrackSent
  BY <1>21 DEF NextTrackSent, Answered
<1>22. CASE PartialDrain
  BY <1>22 DEF PartialDrain, SendSync
<1>23. CASE PartialDrainSent
  BY <1>23 DEF PartialDrainSent, Answered
<1>24. CASE PartialDrainSleeps
  BY <1>24 DEF PartialDrainSleeps
<1>25. CASE PartialDrainWaited
  BY <1>25 DEF PartialDrainWaited
<1>26. CASE DelayOver
  BY <1>26 DEF DelayOver
<1>27. CASE FlipStream
  BY <1>27 DEF FlipStream
<1>28. CASE DecoderSleeps
  BY <1>28 DEF DecoderSleeps
<1>29. CASE DecoderGoesOn
  BY <1>29 DEF DecoderGoesOn
<1>30. CASE DoStop
  BY <1>30 DEF DoStop, AfterCommand
<1>31. CASE DoStart
  BY <1>31 DEF DoStart, AfterCommand
<1>32. CASE DoPause
  BY <1>32 DEF DoPause, AfterCommand
<1>33. CASE DoChangeDev
  BY <1>33 DEF DoChangeDev, AfterCommand
<1>34. CASE DoResume
  BY <1>34 DEF DoResume, AfterCommand
<1>35. CASE DoNextTrack
  BY <1>35 DEF DoNextTrack, AfterCommand
<1>36. CASE DoNothing
  <2>1. PICK c \in {"drain", "partialDrain", "sendData"} : Take(c)
    BY <1>36 DEF DoNothing
  <2>2. CASE c = "sendData"
    BY <1>36, <2>1, <2>2, SMTT(60) DEF DoNothing, AfterCommand
  <2>3. CASE c # "sendData"
    BY <1>36, <2>1, <2>3 DEF DoNothing, AfterCommand
  <2> QED BY <2>2, <2>3
<1>37. CASE DoClose
  BY <1>37 DEF DoClose
<1>38. ASSUME NEW n \in 0..(MaxPcm + 1), NEW given \in 0..MaxPcm,
               PassBusy(n, given)
        PROVE  CommandLast'
  BY <1>38 DEF PassBusy, Play, Moves
<1>39. ASSUME NEW n \in 0..(MaxPcm + 1), PassDecodes(n) PROVE CommandLast'
  BY <1>39 DEF PassDecodes, Play, Moves
<1>40. ASSUME NEW n \in 0..(MaxPcm + 1), NEW given \in 0..MaxPcm,
               PassFindsNoData(n, given)
        PROVE  CommandLast'
  BY <1>40 DEF PassFindsNoData, OutOfData, Reopens, Play, Moves
<1>41. CASE PassFindsEnd
  BY <1>41 DEF PassFindsEnd, OutOfData
<1>42. CASE PassOk
  BY <1>42 DEF PassOk
<1>43. CASE NotifyPartialDrain
  BY <1>43 DEF NotifyPartialDrain
<1>44. CASE NotifyDrain
  BY <1>44 DEF NotifyDrain
<1>45. CASE UNCHANGED vars
  BY <1>45
<1> QED BY <1>1, <1>2, <1>3, <1>4, <1>5, <1>6, <1>7, <1>8, <1>9, <1>10, <1>11,
           <1>12, <1>13, <1>14, <1>15, <1>16, <1>17, <1>18, <1>19, <1>20,
           <1>21, <1>22, <1>23, <1>24, <1>25, <1>26, <1>27, <1>28, <1>29,
           <1>30, <1>31, <1>32, <1>33, <1>34, <1>35, <1>36, <1>37, <1>38,
           <1>39, <1>40, <1>41, <1>42, <1>43, <1>44, <1>45 DEF Next,
           PlayerCalls, PlayerInside, OffloadSteps, DecoderSteps,
           DecoderCommands, Passes

\* The state is the one of the command.
LEMMA CallStep ==
  ASSUME TypeOK, LockHeld, StateOfCall, [Next]_vars
  PROVE  StateOfCall'
<1> USE DEF vars, caller, wire, data, history, flags, avail, tracks, gapless,
        TypeOK, ThreadTypes, WireTypes, LockHeld, StateOfCall
<1>1. CASE Write
  BY <1>1 DEF Write
<1>2. CASE Pause
  BY <1>2 DEF Pause, SendSync
<1>3. CASE SetDevice
  BY <1>3 DEF SetDevice, SendSync
<1>4. CASE Open
  BY <1>4 DEF Open
<1>5. ASSUME NEW r \in {"drain", "partial"}, CallDrain(r) PROVE StateOfCall'
  BY <1>5 DEF CallDrain
<1>6. ASSUME NEW b \in BOOLEAN, Stop(b) PROVE StateOfCall'
  BY <1>6 DEF Stop, SendSync
<1>7. CASE Start
  BY <1>7 DEF Start, SendSync
<1>8. CASE Resume
  BY <1>8 DEF Resume, SendSync
<1>9. CASE Close
  BY <1>9 DEF Close, SendSync
<1>10. CASE Return
  BY <1>10 DEF Return, Answered
<1>11. CASE Unblocked
  BY <1>11 DEF Unblocked
<1>12. CASE Join
  BY <1>12 DEF Join
<1>13. CASE TakeRequest
  BY <1>13 DEF TakeRequest, Requests
<1>14. CASE Finish
  BY <1>14 DEF Finish
<1>15. CASE WaitForBuffer
  BY <1>15 DEF WaitForBuffer
<1>16. CASE Drain
  BY <1>16 DEF Drain, SendSync
<1>17. CASE DrainSent
  BY <1>17 DEF DrainSent, Answered
<1>18. CASE DrainWaits
  BY <1>18 DEF DrainWaits
<1>19. CASE NextTrack
  BY <1>19 DEF NextTrack, OpenNext
<1>20. CASE StreamAvailable
  BY <1>20 DEF StreamAvailable, OpenNext
<1>21. CASE NextTrackSent
  BY <1>21 DEF NextTrackSent, Answered
<1>22. CASE PartialDrain
  BY <1>22 DEF PartialDrain, SendSync
<1>23. CASE PartialDrainSent
  BY <1>23 DEF PartialDrainSent, Answered
<1>24. CASE PartialDrainSleeps
  BY <1>24 DEF PartialDrainSleeps
<1>25. CASE PartialDrainWaited
  BY <1>25 DEF PartialDrainWaited
<1>26. CASE DelayOver
  BY <1>26 DEF DelayOver
<1>27. CASE FlipStream
  BY <1>27 DEF FlipStream
<1>28. CASE DecoderSleeps
  BY <1>28 DEF DecoderSleeps
<1>29. CASE DecoderGoesOn
  BY <1>29 DEF DecoderGoesOn
<1>30. CASE DoStop
  BY <1>30 DEF DoStop, AfterCommand, Take
<1>31. CASE DoStart
  BY <1>31 DEF DoStart, AfterCommand, Take
<1>32. CASE DoPause
  BY <1>32 DEF DoPause, AfterCommand, Take
<1>33. CASE DoChangeDev
  BY <1>33 DEF DoChangeDev, AfterCommand, Take
<1>34. CASE DoResume
  BY <1>34 DEF DoResume, AfterCommand, Take
<1>35. CASE DoNextTrack
  BY <1>35 DEF DoNextTrack, AfterCommand, Take
<1>36. CASE DoNothing
  BY <1>36 DEF DoNothing, AfterCommand, Take
<1>37. CASE DoClose
  BY <1>37 DEF DoClose, Take
<1>38. ASSUME NEW n \in 0..(MaxPcm + 1), NEW given \in 0..MaxPcm,
               PassBusy(n, given)
        PROVE  StateOfCall'
  BY <1>38 DEF PassBusy, Play, Moves
<1>39. ASSUME NEW n \in 0..(MaxPcm + 1), PassDecodes(n) PROVE StateOfCall'
  BY <1>39 DEF PassDecodes, Play, Moves
<1>40. ASSUME NEW n \in 0..(MaxPcm + 1), NEW given \in 0..MaxPcm,
               PassFindsNoData(n, given)
        PROVE  StateOfCall'
  BY <1>40 DEF PassFindsNoData, OutOfData, Reopens, Play, Moves
<1>41. CASE PassFindsEnd
  BY <1>41 DEF PassFindsEnd, OutOfData
<1>42. CASE PassOk
  BY <1>42 DEF PassOk
<1>43. CASE NotifyPartialDrain
  BY <1>43 DEF NotifyPartialDrain
<1>44. CASE NotifyDrain
  BY <1>44 DEF NotifyDrain
<1>45. CASE UNCHANGED vars
  BY <1>45
<1> QED BY <1>1, <1>2, <1>3, <1>4, <1>5, <1>6, <1>7, <1>8, <1>9, <1>10, <1>11,
           <1>12, <1>13, <1>14, <1>15, <1>16, <1>17, <1>18, <1>19, <1>20,
           <1>21, <1>22, <1>23, <1>24, <1>25, <1>26, <1>27, <1>28, <1>29,
           <1>30, <1>31, <1>32, <1>33, <1>34, <1>35, <1>36, <1>37, <1>38,
           <1>39, <1>40, <1>41, <1>42, <1>43, <1>44, <1>45 DEF Next,
           PlayerCalls, PlayerInside, OffloadSteps, DecoderSteps,
           DecoderCommands, Passes

\* The device follows the state.
LEMMA DeviceStep ==
  ASSUME TypeOK, LockHeld, CommandLast, StateOfCall, DeviceMatches,
         [Next]_vars
  PROVE  DeviceMatches'
<1> USE TakeFacts DEF vars, caller, wire, data, history, flags, avail, tracks,
        gapless, TypeOK, ThreadTypes, WireTypes, Waiting, Carries, LockHeld,
        CommandLast, StateOfCall, DeviceMatches, Running
<1>1. CASE Write
  BY <1>1 DEF Write
<1>2. CASE Pause
  BY <1>2 DEF Pause, SendSync
<1>3. CASE SetDevice
  BY <1>3 DEF SetDevice, SendSync
<1>4. CASE Open
  BY <1>4 DEF Open
<1>5. ASSUME NEW r \in {"drain", "partial"}, CallDrain(r) PROVE DeviceMatches'
  BY <1>5 DEF CallDrain
<1>6. ASSUME NEW b \in BOOLEAN, Stop(b) PROVE DeviceMatches'
  BY <1>6 DEF Stop, SendSync
<1>7. CASE Start
  BY <1>7 DEF Start, SendSync
<1>8. CASE Resume
  BY <1>8 DEF Resume, SendSync
<1>9. CASE Close
  BY <1>9 DEF Close, SendSync
<1>10. CASE Return
  BY <1>10 DEF Return, Answered
<1>11. CASE Unblocked
  BY <1>11 DEF Unblocked
<1>12. CASE Join
  BY <1>12 DEF Join
<1>13. CASE TakeRequest
  BY <1>13 DEF TakeRequest, Requests
<1>14. CASE Finish
  BY <1>14 DEF Finish
<1>15. CASE WaitForBuffer
  BY <1>15 DEF WaitForBuffer
<1>16. CASE Drain
  BY <1>16 DEF Drain, SendSync
<1>17. CASE DrainSent
  BY <1>17 DEF DrainSent, Answered
<1>18. CASE DrainWaits
  BY <1>18 DEF DrainWaits
<1>19. CASE NextTrack
  BY <1>19 DEF NextTrack, OpenNext
<1>20. CASE StreamAvailable
  BY <1>20 DEF StreamAvailable, OpenNext
<1>21. CASE NextTrackSent
  BY <1>21 DEF NextTrackSent, Answered
<1>22. CASE PartialDrain
  BY <1>22 DEF PartialDrain, SendSync
<1>23. CASE PartialDrainSent
  BY <1>23 DEF PartialDrainSent, Answered
<1>24. CASE PartialDrainSleeps
  BY <1>24 DEF PartialDrainSleeps
<1>25. CASE PartialDrainWaited
  BY <1>25 DEF PartialDrainWaited
<1>26. CASE DelayOver
  BY <1>26 DEF DelayOver
<1>27. CASE FlipStream
  BY <1>27 DEF FlipStream
<1>28. CASE DecoderSleeps
  BY <1>28 DEF DecoderSleeps
<1>29. CASE DecoderGoesOn
  BY <1>29 DEF DecoderGoesOn
<1>30. CASE DoStop
  BY <1>30 DEF DoStop, AfterCommand
<1>31. CASE DoStart
  BY <1>31 DEF DoStart, AfterCommand
<1>32. CASE DoPause
  BY <1>32 DEF DoPause, AfterCommand
<1>33. CASE DoChangeDev
  BY <1>33 DEF DoChangeDev, AfterCommand
<1>34. CASE DoResume
  BY <1>34 DEF DoResume, AfterCommand
<1>35. CASE DoNextTrack
  BY <1>35 DEF DoNextTrack, AfterCommand
<1>36. CASE DoNothing
  <2>1. PICK c \in {"drain", "partialDrain", "sendData"} : Take(c)
    BY <1>36 DEF DoNothing
  <2>2. CASE c = "sendData"
    BY <1>36, <2>1, <2>2 DEF DoNothing, AfterCommand
  <2>3. CASE c # "sendData"
    BY <1>36, <2>1, <2>3 DEF DoNothing, AfterCommand
  <2> QED BY <2>2, <2>3
<1>37. CASE DoClose
  BY <1>37 DEF DoClose
<1>38. ASSUME NEW n \in 0..(MaxPcm + 1), NEW given \in 0..MaxPcm,
               PassBusy(n, given)
        PROVE  DeviceMatches'
  BY <1>38 DEF PassBusy, Play, Moves
<1>39. ASSUME NEW n \in 0..(MaxPcm + 1), PassDecodes(n) PROVE DeviceMatches'
  BY <1>39 DEF PassDecodes, Play, Moves
<1>40. ASSUME NEW n \in 0..(MaxPcm + 1), NEW given \in 0..MaxPcm,
               PassFindsNoData(n, given)
        PROVE  DeviceMatches'
  BY <1>40 DEF PassFindsNoData, OutOfData, Reopens, Play, Moves
<1>41. CASE PassFindsEnd
  BY <1>41 DEF PassFindsEnd, OutOfData
<1>42. CASE PassOk
  BY <1>42 DEF PassOk
<1>43. CASE NotifyPartialDrain
  BY <1>43 DEF NotifyPartialDrain
<1>44. CASE NotifyDrain
  BY <1>44 DEF NotifyDrain
<1>45. CASE UNCHANGED vars
  BY <1>45
<1> QED BY <1>1, <1>2, <1>3, <1>4, <1>5, <1>6, <1>7, <1>8, <1>9, <1>10, <1>11,
           <1>12, <1>13, <1>14, <1>15, <1>16, <1>17, <1>18, <1>19, <1>20,
           <1>21, <1>22, <1>23, <1>24, <1>25, <1>26, <1>27, <1>28, <1>29,
           <1>30, <1>31, <1>32, <1>33, <1>34, <1>35, <1>36, <1>37, <1>38,
           <1>39, <1>40, <1>41, <1>42, <1>43, <1>44, <1>45 DEF Next,
           PlayerCalls, PlayerInside, OffloadSteps, DecoderSteps,
           DecoderCommands, Passes

\* The decoder wakes up for every command.
LEMMA SleepStep ==
  ASSUME TypeOK, CommandLast, SleepIsQuiet, [Next]_vars
  PROVE  SleepIsQuiet'
<1> USE SendFacts, TakeFacts DEF vars, caller, wire, data, history, flags,
        avail, tracks, gapless, TypeOK, ThreadTypes, WireTypes, SleepIsQuiet,
        Commands
<1>1. CASE Write
  BY <1>1 DEF Write
<1>2. CASE Pause
  BY <1>2 DEF Pause, SendSync
<1>3. CASE SetDevice
  BY <1>3 DEF SetDevice, SendSync
<1>4. CASE Open
  BY <1>4 DEF Open
<1>5. ASSUME NEW r \in {"drain", "partial"}, CallDrain(r) PROVE SleepIsQuiet'
  BY <1>5 DEF CallDrain
<1>6. ASSUME NEW b \in BOOLEAN, Stop(b) PROVE SleepIsQuiet'
  BY <1>6 DEF Stop, SendSync
<1>7. CASE Start
  BY <1>7 DEF Start, SendSync
<1>8. CASE Resume
  BY <1>8 DEF Resume, SendSync
<1>9. CASE Close
  BY <1>9 DEF Close, SendSync
<1>10. CASE Return
  BY <1>10 DEF Return, Answered
<1>11. CASE Unblocked
  BY <1>11 DEF Unblocked
<1>12. CASE Join
  BY <1>12 DEF Join
<1>13. CASE TakeRequest
  BY <1>13 DEF TakeRequest, Requests
<1>14. CASE Finish
  BY <1>14 DEF Finish
<1>15. CASE WaitForBuffer
  BY <1>15 DEF WaitForBuffer
<1>16. CASE Drain
  BY <1>16 DEF Drain, SendSync
<1>17. CASE DrainSent
  BY <1>17 DEF DrainSent, Answered
<1>18. CASE DrainWaits
  BY <1>18 DEF DrainWaits
<1>19. CASE NextTrack
  BY <1>19 DEF NextTrack, OpenNext
<1>20. CASE StreamAvailable
  BY <1>20 DEF StreamAvailable, OpenNext
<1>21. CASE NextTrackSent
  BY <1>21 DEF NextTrackSent, Answered
<1>22. CASE PartialDrain
  BY <1>22 DEF PartialDrain, SendSync
<1>23. CASE PartialDrainSent
  BY <1>23 DEF PartialDrainSent, Answered
<1>24. CASE PartialDrainSleeps
  BY <1>24 DEF PartialDrainSleeps
<1>25. CASE PartialDrainWaited
  BY <1>25 DEF PartialDrainWaited
<1>26. CASE DelayOver
  BY <1>26 DEF DelayOver
<1>27. CASE FlipStream
  BY <1>27 DEF FlipStream
<1>28. CASE DecoderSleeps
  BY <1>28 DEF DecoderSleeps
<1>29. CASE DecoderGoesOn
  BY <1>29 DEF DecoderGoesOn
<1>30. CASE DoStop
  BY <1>30 DEF DoStop, AfterCommand
<1>31. CASE DoStart
  BY <1>31 DEF DoStart, AfterCommand
<1>32. CASE DoPause
  BY <1>32 DEF DoPause, AfterCommand
<1>33. CASE DoChangeDev
  BY <1>33 DEF DoChangeDev, AfterCommand
<1>34. CASE DoResume
  BY <1>34 DEF DoResume, AfterCommand
<1>35. CASE DoNextTrack
  BY <1>35 DEF DoNextTrack, AfterCommand
<1>36. CASE DoNothing
  <2>1. PICK c \in {"drain", "partialDrain", "sendData"} : Take(c)
    BY <1>36 DEF DoNothing
  <2>2. CASE c = "sendData"
    BY <1>36, <2>1, <2>2 DEF DoNothing, AfterCommand
  <2>3. CASE c # "sendData"
    BY <1>36, <2>1, <2>3 DEF DoNothing, AfterCommand
  <2> QED BY <2>2, <2>3
<1>37. CASE DoClose
  BY <1>37 DEF DoClose
<1>38. ASSUME NEW n \in 0..(MaxPcm + 1), NEW given \in 0..MaxPcm,
               PassBusy(n, given)
        PROVE  SleepIsQuiet'
  BY <1>38 DEF PassBusy, Play, Moves
<1>39. ASSUME NEW n \in 0..(MaxPcm + 1), PassDecodes(n) PROVE SleepIsQuiet'
  BY <1>39 DEF PassDecodes, Play, Moves
<1>40. ASSUME NEW n \in 0..(MaxPcm + 1), NEW given \in 0..MaxPcm,
               PassFindsNoData(n, given)
        PROVE  SleepIsQuiet'
  BY <1>40 DEF PassFindsNoData, OutOfData, Reopens, Play, Moves
<1>41. CASE PassFindsEnd
  BY <1>41 DEF PassFindsEnd, OutOfData
<1>42. CASE PassOk
  BY <1>42 DEF PassOk
<1>43. CASE NotifyPartialDrain
  BY <1>43 DEF NotifyPartialDrain
<1>44. CASE NotifyDrain
  BY <1>44 DEF NotifyDrain
<1>45. CASE UNCHANGED vars
  BY <1>45
<1> QED BY <1>1, <1>2, <1>3, <1>4, <1>5, <1>6, <1>7, <1>8, <1>9, <1>10, <1>11,
           <1>12, <1>13, <1>14, <1>15, <1>16, <1>17, <1>18, <1>19, <1>20,
           <1>21, <1>22, <1>23, <1>24, <1>25, <1>26, <1>27, <1>28, <1>29,
           <1>30, <1>31, <1>32, <1>33, <1>34, <1>35, <1>36, <1>37, <1>38,
           <1>39, <1>40, <1>41, <1>42, <1>43, <1>44, <1>45 DEF Next,
           PlayerCalls, PlayerInside, OffloadSteps, DecoderSteps,
           DecoderCommands, Passes

\* The HAL knows whether the stream runs.
LEMMA HalStep ==
  ASSUME TypeOK, LockHeld, StateOfCall, HalState, [Next]_vars
  PROVE  HalState'
<1> USE DEF vars, caller, wire, data, history, flags, avail, tracks, gapless,
        TypeOK, ThreadTypes, WireTypes, LockHeld, StateOfCall, HalState,
        Running
<1>1. CASE Write
  BY <1>1 DEF Write
<1>2. CASE Pause
  BY <1>2 DEF Pause, SendSync
<1>3. CASE SetDevice
  BY <1>3 DEF SetDevice, SendSync
<1>4. CASE Open
  BY <1>4 DEF Open
<1>5. ASSUME NEW r \in {"drain", "partial"}, CallDrain(r) PROVE HalState'
  BY <1>5 DEF CallDrain
<1>6. ASSUME NEW b \in BOOLEAN, Stop(b) PROVE HalState'
  BY <1>6 DEF Stop, SendSync
<1>7. CASE Start
  BY <1>7 DEF Start, SendSync
<1>8. CASE Resume
  BY <1>8 DEF Resume, SendSync
<1>9. CASE Close
  BY <1>9 DEF Close, SendSync
<1>10. CASE Return
  <2>1. CASE player = "start"
    BY <1>10, <2>1 DEF Return, Answered
  <2>2. CASE player = "pause"
    BY <1>10, <2>2 DEF Return, Answered
  <2>3. CASE player = "setDev"
    BY <1>10, <2>3 DEF Return, Answered
  <2>4. CASE player = "resume"
    BY <1>10, <2>4 DEF Return, Answered
  <2>5. CASE player = "stop"
    BY <1>10, <2>5 DEF Return, Answered
  <2>6. CASE player = "close"
    BY <1>10, <2>6 DEF Return, Answered
  <2> QED BY <1>10, <2>1, <2>2, <2>3, <2>4, <2>5, <2>6 DEF Return, PlayerAt
<1>11. CASE Unblocked
  BY <1>11 DEF Unblocked
<1>12. CASE Join
  BY <1>12 DEF Join
<1>13. CASE TakeRequest
  BY <1>13 DEF TakeRequest, Requests, OutLockFree
<1>14. CASE Finish
  BY <1>14 DEF Finish
<1>15. CASE WaitForBuffer
  BY <1>15 DEF WaitForBuffer
<1>16. CASE Drain
  BY <1>16 DEF Drain, SendSync
<1>17. CASE DrainSent
  BY <1>17 DEF DrainSent, Answered
<1>18. CASE DrainWaits
  BY <1>18 DEF DrainWaits
<1>19. CASE NextTrack
  BY <1>19 DEF NextTrack, OpenNext
<1>20. CASE StreamAvailable
  BY <1>20 DEF StreamAvailable, OpenNext
<1>21. CASE NextTrackSent
  BY <1>21 DEF NextTrackSent, Answered
<1>22. CASE PartialDrain
  BY <1>22 DEF PartialDrain, SendSync
<1>23. CASE PartialDrainSent
  BY <1>23 DEF PartialDrainSent, Answered
<1>24. CASE PartialDrainSleeps
  BY <1>24 DEF PartialDrainSleeps
<1>25. CASE PartialDrainWaited
  BY <1>25 DEF PartialDrainWaited
<1>26. CASE DelayOver
  BY <1>26 DEF DelayOver
<1>27. CASE FlipStream
  BY <1>27 DEF FlipStream
<1>28. CASE DecoderSleeps
  BY <1>28 DEF DecoderSleeps
<1>29. CASE DecoderGoesOn
  BY <1>29 DEF DecoderGoesOn
<1>30. CASE DoStop
  BY <1>30 DEF DoStop, AfterCommand, Take
<1>31. CASE DoStart
  BY <1>31 DEF DoStart, AfterCommand, Take
<1>32. CASE DoPause
  BY <1>32 DEF DoPause, AfterCommand, Take
<1>33. CASE DoChangeDev
  BY <1>33 DEF DoChangeDev, AfterCommand, Take
<1>34. CASE DoResume
  BY <1>34 DEF DoResume, AfterCommand, Take
<1>35. CASE DoNextTrack
  BY <1>35 DEF DoNextTrack, AfterCommand, Take
<1>36. CASE DoNothing
  BY <1>36 DEF DoNothing, AfterCommand, Take
<1>37. CASE DoClose
  BY <1>37 DEF DoClose, Take
<1>38. ASSUME NEW n \in 0..(MaxPcm + 1), NEW given \in 0..MaxPcm,
               PassBusy(n, given)
        PROVE  HalState'
  BY <1>38 DEF PassBusy, Play, Moves
<1>39. ASSUME NEW n \in 0..(MaxPcm + 1), PassDecodes(n) PROVE HalState'
  BY <1>39 DEF PassDecodes, Play, Moves
<1>40. ASSUME NEW n \in 0..(MaxPcm + 1), NEW given \in 0..MaxPcm,
               PassFindsNoData(n, given)
        PROVE  HalState'
  BY <1>40 DEF PassFindsNoData, OutOfData, Reopens, Play, Moves
<1>41. CASE PassFindsEnd
  BY <1>41 DEF PassFindsEnd, OutOfData
<1>42. CASE PassOk
  BY <1>42 DEF PassOk
<1>43. CASE NotifyPartialDrain
  BY <1>43 DEF NotifyPartialDrain
<1>44. CASE NotifyDrain
  BY <1>44 DEF NotifyDrain
<1>45. CASE UNCHANGED vars
  BY <1>45
<1> QED BY <1>1, <1>2, <1>3, <1>4, <1>5, <1>6, <1>7, <1>8, <1>9, <1>10, <1>11,
           <1>12, <1>13, <1>14, <1>15, <1>16, <1>17, <1>18, <1>19, <1>20,
           <1>21, <1>22, <1>23, <1>24, <1>25, <1>26, <1>27, <1>28, <1>29,
           <1>30, <1>31, <1>32, <1>33, <1>34, <1>35, <1>36, <1>37, <1>38,
           <1>39, <1>40, <1>41, <1>42, <1>43, <1>44, <1>45 DEF Next,
           PlayerCalls, PlayerInside, OffloadSteps, DecoderSteps,
           DecoderCommands, Passes

\* Drains sleep in streams that run.
LEMMA AliveStep ==
  ASSUME TypeOK, LockHeld, CommandLast, StateOfCall, HalState, DrainAlive,
         [Next]_vars
  PROVE  DrainAlive'
<1> USE TakeFacts DEF vars, caller, wire, data, history, flags, avail, tracks,
        gapless, TypeOK, ThreadTypes, WireTypes, FlagTypes, Waiting, Carries,
        LockHeld, CommandLast, StateOfCall, HalState, DrainAlive, StopComes,
        Running
<1>1. CASE Write
  BY <1>1 DEF Write
<1>2. CASE Pause
  BY <1>2 DEF Pause, SendSync
<1>3. CASE SetDevice
  BY <1>3 DEF SetDevice, SendSync
<1>4. CASE Open
  BY <1>4 DEF Open
<1>5. ASSUME NEW r \in {"drain", "partial"}, CallDrain(r) PROVE DrainAlive'
  BY <1>5 DEF CallDrain
<1>6. ASSUME NEW b \in BOOLEAN, Stop(b) PROVE DrainAlive'
  BY <1>6 DEF Stop, SendSync
<1>7. CASE Start
  BY <1>7 DEF Start, SendSync
<1>8. CASE Resume
  BY <1>8 DEF Resume, SendSync
<1>9. CASE Close
  BY <1>9 DEF Close, SendSync
<1>10. CASE Return
  BY <1>10 DEF Return, Answered
<1>11. CASE Unblocked
  BY <1>11 DEF Unblocked
<1>12. CASE Join
  BY <1>12 DEF Join
<1>13. CASE TakeRequest
  BY <1>13 DEF TakeRequest, Requests
<1>14. CASE Finish
  BY <1>14 DEF Finish
<1>15. CASE WaitForBuffer
  BY <1>15 DEF WaitForBuffer
<1>16. CASE Drain
  BY <1>16 DEF Drain, SendSync
<1>17. CASE DrainSent
  BY <1>17 DEF DrainSent, Answered
<1>18. CASE DrainWaits
  BY <1>18 DEF DrainWaits
<1>19. CASE NextTrack
  BY <1>19 DEF NextTrack, OpenNext
<1>20. CASE StreamAvailable
  BY <1>20 DEF StreamAvailable, OpenNext
<1>21. CASE NextTrackSent
  BY <1>21 DEF NextTrackSent, Answered
<1>22. CASE PartialDrain
  BY <1>22 DEF PartialDrain, SendSync
<1>23. CASE PartialDrainSent
  BY <1>23 DEF PartialDrainSent, Answered
<1>24. CASE PartialDrainSleeps
  BY <1>24 DEF PartialDrainSleeps
<1>25. CASE PartialDrainWaited
  BY <1>25 DEF PartialDrainWaited
<1>26. CASE DelayOver
  BY <1>26 DEF DelayOver
<1>27. CASE FlipStream
  BY <1>27 DEF FlipStream
<1>28. CASE DecoderSleeps
  BY <1>28 DEF DecoderSleeps
<1>29. CASE DecoderGoesOn
  BY <1>29 DEF DecoderGoesOn
<1>30. CASE DoStop
  BY <1>30 DEF DoStop, AfterCommand
<1>31. CASE DoStart
  BY <1>31 DEF DoStart, AfterCommand
<1>32. CASE DoPause
  BY <1>32 DEF DoPause, AfterCommand
<1>33. CASE DoChangeDev
  BY <1>33 DEF DoChangeDev, AfterCommand
<1>34. CASE DoResume
  BY <1>34 DEF DoResume, AfterCommand
<1>35. CASE DoNextTrack
  BY <1>35 DEF DoNextTrack, AfterCommand
<1>36. CASE DoNothing
  <2>1. PICK c \in {"drain", "partialDrain", "sendData"} : Take(c)
    BY <1>36 DEF DoNothing
  <2>2. CASE c = "sendData"
    BY <1>36, <2>1, <2>2 DEF DoNothing, AfterCommand
  <2>3. CASE c # "sendData"
    BY <1>36, <2>1, <2>3 DEF DoNothing, AfterCommand
  <2> QED BY <2>2, <2>3
<1>37. CASE DoClose
  BY <1>37 DEF DoClose
<1>38. ASSUME NEW n \in 0..(MaxPcm + 1), NEW given \in 0..MaxPcm,
               PassBusy(n, given)
        PROVE  DrainAlive'
  BY <1>38 DEF PassBusy, Play, Moves
<1>39. ASSUME NEW n \in 0..(MaxPcm + 1), PassDecodes(n) PROVE DrainAlive'
  BY <1>39 DEF PassDecodes, Play, Moves
<1>40. ASSUME NEW n \in 0..(MaxPcm + 1), NEW given \in 0..MaxPcm,
               PassFindsNoData(n, given)
        PROVE  DrainAlive'
  BY <1>40 DEF PassFindsNoData, OutOfData, Reopens, Play, Moves
<1>41. CASE PassFindsEnd
  BY <1>41 DEF PassFindsEnd, OutOfData
<1>42. CASE PassOk
  BY <1>42 DEF PassOk
<1>43. CASE NotifyPartialDrain
  BY <1>43 DEF NotifyPartialDrain
<1>44. CASE NotifyDrain
  BY <1>44 DEF NotifyDrain
<1>45. CASE UNCHANGED vars
  BY <1>45
<1> QED BY <1>1, <1>2, <1>3, <1>4, <1>5, <1>6, <1>7, <1>8, <1>9, <1>10, <1>11,
           <1>12, <1>13, <1>14, <1>15, <1>16, <1>17, <1>18, <1>19, <1>20,
           <1>21, <1>22, <1>23, <1>24, <1>25, <1>26, <1>27, <1>28, <1>29,
           <1>30, <1>31, <1>32, <1>33, <1>34, <1>35, <1>36, <1>37, <1>38,
           <1>39, <1>40, <1>41, <1>42, <1>43, <1>44, <1>45 DEF Next,
           PlayerCalls, PlayerInside, OffloadSteps, DecoderSteps,
           DecoderCommands, Passes

\* A stop drops what a drain is owed, and nothing new is owed before a start.
LEMMA DueRunsStep ==
  ASSUME TypeOK, LockHeld, CommandLast, StateOfCall, HalState, DueRuns,
         [Next]_vars
  PROVE  DueRuns'
<1> USE TakeFacts DEF vars, caller, wire, data, history, flags, avail, tracks,
        gapless, TypeOK, ThreadTypes, WireTypes, DataTypes, Waiting, Carries,
        LockHeld, CommandLast, StateOfCall, HalState, DueRuns, StopComes,
        Running
<1>1. CASE Write
  BY <1>1 DEF Write
<1>2. CASE Pause
  BY <1>2 DEF Pause, SendSync
<1>3. CASE SetDevice
  BY <1>3 DEF SetDevice, SendSync
<1>4. CASE Open
  BY <1>4 DEF Open
<1>5. ASSUME NEW r \in {"drain", "partial"}, CallDrain(r) PROVE DueRuns'
  BY <1>5 DEF CallDrain
<1>6. ASSUME NEW b \in BOOLEAN, Stop(b) PROVE DueRuns'
  BY <1>6 DEF Stop, SendSync
<1>7. CASE Start
  BY <1>7 DEF Start, SendSync
<1>8. CASE Resume
  BY <1>8 DEF Resume, SendSync
<1>9. CASE Close
  BY <1>9 DEF Close, SendSync
<1>10. CASE Return
  BY <1>10 DEF Return, Answered
<1>11. CASE Unblocked
  BY <1>11 DEF Unblocked
<1>12. CASE Join
  BY <1>12 DEF Join
<1>13. CASE TakeRequest
  BY <1>13 DEF TakeRequest, Requests
<1>14. CASE Finish
  BY <1>14 DEF Finish
<1>15. CASE WaitForBuffer
  BY <1>15 DEF WaitForBuffer
<1>16. CASE Drain
  BY <1>16 DEF Drain, SendSync
<1>17. CASE DrainSent
  BY <1>17 DEF DrainSent, Answered
<1>18. CASE DrainWaits
  BY <1>18 DEF DrainWaits
<1>19. CASE NextTrack
  BY <1>19 DEF NextTrack, OpenNext
<1>20. CASE StreamAvailable
  BY <1>20 DEF StreamAvailable, OpenNext
<1>21. CASE NextTrackSent
  BY <1>21 DEF NextTrackSent, Answered
<1>22. CASE PartialDrain
  BY <1>22 DEF PartialDrain, SendSync
<1>23. CASE PartialDrainSent
  BY <1>23 DEF PartialDrainSent, Answered
<1>24. CASE PartialDrainSleeps
  BY <1>24 DEF PartialDrainSleeps
<1>25. CASE PartialDrainWaited
  BY <1>25 DEF PartialDrainWaited
<1>26. CASE DelayOver
  BY <1>26 DEF DelayOver
<1>27. CASE FlipStream
  BY <1>27 DEF FlipStream
<1>28. CASE DecoderSleeps
  BY <1>28 DEF DecoderSleeps
<1>29. CASE DecoderGoesOn
  BY <1>29 DEF DecoderGoesOn
<1>30. CASE DoStop
  BY <1>30 DEF DoStop, AfterCommand
<1>31. CASE DoStart
  BY <1>31 DEF DoStart, AfterCommand
<1>32. CASE DoPause
  <2>2. due' \in Nat /\ due' <= due
    BY <1>32, OwedType DEF DoPause
  <2> QED BY <1>32, <2>2 DEF DoPause
<1>33. CASE DoChangeDev
  BY <1>33 DEF DoChangeDev
<1>34. CASE DoResume
  BY <1>34 DEF DoResume, AfterCommand
<1>35. CASE DoNextTrack
  BY <1>35 DEF DoNextTrack, AfterCommand
<1>36. CASE DoNothing
  <2>1. PICK c \in {"drain", "partialDrain", "sendData"} : Take(c)
    BY <1>36 DEF DoNothing
  <2>2. CASE c = "sendData"
    BY <1>36, <2>1, <2>2 DEF DoNothing, AfterCommand
  <2>3. CASE c # "sendData"
    BY <1>36, <2>1, <2>3 DEF DoNothing, AfterCommand
  <2> QED BY <2>2, <2>3
<1>37. CASE DoClose
  BY <1>37 DEF DoClose
<1>38. ASSUME NEW n \in 0..(MaxPcm + 1), NEW given \in 0..MaxPcm,
               PassBusy(n, given)
        PROVE  DueRuns'
  <2>0. n \in Nat /\ given \in Nat /\ 0 \in Nat
    BY Sizes
  <2>1. Play(0, FALSE, song, n, given)
    BY <1>38 DEF PassBusy
  <2>2. due' \in Nat /\ due' <= due
    BY <2>0, <2>1, PlayDebts
  <2> QED BY <1>38, <2>2 DEF PassBusy, Play
<1>39. ASSUME NEW n \in 0..(MaxPcm + 1), PassDecodes(n) PROVE DueRuns'
  <2>0. n \in Nat /\ 1 \in Nat /\ 0 \in Nat
    BY Sizes
  <2>1. Play(1, FALSE, song, n, 0)
    BY <1>39 DEF PassDecodes
  <2>2. due' \in Nat /\ due' <= due
    BY <2>0, <2>1, PlayDebts
  <2> QED BY <1>39, <2>2 DEF PassDecodes, Play
<1>40. ASSUME NEW n \in 0..(MaxPcm + 1), NEW given \in 0..MaxPcm,
               PassFindsNoData(n, given)
        PROVE  DueRuns'
  <2> DEFINE end == IF setNext /\ draining /\ ~transition THEN pcm ELSE song
  <2>0. n \in Nat /\ given \in Nat /\ 0 \in Nat
    BY Sizes
  <2>1. Play(0, TRUE, LeftOf(end, given), n, given)
    BY <1>40 DEF PassFindsNoData
  <2>2. due' \in Nat /\ due' <= due
    BY <2>0, <2>1, PlayDebts
  <2> QED BY <1>40, <2>2 DEF PassFindsNoData, Play
<1>41. CASE PassFindsEnd
  BY <1>41 DEF PassFindsEnd, OutOfData
<1>42. CASE PassOk
  BY <1>42 DEF PassOk
<1>43. CASE NotifyPartialDrain
  BY <1>43 DEF NotifyPartialDrain
<1>44. CASE NotifyDrain
  BY <1>44 DEF NotifyDrain
<1>45. CASE UNCHANGED vars
  BY <1>45
<1> QED BY <1>1, <1>2, <1>3, <1>4, <1>5, <1>6, <1>7, <1>8, <1>9, <1>10, <1>11,
           <1>12, <1>13, <1>14, <1>15, <1>16, <1>17, <1>18, <1>19, <1>20,
           <1>21, <1>22, <1>23, <1>24, <1>25, <1>26, <1>27, <1>28, <1>29,
           <1>30, <1>31, <1>32, <1>33, <1>34, <1>35, <1>36, <1>37, <1>38,
           <1>39, <1>40, <1>41, <1>42, <1>43, <1>44, <1>45 DEF Next,
           PlayerCalls, PlayerInside, OffloadSteps, DecoderSteps,
           DecoderCommands, Passes

\* Data are put in the list of a stream that plays, or is then started.
LEMMA DataRunsStep ==
  ASSUME TypeOK, LockHeld, CommandLast, StateOfCall, HalState, DeviceMatches,
         DataRuns, [Next]_vars
  PROVE  DataRuns'
<1> USE SendFacts, TakeFacts DEF vars, caller, wire, data, history, flags,
        avail, tracks, gapless, TypeOK, ThreadTypes, WireTypes, Waiting,
        Carries, LockHeld, CommandLast, StateOfCall, HalState, DeviceMatches,
        DataRuns, Running, Commands
<1>1. CASE Write
  BY <1>1 DEF Write
<1>2. CASE Pause
  BY <1>2 DEF Pause, SendSync
<1>3. CASE SetDevice
  BY <1>3 DEF SetDevice, SendSync
<1>4. CASE Open
  BY <1>4 DEF Open
<1>5. ASSUME NEW r \in {"drain", "partial"}, CallDrain(r) PROVE DataRuns'
  BY <1>5 DEF CallDrain
<1>6. ASSUME NEW b \in BOOLEAN, Stop(b) PROVE DataRuns'
  BY <1>6 DEF Stop, SendSync
<1>7. CASE Start
  BY <1>7 DEF Start, SendSync
<1>8. CASE Resume
  BY <1>8 DEF Resume, SendSync
<1>9. CASE Close
  BY <1>9 DEF Close, SendSync
<1>10. CASE Return
  BY <1>10 DEF Return, Answered
<1>11. CASE Unblocked
  BY <1>11 DEF Unblocked
<1>12. CASE Join
  BY <1>12 DEF Join
<1>13. CASE TakeRequest
  BY <1>13 DEF TakeRequest, Requests
<1>14. CASE Finish
  BY <1>14 DEF Finish
<1>15. CASE WaitForBuffer
  BY <1>15 DEF WaitForBuffer
<1>16. CASE Drain
  BY <1>16 DEF Drain, SendSync
<1>17. CASE DrainSent
  BY <1>17 DEF DrainSent, Answered
<1>18. CASE DrainWaits
  BY <1>18 DEF DrainWaits
<1>19. CASE NextTrack
  BY <1>19 DEF NextTrack, OpenNext
<1>20. CASE StreamAvailable
  BY <1>20 DEF StreamAvailable, OpenNext
<1>21. CASE NextTrackSent
  BY <1>21 DEF NextTrackSent, Answered
<1>22. CASE PartialDrain
  BY <1>22 DEF PartialDrain, SendSync
<1>23. CASE PartialDrainSent
  BY <1>23 DEF PartialDrainSent, Answered
<1>24. CASE PartialDrainSleeps
  BY <1>24 DEF PartialDrainSleeps
<1>25. CASE PartialDrainWaited
  BY <1>25 DEF PartialDrainWaited
<1>26. CASE DelayOver
  BY <1>26 DEF DelayOver
<1>27. CASE FlipStream
  BY <1>27 DEF FlipStream
<1>28. CASE DecoderSleeps
  BY <1>28 DEF DecoderSleeps
<1>29. CASE DecoderGoesOn
  BY <1>29 DEF DecoderGoesOn
<1>30. CASE DoStop
  BY <1>30 DEF DoStop, AfterCommand
<1>31. CASE DoStart
  BY <1>31 DEF DoStart, AfterCommand
<1>32. CASE DoPause
  BY <1>32 DEF DoPause, AfterCommand
<1>33. CASE DoChangeDev
  BY <1>33 DEF DoChangeDev, AfterCommand
<1>34. CASE DoResume
  BY <1>34 DEF DoResume, AfterCommand
<1>35. CASE DoNextTrack
  BY <1>35 DEF DoNextTrack, AfterCommand
<1>36. CASE DoNothing
  <2>1. PICK c \in {"drain", "partialDrain", "sendData"} : Take(c)
    BY <1>36 DEF DoNothing
  <2>2. CASE c = "sendData"
    BY <1>36, <2>1, <2>2 DEF DoNothing, AfterCommand
  <2>3. CASE c # "sendData"
    BY <1>36, <2>1, <2>3 DEF DoNothing, AfterCommand
  <2> QED BY <2>2, <2>3
<1>37. CASE DoClose
  BY <1>37 DEF DoClose
<1>38. ASSUME NEW n \in 0..(MaxPcm + 1), NEW given \in 0..MaxPcm,
               PassBusy(n, given)
        PROVE  DataRuns'
  BY <1>38 DEF PassBusy, Play, Moves
<1>39. ASSUME NEW n \in 0..(MaxPcm + 1), PassDecodes(n) PROVE DataRuns'
  BY <1>39 DEF PassDecodes, Play, Moves
<1>40. ASSUME NEW n \in 0..(MaxPcm + 1), NEW given \in 0..MaxPcm,
               PassFindsNoData(n, given)
        PROVE  DataRuns'
  BY <1>40 DEF PassFindsNoData, OutOfData, Reopens, Play, Moves
<1>41. CASE PassFindsEnd
  BY <1>41 DEF PassFindsEnd, OutOfData
<1>42. CASE PassOk
  BY <1>42 DEF PassOk
<1>43. CASE NotifyPartialDrain
  BY <1>43 DEF NotifyPartialDrain
<1>44. CASE NotifyDrain
  BY <1>44 DEF NotifyDrain
<1>45. CASE UNCHANGED vars
  BY <1>45
<1> QED BY <1>1, <1>2, <1>3, <1>4, <1>5, <1>6, <1>7, <1>8, <1>9, <1>10, <1>11,
           <1>12, <1>13, <1>14, <1>15, <1>16, <1>17, <1>18, <1>19, <1>20,
           <1>21, <1>22, <1>23, <1>24, <1>25, <1>26, <1>27, <1>28, <1>29,
           <1>30, <1>31, <1>32, <1>33, <1>34, <1>35, <1>36, <1>37, <1>38,
           <1>39, <1>40, <1>41, <1>42, <1>43, <1>44, <1>45 DEF Next,
           PlayerCalls, PlayerInside, OffloadSteps, DecoderSteps,
           DecoderCommands, Passes

\* An end of data is seen again after a write.
LEMMA NoDataStep ==
  ASSUME TypeOK, LockHeld, CommandLast, StateOfCall, HalState, DeviceMatches,
         DataRuns, NoDataSeen, [Next]_vars
  PROVE  NoDataSeen'
<1> USE Sizes, SendFacts, TakeFacts DEF vars, caller, wire, data, history,
        flags, avail, tracks, gapless, TypeOK, ThreadTypes, WireTypes,
        DataTypes, FlagTypes, Waiting, Carries, LockHeld, CommandLast,
        StateOfCall, HalState, Running, DeviceMatches, DataRuns, NoDataSeen,
        Commands
<1>1. CASE Write
  BY <1>1 DEF Write
<1>2. CASE Pause
  BY <1>2 DEF Pause, SendSync
<1>3. CASE SetDevice
  BY <1>3 DEF SetDevice, SendSync
<1>4. CASE Open
  BY <1>4 DEF Open
<1>5. ASSUME NEW r \in {"drain", "partial"}, CallDrain(r) PROVE NoDataSeen'
  BY <1>5 DEF CallDrain
<1>6. ASSUME NEW b \in BOOLEAN, Stop(b) PROVE NoDataSeen'
  BY <1>6 DEF Stop, SendSync
<1>7. CASE Start
  BY <1>7 DEF Start, SendSync
<1>8. CASE Resume
  BY <1>8 DEF Resume, SendSync
<1>9. CASE Close
  BY <1>9 DEF Close, SendSync
<1>10. CASE Return
  BY <1>10 DEF Return, Answered
<1>11. CASE Unblocked
  BY <1>11 DEF Unblocked
<1>12. CASE Join
  BY <1>12 DEF Join
<1>13. CASE TakeRequest
  BY <1>13 DEF TakeRequest, Requests
<1>14. CASE Finish
  BY <1>14 DEF Finish
<1>15. CASE WaitForBuffer
  BY <1>15 DEF WaitForBuffer
<1>16. CASE Drain
  BY <1>16 DEF Drain, SendSync
<1>17. CASE DrainSent
  BY <1>17 DEF DrainSent, Answered
<1>18. CASE DrainWaits
  BY <1>18 DEF DrainWaits
<1>19. CASE NextTrack
  BY <1>19 DEF NextTrack, OpenNext
<1>20. CASE StreamAvailable
  BY <1>20 DEF StreamAvailable, OpenNext
<1>21. CASE NextTrackSent
  BY <1>21 DEF NextTrackSent, Answered
<1>22. CASE PartialDrain
  BY <1>22 DEF PartialDrain, SendSync
<1>23. CASE PartialDrainSent
  BY <1>23 DEF PartialDrainSent, Answered
<1>24. CASE PartialDrainSleeps
  BY <1>24 DEF PartialDrainSleeps
<1>25. CASE PartialDrainWaited
  BY <1>25 DEF PartialDrainWaited
<1>26. CASE DelayOver
  BY <1>26 DEF DelayOver
<1>27. CASE FlipStream
  BY <1>27 DEF FlipStream
<1>28. CASE DecoderSleeps
  BY <1>28 DEF DecoderSleeps
<1>29. CASE DecoderGoesOn
  BY <1>29 DEF DecoderGoesOn
<1>30. CASE DoStop
  BY <1>30 DEF DoStop, AfterCommand
<1>31. CASE DoStart
  BY <1>31 DEF DoStart, AfterCommand
<1>32. CASE DoPause
  BY <1>32 DEF DoPause, AfterCommand
<1>33. CASE DoChangeDev
  BY <1>33 DEF DoChangeDev, AfterCommand
<1>34. CASE DoResume
  BY <1>34 DEF DoResume, AfterCommand
<1>35. CASE DoNextTrack
  BY <1>35 DEF DoNextTrack, AfterCommand
<1>36. CASE DoNothing
  <2>1. PICK c \in {"drain", "partialDrain", "sendData"} : Take(c)
    BY <1>36 DEF DoNothing
  <2>2. CASE c = "sendData"
    BY <1>36, <2>1, <2>2 DEF DoNothing, AfterCommand
  <2>3. CASE c # "sendData"
    BY <1>36, <2>1, <2>3 DEF DoNothing, AfterCommand
  <2> QED BY <2>2, <2>3
<1>37. CASE DoClose
  BY <1>37 DEF DoClose
<1>38. ASSUME NEW n \in 0..(MaxPcm + 1), NEW given \in 0..MaxPcm,
               PassBusy(n, given)
        PROVE  NoDataSeen'
  BY <1>38 DEF PassBusy, Play, Moves
<1>39. ASSUME NEW n \in 0..(MaxPcm + 1), PassDecodes(n) PROVE NoDataSeen'
  BY <1>39 DEF PassDecodes, Play, Moves
<1>40. ASSUME NEW n \in 0..(MaxPcm + 1), NEW given \in 0..MaxPcm,
               PassFindsNoData(n, given)
        PROVE  NoDataSeen'
  BY <1>40 DEF PassFindsNoData, OutOfData, Reopens, Play, Moves
<1>41. CASE PassFindsEnd
  BY <1>41 DEF PassFindsEnd, OutOfData
<1>42. CASE PassOk
  BY <1>42 DEF PassOk
<1>43. CASE NotifyPartialDrain
  BY <1>43 DEF NotifyPartialDrain
<1>44. CASE NotifyDrain
  BY <1>44 DEF NotifyDrain
<1>45. CASE UNCHANGED vars
  BY <1>45
<1> QED BY <1>1, <1>2, <1>3, <1>4, <1>5, <1>6, <1>7, <1>8, <1>9, <1>10, <1>11,
           <1>12, <1>13, <1>14, <1>15, <1>16, <1>17, <1>18, <1>19, <1>20,
           <1>21, <1>22, <1>23, <1>24, <1>25, <1>26, <1>27, <1>28, <1>29,
           <1>30, <1>31, <1>32, <1>33, <1>34, <1>35, <1>36, <1>37, <1>38,
           <1>39, <1>40, <1>41, <1>42, <1>43, <1>44, <1>45 DEF Next,
           PlayerCalls, PlayerInside, OffloadSteps, DecoderSteps,
           DecoderCommands, Passes

\* What a drain is owed is decoded or played, never lost.
LEMMA LeftStep ==
  ASSUME TypeOK, LockHeld, CommandLast, StateOfCall, HalState, DueRuns,
         DueLeft, [Next]_vars
  PROVE  DueLeft'
<1> USE Sizes, TakeFacts DEF vars, caller, wire, data, history, flags, avail,
        tracks, gapless, TypeOK, ThreadTypes, WireTypes, DataTypes, Waiting,
        Carries, LockHeld, CommandLast, StateOfCall, HalState, Running,
        DueRuns, DueLeft, StopComes, DrainCalled
<1>1. CASE Write
  BY <1>1 DEF Write
<1>2. CASE Pause
  BY <1>2 DEF Pause, SendSync
<1>3. CASE SetDevice
  BY <1>3 DEF SetDevice, SendSync
<1>4. CASE Open
  BY <1>4 DEF Open
<1>5. ASSUME NEW r \in {"drain", "partial"}, CallDrain(r) PROVE DueLeft'
  BY <1>5 DEF CallDrain
<1>6. ASSUME NEW b \in BOOLEAN, Stop(b) PROVE DueLeft'
  BY <1>6 DEF Stop, SendSync
<1>7. CASE Start
  BY <1>7 DEF Start, SendSync
<1>8. CASE Resume
  BY <1>8 DEF Resume, SendSync
<1>9. CASE Close
  BY <1>9 DEF Close, SendSync
<1>10. CASE Return
  BY <1>10 DEF Return, Answered
<1>11. CASE Unblocked
  BY <1>11 DEF Unblocked
<1>12. CASE Join
  BY <1>12 DEF Join
<1>13. CASE TakeRequest
  BY <1>13 DEF TakeRequest, Requests
<1>14. CASE Finish
  BY <1>14 DEF Finish
<1>15. CASE WaitForBuffer
  BY <1>15 DEF WaitForBuffer
<1>16. CASE Drain
  BY <1>16 DEF Drain, SendSync
<1>17. CASE DrainSent
  BY <1>17 DEF DrainSent, Answered
<1>18. CASE DrainWaits
  BY <1>18 DEF DrainWaits
<1>19. CASE NextTrack
  BY <1>19 DEF NextTrack, OpenNext
<1>20. CASE StreamAvailable
  BY <1>20 DEF StreamAvailable, OpenNext
<1>21. CASE NextTrackSent
  BY <1>21 DEF NextTrackSent, Answered
<1>22. CASE PartialDrain
  BY <1>22 DEF PartialDrain, SendSync
<1>23. CASE PartialDrainSent
  BY <1>23 DEF PartialDrainSent, Answered
<1>24. CASE PartialDrainSleeps
  BY <1>24 DEF PartialDrainSleeps
<1>25. CASE PartialDrainWaited
  BY <1>25 DEF PartialDrainWaited
<1>26. CASE DelayOver
  BY <1>26 DEF DelayOver
<1>27. CASE FlipStream
  BY <1>27 DEF FlipStream
<1>28. CASE DecoderSleeps
  BY <1>28 DEF DecoderSleeps
<1>29. CASE DecoderGoesOn
  <2>1. \/ pcm' = 0 /\ lost' = Lost(due, pcm)
        \/ UNCHANGED <<pcm, lost>>
    BY <1>29 DEF DecoderGoesOn
  <2>2. UNCHANGED <<offload, src, due>>
    BY <1>29 DEF DecoderGoesOn
  <2> QED BY <2>1, <2>2 DEF Lost
<1>30. CASE DoStop
  BY <1>30 DEF DoStop, AfterCommand
<1>31. CASE DoStart
  BY <1>31 DEF DoStart, AfterCommand
<1>32. CASE DoPause
  BY <1>32 DEF DoPause, AfterCommand, Owed
<1>33. CASE DoChangeDev
  BY <1>33 DEF DoChangeDev, Lost
<1>34. CASE DoResume
  BY <1>34 DEF DoResume, AfterCommand
<1>35. CASE DoNextTrack
  BY <1>35 DEF DoNextTrack, AfterCommand
<1>36. CASE DoNothing
  <2>1. PICK c \in {"drain", "partialDrain", "sendData"} : Take(c)
    BY <1>36 DEF DoNothing
  <2>2. CASE c = "sendData"
    BY <1>36, <2>1, <2>2 DEF DoNothing, AfterCommand
  <2>3. CASE c # "sendData"
    BY <1>36, <2>1, <2>3 DEF DoNothing, AfterCommand
  <2> QED BY <2>2, <2>3
<1>37. CASE DoClose
  BY <1>37 DEF DoClose
<1>38. ASSUME NEW n \in 0..(MaxPcm + 1), NEW given \in 0..MaxPcm,
               PassBusy(n, given)
        PROVE  DueLeft'
  <2>1. Play(0, FALSE, song, n, given)
    BY <1>38 DEF PassBusy
  <2>0. n \in Nat /\ given \in Nat
    BY Sizes
  <2>7. src' = src /\ (given = 0 \/ given = pcm - n)
    BY <1>38 DEF PassBusy
  <2>8. pcm \in Nat
    OBVIOUS
  <2>2. (given = 0 \/ n + given <= pcm) /\ src' = src
    BY <2>0, <2>7, <2>8
  <2>3. /\ due' = Owed(0, n) /\ lost' = Lost(due', given)
        /\ pcm' = IF n > pcm THEN 0 ELSE pcm - n - given
    BY <2>1 DEF Play
  <2>4. \/ offload' = offload
        \/ offload \in {"waitSleep", "availSleep"} /\ offload' \in {"wait", "availWoken"}
    BY <2>1, PlayStreams
  <2>5. CASE DrainCalled
    BY <2>0, <2>2, <2>3, <2>4, <2>5 DEF Owed, Lost
  <2>6. CASE ~DrainCalled
    BY <2>0, <2>2, <2>3, <2>4, <2>6 DEF Owed, Lost
  <2> QED BY <2>5, <2>6
<1>39. ASSUME NEW n \in 0..(MaxPcm + 1), PassDecodes(n) PROVE DueLeft'
  <2>1. Play(1, FALSE, song, n, 0)
    BY <1>39 DEF PassDecodes
  <2>0. n \in Nat
    BY Sizes
  <2>2. src > 1 /\ src' = src - 1
    BY <1>39, <2>0 DEF PassDecodes
  <2>3. /\ due' = Owed(1, n) /\ lost' = Lost(due', 0)
        /\ pcm' = IF n > pcm + 1 THEN 0 ELSE pcm + 1 - n
    BY <2>1 DEF Play
  <2>4. \/ offload' = offload
        \/ offload \in {"waitSleep", "availSleep"} /\ offload' \in {"wait", "availWoken"}
    BY <2>1, PlayStreams
  <2>5. CASE DrainCalled
    BY <2>0, <2>2, <2>3, <2>4, <2>5 DEF Owed, Lost
  <2>6. CASE ~DrainCalled
    BY <2>0, <2>2, <2>3, <2>4, <2>6 DEF Owed, Lost
  <2> QED BY <2>5, <2>6
<1>40. ASSUME NEW n \in 0..(MaxPcm + 1), NEW given \in 0..MaxPcm,
               PassFindsNoData(n, given)
        PROVE  DueLeft'
  <2> DEFINE end == IF setNext /\ draining /\ ~transition THEN pcm ELSE song
  <2>1. Play(0, TRUE, LeftOf(end, given), n, given)
    BY <1>40 DEF PassFindsNoData
  <2>0. n \in Nat /\ given \in Nat
    BY Sizes
  <2>2. (given = 0 \/ n + given <= pcm) /\ src' = src
    BY <1>40, <2>0 DEF PassFindsNoData, OutOfData, Reopens
  <2>3. /\ due' = Owed(0, n) /\ lost' = Lost(due', given)
        /\ pcm' = IF n > pcm THEN 0 ELSE pcm - n - given
    BY <2>1 DEF Play
  <2>4. \/ offload' = offload
        \/ offload \in {"waitSleep", "availSleep"} /\ offload' \in {"wait", "availWoken"}
    BY <2>1, PlayStreams
  <2>5. CASE DrainCalled
    BY <2>0, <2>2, <2>3, <2>4, <2>5 DEF Owed, Lost
  <2>6. CASE ~DrainCalled
    BY <2>0, <2>2, <2>3, <2>4, <2>6 DEF Owed, Lost
  <2> QED BY <2>5, <2>6
<1>41. CASE PassFindsEnd
  <2>1. pcm' = 0 /\ lost' = Lost(due, pcm) /\ UNCHANGED <<src, due>>
    BY <1>41 DEF PassFindsEnd
  <2>2. \/ offload' = offload
        \/ offload = "waitSleep" /\ offload' = "wait"
    BY <1>41 DEF PassFindsEnd
  <2> QED BY <2>1, <2>2 DEF Lost
<1>42. CASE PassOk
  BY <1>42 DEF PassOk
<1>43. CASE NotifyPartialDrain
  BY <1>43 DEF NotifyPartialDrain
<1>44. CASE NotifyDrain
  BY <1>44 DEF NotifyDrain
<1>45. CASE UNCHANGED vars
  BY <1>45
<1> QED BY <1>1, <1>2, <1>3, <1>4, <1>5, <1>6, <1>7, <1>8, <1>9, <1>10, <1>11,
           <1>12, <1>13, <1>14, <1>15, <1>16, <1>17, <1>18, <1>19, <1>20,
           <1>21, <1>22, <1>23, <1>24, <1>25, <1>26, <1>27, <1>28, <1>29,
           <1>30, <1>31, <1>32, <1>33, <1>34, <1>35, <1>36, <1>37, <1>38,
           <1>39, <1>40, <1>41, <1>42, <1>43, <1>44, <1>45 DEF Next,
           PlayerCalls, PlayerInside, OffloadSteps, DecoderSteps,
           DecoderCommands, Passes

\* What ends a partial drain was seen after it.
LEMMA PartialStep ==
  ASSUME TypeOK, LockHeld, CommandLast, StateOfCall, HalState, DeviceMatches,
         DataRuns, NoDataSeen, DueRuns, DueLeft, DueLeft', PartialInv, [Next]_vars
  PROVE  PartialInv'
<1> USE Sizes, TakeFacts DEF vars, caller, wire, data, history, flags, avail,
        tracks, gapless, TypeOK, ThreadTypes, WireTypes, DataTypes, FlagTypes,
        Waiting, Carries, LockHeld, CommandLast, StateOfCall, HalState,
        Running, NoDataSeen, DueRuns, DueLeft, StopComes, PartialInv, Commands
<1>1. CASE Write
  BY <1>1, SendFacts DEF Write
<1>2. CASE Pause
  BY <1>2, SendFacts DEF Pause, SendSync
<1>3. CASE SetDevice
  BY <1>3, SendFacts DEF SetDevice, SendSync
<1>4. CASE Open
  BY <1>4 DEF Open
<1>5. ASSUME NEW r \in {"drain", "partial"}, CallDrain(r) PROVE PartialInv'
  BY <1>5 DEF CallDrain
<1>6. ASSUME NEW b \in BOOLEAN, Stop(b) PROVE PartialInv'
  BY <1>6, SendFacts DEF Stop, SendSync
<1>7. CASE Start
  BY <1>7, SendFacts DEF Start, SendSync
<1>8. CASE Resume
  BY <1>8, SendFacts DEF Resume, SendSync
<1>9. CASE Close
  BY <1>9, SendFacts DEF Close, SendSync
<1>10. CASE Return
  BY <1>10 DEF Return, Answered
<1>11. CASE Unblocked
  BY <1>11 DEF Unblocked
<1>12. CASE Join
  BY <1>12 DEF Join
<1>13. CASE TakeRequest
  BY <1>13 DEF TakeRequest, Requests
<1>14. CASE Finish
  BY <1>14 DEF Finish
<1>15. CASE WaitForBuffer
  BY <1>15 DEF WaitForBuffer
<1>16. CASE Drain
  BY <1>16, SendFacts DEF Drain, SendSync
<1>17. CASE DrainSent
  BY <1>17 DEF DrainSent, Answered
<1>18. CASE DrainWaits
  BY <1>18 DEF DrainWaits
<1>19. CASE NextTrack
  BY <1>19, SendFacts DEF NextTrack, OpenNext
<1>20. CASE StreamAvailable
  BY <1>20, SendFacts DEF StreamAvailable, OpenNext
<1>21. CASE NextTrackSent
  BY <1>21 DEF NextTrackSent, Answered
<1>22. CASE PartialDrain
  BY <1>22, SendFacts DEF PartialDrain, SendSync
<1>23. CASE PartialDrainSent
  BY <1>23 DEF PartialDrainSent, Answered
<1>24. CASE PartialDrainSleeps
  BY <1>24 DEF PartialDrainSleeps
<1>25. CASE PartialDrainWaited
  BY <1>25 DEF PartialDrainWaited
<1>26. CASE DelayOver
  BY <1>26 DEF DelayOver
<1>27. CASE FlipStream
  BY <1>27 DEF FlipStream
<1>28. CASE DecoderSleeps
  BY <1>28 DEF DecoderSleeps
<1>29. CASE DecoderGoesOn
  <2>1. lost' = Lost(due, pcm) \/ lost' = lost
    BY <1>29 DEF DecoderGoesOn
  <2>2. lost' \in Nat /\ lost <= lost'
    BY <2>1, LostType
  <2>3. UNCHANGED <<offload, posted, due, early, flags>> /\ decoder' = "process"
    BY <1>29 DEF DecoderGoesOn
  <2> QED BY <2>2, <2>3
<1>30. CASE DoStop
  BY <1>30 DEF DoStop, AfterCommand
<1>31. CASE DoStart
  BY <1>31 DEF DoStart, AfterCommand
<1>32. CASE DoPause
  <2>1. due' \in Nat /\ due' <= due
    BY <1>32, OwedType DEF DoPause
  <2>2. Take("pause") /\ UNCHANGED <<offload, flags, lost, early>>
    BY <1>32 DEF DoPause
  <2>3. decoder' \in {"top", "process"}
    BY <1>32 DEF DoPause, AfterCommand
  <2>4. offload \notin {"drainSync", "partialSync"}
    BY <2>2
  <2> QED BY <2>1, <2>2, <2>3, <2>4
<1>33. CASE DoChangeDev
  <2>1. lost' \in Nat /\ lost <= lost'
    BY <1>33, LostType DEF DoChangeDev
  <2>2. Take("changeDev") /\ UNCHANGED <<offload, flags, due, early>>
    BY <1>33 DEF DoChangeDev
  <2>3. decoder' \in {"top", "process"}
    BY <1>33 DEF DoChangeDev, AfterCommand
  <2>4. offload \notin {"drainSync", "partialSync"}
    BY <2>2
  <2> QED BY <2>1, <2>2, <2>3, <2>4
<1>34. CASE DoResume
  BY <1>34 DEF DoResume, AfterCommand
<1>35. CASE DoNextTrack
  BY <1>35 DEF DoNextTrack, AfterCommand
<1>36. CASE DoNothing
  <2>1. PICK c \in {"drain", "partialDrain", "sendData"} : Take(c)
    BY <1>36 DEF DoNothing
  <2>2. CASE c = "sendData"
    BY <1>36, <2>1, <2>2 DEF DoNothing, AfterCommand
  <2>3. CASE c # "sendData"
    BY <1>36, <2>1, <2>3 DEF DoNothing, AfterCommand
  <2> QED BY <2>2, <2>3
<1>37. CASE DoClose
  BY <1>37 DEF DoClose
<1>38. ASSUME NEW n \in 0..(MaxPcm + 1), NEW given \in 0..MaxPcm,
               PassBusy(n, given)
        PROVE  PartialInv'
  <2>0. n \in Nat /\ given \in Nat /\ 0 \in Nat
    BY Sizes
  <2>1. Play(0, FALSE, song, n, given)
    BY <1>38 DEF PassBusy
  <2>2. /\ due' \in Nat /\ due' <= due /\ lost' \in Nat /\ lost <= lost'
        /\ early' = early
    BY <2>0, <2>1, PlayDebts
  <2>3. \/ offload' = offload
        \/ offload \in {"waitSleep", "availSleep"} /\ offload' \in {"wait", "availWoken"}
    BY <2>1, PlayStreams
  <2>4. UNCHANGED <<posted, partialOk, drainOk>> /\ decoder = "process"
    BY <1>38 DEF PassBusy
  <2>5. decoder' = "ok"
    BY <1>38, <2>1 DEF PassBusy, Play
  <2> QED BY <2>2, <2>3, <2>4, <2>5
<1>39. ASSUME NEW n \in 0..(MaxPcm + 1), PassDecodes(n) PROVE PartialInv'
  <2>0. n \in Nat /\ 1 \in Nat /\ 0 \in Nat
    BY Sizes
  <2>1. Play(1, FALSE, song, n, 0)
    BY <1>39 DEF PassDecodes
  <2>2. /\ due' \in Nat /\ due' <= due /\ lost' \in Nat /\ lost <= lost'
        /\ early' = early
    BY <2>0, <2>1, PlayDebts
  <2>3. \/ offload' = offload
        \/ offload \in {"waitSleep", "availSleep"} /\ offload' \in {"wait", "availWoken"}
    BY <2>1, PlayStreams
  <2>4. UNCHANGED <<posted, partialOk, drainOk>> /\ decoder = "process"
    BY <1>39 DEF PassDecodes
  <2>5. decoder' = "ok"
    BY <1>39, <2>1 DEF PassDecodes, Play
  <2> QED BY <2>2, <2>3, <2>4, <2>5
<1>40. ASSUME NEW n \in 0..(MaxPcm + 1), NEW given \in 0..MaxPcm,
               PassFindsNoData(n, given)
        PROVE  PartialInv'
  <2> DEFINE end == IF setNext /\ draining /\ ~transition THEN pcm ELSE song
  <2>0. n \in Nat /\ given \in Nat /\ 0 \in Nat
    BY Sizes
  <2>1. Play(0, TRUE, LeftOf(end, given), n, given)
    BY <1>40 DEF PassFindsNoData
  <2>2. /\ due' \in Nat /\ due' <= due /\ lost' \in Nat /\ lost <= lost'
        /\ early' = early
    BY <2>0, <2>1, PlayDebts
  <2>3. \/ offload' = offload
        \/ offload \in {"waitSleep", "availSleep"} /\ offload' \in {"wait", "availWoken"}
    BY <2>1, PlayStreams
  <2>4. UNCHANGED <<posted, partialOk, drainOk>> /\ decoder = "process"
    BY <1>40 DEF PassFindsNoData, OutOfData, Reopens
  <2>5. (decoder' = "noPcm" => pcm' = 0) /\ src' = src /\ src <= 1
    BY <1>40, <2>1 DEF PassFindsNoData, OutOfData, Reopens, Play
  <2> QED BY <2>2, <2>3, <2>4, <2>5
<1>41. CASE PassFindsEnd
  BY <1>41 DEF PassFindsEnd, OutOfData
<1>42. CASE PassOk
  BY <1>42 DEF PassOk
<1>43. CASE NotifyPartialDrain
  BY <1>43 DEF NotifyPartialDrain
<1>44. CASE NotifyDrain
  BY <1>44 DEF NotifyDrain
<1>45. CASE UNCHANGED vars
  BY <1>45
<1> QED BY <1>1, <1>2, <1>3, <1>4, <1>5, <1>6, <1>7, <1>8, <1>9, <1>10, <1>11,
           <1>12, <1>13, <1>14, <1>15, <1>16, <1>17, <1>18, <1>19, <1>20,
           <1>21, <1>22, <1>23, <1>24, <1>25, <1>26, <1>27, <1>28, <1>29,
           <1>30, <1>31, <1>32, <1>33, <1>34, <1>35, <1>36, <1>37, <1>38,
           <1>39, <1>40, <1>41, <1>42, <1>43, <1>44, <1>45 DEF Next,
           PlayerCalls, PlayerInside, OffloadSteps, DecoderSteps,
           DecoderCommands, Passes

\* What these two come to for numbers: a smaller debt against a larger loss, ...
LEMMA SmallerDebt ==
  ASSUME NEW a \in Nat, NEW b \in Nat, NEW c \in Nat, NEW d \in Nat,
         c <= a, b <= d, a <= 1 + b
  PROVE  c <= 1 + d
OBVIOUS

\* ... and a debt of which one frame is left to decode and none to play.
LEMMA LastFrame ==
  ASSUME NEW s \in Nat, NEW p \in Nat, NEW a \in Nat, NEW b \in Nat,
         s <= 1, p = 0, a <= s + p + b
  PROVE  a <= 1 + b
OBVIOUS

\* Debts only shrink, and what is lost remains.
LEMMA PlayedOutStays ==
  ASSUME DataTypes, PlayedOut, due' \in Nat, due' <= due, lost' \in Nat,
         lost <= lost', early' = early
  PROVE  PlayedOut'
<1>1. due \in Nat /\ lost \in Nat /\ early \in BOOLEAN
  BY Sizes DEF DataTypes
<1>2. CASE early
  BY <1>2 DEF PlayedOut
<1>3. CASE due <= 1 + lost
  <2>1. due' <= 1 + lost'
    BY <1>1, <1>3, SmallerDebt
  <2> QED BY <2>1 DEF PlayedOut
<1> QED BY <1>2, <1>3 DEF PlayedOut

\* What ends a drain was seen after it.
LEMMA DrainStep ==
  ASSUME TypeOK, LockHeld, CommandLast, StateOfCall, HalState, DeviceMatches,
         DueRuns, DueLeft, DueLeft', DrainInv, [Next]_vars
  PROVE  DrainInv'
<1> USE Sizes, TakeFacts DEF vars, caller, wire, data, history, flags, avail,
        tracks, gapless, TypeOK, ThreadTypes, WireTypes, DataTypes, FlagTypes,
        Waiting, Carries, LockHeld, CommandLast, StateOfCall, HalState,
        Running, DueRuns, DueLeft, StopComes, DrainInv, PlayedOut, Commands
<1>1. CASE Write
  BY <1>1, SendFacts DEF Write
<1>2. CASE Pause
  BY <1>2, SendFacts DEF Pause, SendSync
<1>3. CASE SetDevice
  BY <1>3, SendFacts DEF SetDevice, SendSync
<1>4. CASE Open
  BY <1>4 DEF Open
<1>5. ASSUME NEW r \in {"drain", "partial"}, CallDrain(r) PROVE DrainInv'
  BY <1>5 DEF CallDrain
<1>6. ASSUME NEW b \in BOOLEAN, Stop(b) PROVE DrainInv'
  BY <1>6, SendFacts DEF Stop, SendSync
<1>7. CASE Start
  BY <1>7, SendFacts DEF Start, SendSync
<1>8. CASE Resume
  BY <1>8, SendFacts DEF Resume, SendSync
<1>9. CASE Close
  BY <1>9, SendFacts DEF Close, SendSync
<1>10. CASE Return
  BY <1>10 DEF Return, Answered
<1>11. CASE Unblocked
  BY <1>11 DEF Unblocked
<1>12. CASE Join
  BY <1>12 DEF Join
<1>13. CASE TakeRequest
  BY <1>13 DEF TakeRequest, Requests
<1>14. CASE Finish
  BY <1>14 DEF Finish
<1>15. CASE WaitForBuffer
  BY <1>15 DEF WaitForBuffer
<1>16. CASE Drain
  BY <1>16, SendFacts DEF Drain, SendSync
<1>17. CASE DrainSent
  BY <1>17 DEF DrainSent, Answered
<1>18. CASE DrainWaits
  BY <1>18 DEF DrainWaits
<1>19. CASE NextTrack
  BY <1>19, SendFacts DEF NextTrack, OpenNext
<1>20. CASE StreamAvailable
  BY <1>20, SendFacts DEF StreamAvailable, OpenNext
<1>21. CASE NextTrackSent
  BY <1>21 DEF NextTrackSent, Answered
<1>22. CASE PartialDrain
  BY <1>22, SendFacts DEF PartialDrain, SendSync
<1>23. CASE PartialDrainSent
  BY <1>23 DEF PartialDrainSent, Answered
<1>24. CASE PartialDrainSleeps
  BY <1>24 DEF PartialDrainSleeps
<1>25. CASE PartialDrainWaited
  BY <1>25 DEF PartialDrainWaited
<1>26. CASE DelayOver
  BY <1>26 DEF DelayOver
<1>27. CASE FlipStream
  BY <1>27 DEF FlipStream
<1>28. CASE DecoderSleeps
  BY <1>28 DEF DecoderSleeps
<1>29. CASE DecoderGoesOn
  <2>1. lost' = Lost(due, pcm) \/ lost' = lost
    BY <1>29 DEF DecoderGoesOn
  <2>2. lost' \in Nat /\ lost <= lost'
    BY <2>1, LostType
  <2>3. UNCHANGED <<offload, posted, due, early, flags>> /\ decoder' = "process"
    BY <1>29 DEF DecoderGoesOn
  <2> HIDE DEF PlayedOut
  <2>4. PlayedOut => PlayedOut'
    BY <2>2, <2>3, PlayedOutStays
  <2> QED BY <2>3, <2>4
<1>30. CASE DoStop
  BY <1>30 DEF DoStop, AfterCommand
<1>31. CASE DoStart
  BY <1>31 DEF DoStart, AfterCommand
<1>32. CASE DoPause
  <2>1. due' \in Nat /\ due' <= due
    BY <1>32, OwedType DEF DoPause
  <2>2. Take("pause") /\ UNCHANGED <<offload, flags, lost, early>>
    BY <1>32 DEF DoPause
  <2>3. decoder' \in {"top", "process"}
    BY <1>32 DEF DoPause, AfterCommand
  <2>4. offload \notin {"drainSync", "partialSync"}
    BY <2>2
  <2> HIDE DEF PlayedOut
  <2>5. PlayedOut => PlayedOut'
    BY <2>1, <2>2, PlayedOutStays
  <2> QED BY <2>2, <2>3, <2>4, <2>5
<1>33. CASE DoChangeDev
  <2>1. lost' \in Nat /\ lost <= lost'
    BY <1>33, LostType DEF DoChangeDev
  <2>2. Take("changeDev") /\ UNCHANGED <<offload, flags, due, early>>
    BY <1>33 DEF DoChangeDev
  <2>3. decoder' \in {"top", "process"}
    BY <1>33 DEF DoChangeDev, AfterCommand
  <2>4. offload \notin {"drainSync", "partialSync"}
    BY <2>2
  <2> HIDE DEF PlayedOut
  <2>5. PlayedOut => PlayedOut'
    BY <2>1, <2>2, PlayedOutStays
  <2> QED BY <2>2, <2>3, <2>4, <2>5
<1>34. CASE DoResume
  BY <1>34 DEF DoResume, AfterCommand
<1>35. CASE DoNextTrack
  BY <1>35 DEF DoNextTrack, AfterCommand
<1>36. CASE DoNothing
  <2>1. PICK c \in {"drain", "partialDrain", "sendData"} : Take(c)
    BY <1>36 DEF DoNothing
  <2>2. CASE c = "sendData"
    BY <1>36, <2>1, <2>2 DEF DoNothing, AfterCommand
  <2>3. CASE c # "sendData"
    BY <1>36, <2>1, <2>3 DEF DoNothing, AfterCommand
  <2> QED BY <2>2, <2>3
<1>37. CASE DoClose
  BY <1>37 DEF DoClose
<1>38. ASSUME NEW n \in 0..(MaxPcm + 1), NEW given \in 0..MaxPcm,
               PassBusy(n, given)
        PROVE  DrainInv'
  <2>0. n \in Nat /\ given \in Nat /\ 0 \in Nat
    BY Sizes
  <2>1. Play(0, FALSE, song, n, given)
    BY <1>38 DEF PassBusy
  <2>2. /\ due' \in Nat /\ due' <= due /\ lost' \in Nat /\ lost <= lost'
        /\ early' = early
    BY <2>0, <2>1, PlayDebts
  <2>3. \/ offload' = offload
        \/ offload \in {"waitSleep", "availSleep"} /\ offload' \in {"wait", "availWoken"}
    BY <2>1, PlayStreams
  <2>4. UNCHANGED <<posted, partialOk, drainOk>> /\ decoder = "process"
    BY <1>38 DEF PassBusy
  <2>5. decoder' = "ok"
    BY <1>38, <2>1 DEF PassBusy, Play
  <2> HIDE DEF PlayedOut
  <2>6. PlayedOut => PlayedOut'
    BY <2>2, PlayedOutStays
  <2> QED BY <2>3, <2>4, <2>5, <2>6
<1>39. ASSUME NEW n \in 0..(MaxPcm + 1), PassDecodes(n) PROVE DrainInv'
  <2>0. n \in Nat /\ 1 \in Nat /\ 0 \in Nat
    BY Sizes
  <2>1. Play(1, FALSE, song, n, 0)
    BY <1>39 DEF PassDecodes
  <2>2. /\ due' \in Nat /\ due' <= due /\ lost' \in Nat /\ lost <= lost'
        /\ early' = early
    BY <2>0, <2>1, PlayDebts
  <2>3. \/ offload' = offload
        \/ offload \in {"waitSleep", "availSleep"} /\ offload' \in {"wait", "availWoken"}
    BY <2>1, PlayStreams
  <2>4. UNCHANGED <<posted, partialOk, drainOk>> /\ decoder = "process"
    BY <1>39 DEF PassDecodes
  <2>5. decoder' = "ok"
    BY <1>39, <2>1 DEF PassDecodes, Play
  <2> HIDE DEF PlayedOut
  <2>6. PlayedOut => PlayedOut'
    BY <2>2, PlayedOutStays
  <2> QED BY <2>3, <2>4, <2>5, <2>6
<1>40. ASSUME NEW n \in 0..(MaxPcm + 1), NEW given \in 0..MaxPcm,
               PassFindsNoData(n, given)
        PROVE  DrainInv'
  <2> DEFINE end == IF setNext /\ draining /\ ~transition THEN pcm ELSE song
  <2>0. n \in Nat /\ given \in Nat /\ 0 \in Nat
    BY Sizes
  <2>1. Play(0, TRUE, LeftOf(end, given), n, given)
    BY <1>40 DEF PassFindsNoData
  <2>2. /\ due' \in Nat /\ due' <= due /\ lost' \in Nat /\ lost <= lost'
        /\ early' = early
    BY <2>0, <2>1, PlayDebts
  <2>3. \/ offload' = offload
        \/ offload \in {"waitSleep", "availSleep"} /\ offload' \in {"wait", "availWoken"}
    BY <2>1, PlayStreams
  <2>4. UNCHANGED <<posted, partialOk, drainOk>> /\ decoder = "process"
    BY <1>40 DEF PassFindsNoData, OutOfData, Reopens
  <2>5. (decoder' = "noPcm" => pcm' = 0) /\ src' = src /\ src <= 1
    BY <1>40, <2>1 DEF PassFindsNoData, OutOfData, Reopens, Play
  <2> HIDE DEF PlayedOut
  <2>6. PlayedOut => PlayedOut'
    BY <2>2, PlayedOutStays
  <2>7. (decoder' = "noPcm" /\ offload' \in {"drainSync", "drainCheck", "drainSleep"}) => PlayedOut'
    <3>1. src' \in Nat /\ src' <= 1
      BY <2>5
    <3> SUFFICES ASSUME decoder' = "noPcm", offload' \in {"drainSync", "drainCheck", "drainSleep"}
                 PROVE  due' <= 1 + lost'
      BY DEF PlayedOut
    <3>2. pcm' = 0 /\ pcm' \in Nat /\ due' <= src' + pcm' + lost'
      BY <2>5 DEF DueLeft
    <3> QED BY <2>2, <3>1, <3>2, LastFrame
  <2> QED BY <2>3, <2>4, <2>6, <2>7
<1>41. CASE PassFindsEnd
  <2>1. pcm' = 0 /\ src' = src /\ src <= 1 /\ due' = due
    BY <1>41 DEF PassFindsEnd, OutOfData
  <2>2. lost' \in Nat /\ lost <= lost'
    BY <1>41, LostType DEF PassFindsEnd
  <2>3. \/ offload' = offload
        \/ offload = "waitSleep" /\ offload' = "wait"
    BY <1>41 DEF PassFindsEnd
  <2>4. UNCHANGED <<posted, drainOk, early>>
    BY <1>41 DEF PassFindsEnd
  <2> HIDE DEF PlayedOut
  <2>5. PlayedOut => PlayedOut'
    BY <2>1, <2>2, <2>4, PlayedOutStays
  <2>6. offload' \in {"drainSync", "drainCheck", "drainSleep"} => PlayedOut'
    <3>1. src' \in Nat /\ src' <= 1 /\ due' \in Nat
      BY <2>1, Sizes
    <3> SUFFICES ASSUME offload' \in {"drainSync", "drainCheck", "drainSleep"}
                 PROVE  due' <= 1 + lost'
      BY DEF PlayedOut
    <3>2. pcm' = 0 /\ pcm' \in Nat /\ due' <= src' + pcm' + lost'
      BY <2>1 DEF DueLeft
    <3> QED BY <2>2, <3>1, <3>2, LastFrame
  <2> QED BY <2>3, <2>4, <2>5, <2>6
<1>42. CASE PassOk
  BY <1>42 DEF PassOk
<1>43. CASE NotifyPartialDrain
  BY <1>43 DEF NotifyPartialDrain
<1>44. CASE NotifyDrain
  BY <1>44 DEF NotifyDrain
<1>45. CASE UNCHANGED vars
  BY <1>45
<1> QED BY <1>1, <1>2, <1>3, <1>4, <1>5, <1>6, <1>7, <1>8, <1>9, <1>10, <1>11,
           <1>12, <1>13, <1>14, <1>15, <1>16, <1>17, <1>18, <1>19, <1>20,
           <1>21, <1>22, <1>23, <1>24, <1>25, <1>26, <1>27, <1>28, <1>29,
           <1>30, <1>31, <1>32, <1>33, <1>34, <1>35, <1>36, <1>37, <1>38,
           <1>39, <1>40, <1>41, <1>42, <1>43, <1>44, <1>45 DEF Next,
           PlayerCalls, PlayerInside, OffloadSteps, DecoderSteps,
           DecoderCommands, Passes

\* A start waits for the end of a partial drain.
LEMMA RunsStep ==
  ASSUME TypeOK, LockHeld, CommandLast, StateOfCall, HalState, PartialRuns,
         [Next]_vars
  PROVE  PartialRuns'
<1> USE TakeFacts DEF vars, caller, wire, data, history, flags, avail, tracks,
        gapless, TypeOK, ThreadTypes, WireTypes, Waiting, Carries, LockHeld,
        CommandLast, StateOfCall, HalState, Running, PartialRuns
<1>1. CASE Write
  BY <1>1 DEF Write
<1>2. CASE Pause
  BY <1>2 DEF Pause, SendSync
<1>3. CASE SetDevice
  BY <1>3 DEF SetDevice, SendSync
<1>4. CASE Open
  BY <1>4 DEF Open
<1>5. ASSUME NEW r \in {"drain", "partial"}, CallDrain(r) PROVE PartialRuns'
  BY <1>5 DEF CallDrain
<1>6. ASSUME NEW b \in BOOLEAN, Stop(b) PROVE PartialRuns'
  BY <1>6 DEF Stop, SendSync
<1>7. CASE Start
  BY <1>7 DEF Start, SendSync
<1>8. CASE Resume
  BY <1>8 DEF Resume, SendSync
<1>9. CASE Close
  BY <1>9 DEF Close, SendSync
<1>10. CASE Return
  BY <1>10 DEF Return, Answered
<1>11. CASE Unblocked
  BY <1>11 DEF Unblocked
<1>12. CASE Join
  BY <1>12 DEF Join
<1>13. CASE TakeRequest
  BY <1>13 DEF TakeRequest, Requests
<1>14. CASE Finish
  BY <1>14 DEF Finish
<1>15. CASE WaitForBuffer
  BY <1>15 DEF WaitForBuffer
<1>16. CASE Drain
  BY <1>16 DEF Drain, SendSync
<1>17. CASE DrainSent
  BY <1>17 DEF DrainSent, Answered
<1>18. CASE DrainWaits
  BY <1>18 DEF DrainWaits
<1>19. CASE NextTrack
  BY <1>19 DEF NextTrack, OpenNext
<1>20. CASE StreamAvailable
  BY <1>20 DEF StreamAvailable, OpenNext
<1>21. CASE NextTrackSent
  BY <1>21 DEF NextTrackSent, Answered
<1>22. CASE PartialDrain
  BY <1>22 DEF PartialDrain, SendSync
<1>23. CASE PartialDrainSent
  BY <1>23 DEF PartialDrainSent, Answered
<1>24. CASE PartialDrainSleeps
  BY <1>24 DEF PartialDrainSleeps
<1>25. CASE PartialDrainWaited
  BY <1>25 DEF PartialDrainWaited
<1>26. CASE DelayOver
  BY <1>26 DEF DelayOver
<1>27. CASE FlipStream
  BY <1>27 DEF FlipStream
<1>28. CASE DecoderSleeps
  BY <1>28 DEF DecoderSleeps
<1>29. CASE DecoderGoesOn
  BY <1>29 DEF DecoderGoesOn
<1>30. CASE DoStop
  BY <1>30 DEF DoStop, AfterCommand
<1>31. CASE DoStart
  BY <1>31 DEF DoStart, AfterCommand
<1>32. CASE DoPause
  BY <1>32 DEF DoPause, AfterCommand
<1>33. CASE DoChangeDev
  BY <1>33 DEF DoChangeDev, AfterCommand
<1>34. CASE DoResume
  BY <1>34 DEF DoResume, AfterCommand
<1>35. CASE DoNextTrack
  BY <1>35 DEF DoNextTrack, AfterCommand
<1>36. CASE DoNothing
  <2>1. PICK c \in {"drain", "partialDrain", "sendData"} : Take(c)
    BY <1>36 DEF DoNothing
  <2>2. CASE c = "sendData"
    BY <1>36, <2>1, <2>2 DEF DoNothing, AfterCommand
  <2>3. CASE c # "sendData"
    BY <1>36, <2>1, <2>3 DEF DoNothing, AfterCommand
  <2> QED BY <2>2, <2>3
<1>37. CASE DoClose
  BY <1>37 DEF DoClose
<1>38. ASSUME NEW n \in 0..(MaxPcm + 1), NEW given \in 0..MaxPcm,
               PassBusy(n, given)
        PROVE  PartialRuns'
  BY <1>38 DEF PassBusy, Play, Moves
<1>39. ASSUME NEW n \in 0..(MaxPcm + 1), PassDecodes(n) PROVE PartialRuns'
  BY <1>39 DEF PassDecodes, Play, Moves
<1>40. ASSUME NEW n \in 0..(MaxPcm + 1), NEW given \in 0..MaxPcm,
               PassFindsNoData(n, given)
        PROVE  PartialRuns'
  BY <1>40 DEF PassFindsNoData, OutOfData, Reopens, Play, Moves
<1>41. CASE PassFindsEnd
  BY <1>41 DEF PassFindsEnd, OutOfData
<1>42. CASE PassOk
  BY <1>42 DEF PassOk
<1>43. CASE NotifyPartialDrain
  BY <1>43 DEF NotifyPartialDrain
<1>44. CASE NotifyDrain
  BY <1>44 DEF NotifyDrain
<1>45. CASE UNCHANGED vars
  BY <1>45
<1> QED BY <1>1, <1>2, <1>3, <1>4, <1>5, <1>6, <1>7, <1>8, <1>9, <1>10, <1>11,
           <1>12, <1>13, <1>14, <1>15, <1>16, <1>17, <1>18, <1>19, <1>20,
           <1>21, <1>22, <1>23, <1>24, <1>25, <1>26, <1>27, <1>28, <1>29,
           <1>30, <1>31, <1>32, <1>33, <1>34, <1>35, <1>36, <1>37, <1>38,
           <1>39, <1>40, <1>41, <1>42, <1>43, <1>44, <1>45 DEF Next,
           PlayerCalls, PlayerInside, OffloadSteps, DecoderSteps,
           DecoderCommands, Passes

\* The end of a song is noticed once, in the wait of its partial drain.
LEMMA SongStep ==
  ASSUME TypeOK, LockHeld, CommandLast, StateOfCall, HalState, DeviceMatches,
         PartialRuns, SongInv, [Next]_vars
  PROVE  SongInv'
<1> USE TakeFacts DEF vars, caller, wire, data, history, flags, avail, tracks,
        gapless, TypeOK, ThreadTypes, WireTypes, DataTypes, FlagTypes,
        TrackTypes, Waiting, Carries, LockHeld, CommandLast, StateOfCall,
        HalState, Running, PartialRuns, InPartial, SongInv, Commands
<1>1. CASE Write
  BY <1>1, SendFacts DEF Write
<1>2. CASE Pause
  BY <1>2, SendFacts DEF Pause, SendSync
<1>3. CASE SetDevice
  BY <1>3, SendFacts DEF SetDevice, SendSync
<1>4. CASE Open
  BY <1>4 DEF Open
<1>5. ASSUME NEW r \in {"drain", "partial"}, CallDrain(r) PROVE SongInv'
  BY <1>5 DEF CallDrain
<1>6. ASSUME NEW b \in BOOLEAN, Stop(b) PROVE SongInv'
  BY <1>6, SendFacts DEF Stop, SendSync
<1>7. CASE Start
  BY <1>7, SendFacts DEF Start, SendSync
<1>8. CASE Resume
  BY <1>8, SendFacts DEF Resume, SendSync
<1>9. CASE Close
  BY <1>9, SendFacts DEF Close, SendSync
<1>10. CASE Return
  BY <1>10 DEF Return, Answered
<1>11. CASE Unblocked
  BY <1>11 DEF Unblocked
<1>12. CASE Join
  BY <1>12 DEF Join
<1>13. CASE TakeRequest
  BY <1>13 DEF TakeRequest, Requests
<1>14. CASE Finish
  BY <1>14 DEF Finish
<1>15. CASE WaitForBuffer
  BY <1>15 DEF WaitForBuffer
<1>16. CASE Drain
  BY <1>16, SendFacts DEF Drain, SendSync
<1>17. CASE DrainSent
  BY <1>17 DEF DrainSent, Answered
<1>18. CASE DrainWaits
  BY <1>18 DEF DrainWaits
<1>19. CASE NextTrack
  BY <1>19, SendFacts DEF NextTrack, OpenNext
<1>20. CASE StreamAvailable
  BY <1>20, SendFacts DEF StreamAvailable, OpenNext
<1>21. CASE NextTrackSent
  BY <1>21 DEF NextTrackSent, Answered
<1>22. CASE PartialDrain
  BY <1>22, SendFacts DEF PartialDrain, SendSync
<1>23. CASE PartialDrainSent
  BY <1>23 DEF PartialDrainSent, Answered
<1>24. CASE PartialDrainSleeps
  BY <1>24 DEF PartialDrainSleeps
<1>25. CASE PartialDrainWaited
  BY <1>25 DEF PartialDrainWaited
<1>26. CASE DelayOver
  BY <1>26 DEF DelayOver
<1>27. CASE FlipStream
  BY <1>27 DEF FlipStream
<1>28. CASE DecoderSleeps
  BY <1>28 DEF DecoderSleeps
<1>29. CASE DecoderGoesOn
  <2>1. song' = song \/ song' = LeftOf(song, pcm)
    BY <1>29 DEF DecoderGoesOn
  <2>2. song # None => song' # None
    BY <2>1 DEF LeftOf, None
  <2>3. UNCHANGED <<player, offload, isStart, early, flags, gapless>> /\ decoder' = "process"
    BY <1>29 DEF DecoderGoesOn
  <2> QED BY <2>2, <2>3
<1>30. CASE DoStop
  BY <1>30 DEF DoStop, AfterCommand
<1>31. CASE DoStart
  BY <1>31 DEF DoStart, AfterCommand
<1>32. CASE DoPause
  BY <1>32 DEF DoPause, AfterCommand, LeftOf, None
<1>33. CASE DoChangeDev
  BY <1>33 DEF DoChangeDev, AfterCommand, LeftOf, None
<1>34. CASE DoResume
  BY <1>34 DEF DoResume, AfterCommand
<1>35. CASE DoNextTrack
  BY <1>35 DEF DoNextTrack, AfterCommand
<1>36. CASE DoNothing
  <2>1. PICK c \in {"drain", "partialDrain", "sendData"} : Take(c)
    BY <1>36 DEF DoNothing
  <2>2. CASE c = "sendData"
    BY <1>36, <2>1, <2>2 DEF DoNothing, AfterCommand
  <2>3. CASE c # "sendData"
    BY <1>36, <2>1, <2>3 DEF DoNothing, AfterCommand
  <2> QED BY <2>2, <2>3
<1>37. CASE DoClose
  BY <1>37 DEF DoClose
<1>38. ASSUME NEW n \in 0..(MaxPcm + 1), NEW given \in 0..MaxPcm,
               PassBusy(n, given)
        PROVE  SongInv'
  <2>0. n \in Nat /\ given \in Nat
    BY Sizes
  <2>1. Play(0, FALSE, song, n, given)
    BY <1>38 DEF PassBusy
  <2>2. /\ \/ transition /\ EndTransition
           \/ /\ UNCHANGED gapless /\ song' = LeftOf(LeftOf(song, n), given)
              /\ transition => LeftOf(song, n) # None
        /\ \/ offload' = offload
           \/ offload \in {"waitSleep", "availSleep"} /\ offload' \in {"wait", "availWoken"}
        /\ decoder' # "noData"
    BY <2>1, PlayStreams
  <2>3. UNCHANGED <<player, isStart, early, partialOk, partialBreak>> /\ decoder = "process"
    BY <1>38 DEF PassBusy, Play
  <2>4. CASE transition /\ EndTransition
    BY <2>2, <2>3, <2>4 DEF EndTransition
  <2>5. CASE /\ UNCHANGED gapless /\ song' = LeftOf(LeftOf(song, n), given)
             /\ transition => LeftOf(song, n) # None
    <3>1. LeftOf(song, n) \in {None} \cup 0..MaxPcm /\ song \in {None} \cup 0..MaxPcm
      BY <2>0, LeftOfType
    <3>2. song' = None <=> LeftOf(song, n) = None
      BY <2>0, <2>5, <3>1, LeftOfNone
    <3>3. LeftOf(song, n) = None <=> song = None
      BY <2>0, <3>1, LeftOfNone
    <3> QED BY <2>2, <2>3, <2>5, <3>2, <3>3 DEF None
  <2> QED BY <2>2, <2>4, <2>5
<1>39. ASSUME NEW n \in 0..(MaxPcm + 1), PassDecodes(n) PROVE SongInv'
  <2>0. n \in Nat /\ 0 \in Nat
    BY Sizes
  <2>1. Play(1, FALSE, song, n, 0)
    BY <1>39 DEF PassDecodes
  <2>2. /\ \/ transition /\ EndTransition
           \/ /\ UNCHANGED gapless /\ song' = LeftOf(LeftOf(song, n), 0)
              /\ transition => LeftOf(song, n) # None
        /\ \/ offload' = offload
           \/ offload \in {"waitSleep", "availSleep"} /\ offload' \in {"wait", "availWoken"}
        /\ decoder' # "noData"
    BY <2>1, PlayStreams
  <2>3. UNCHANGED <<player, isStart, early, partialOk, partialBreak>> /\ decoder = "process"
    BY <1>39 DEF PassDecodes, Play
  <2>4. CASE transition /\ EndTransition
    BY <2>2, <2>3, <2>4 DEF EndTransition
  <2>5. CASE /\ UNCHANGED gapless /\ song' = LeftOf(LeftOf(song, n), 0)
             /\ transition => LeftOf(song, n) # None
    <3>1. LeftOf(song, n) \in {None} \cup 0..MaxPcm /\ song \in {None} \cup 0..MaxPcm
      BY <2>0, LeftOfType
    <3>2. song' = None <=> LeftOf(song, n) = None
      BY <2>0, <2>5, <3>1, LeftOfNone
    <3>3. LeftOf(song, n) = None <=> song = None
      BY <2>0, <3>1, LeftOfNone
    <3> QED BY <2>2, <2>3, <2>5, <3>2, <3>3 DEF None
  <2> QED BY <2>2, <2>4, <2>5
<1>40. ASSUME NEW n \in 0..(MaxPcm + 1), NEW given \in 0..MaxPcm,
               PassFindsNoData(n, given)
        PROVE  SongInv'
  <2> DEFINE end == IF setNext /\ draining /\ ~transition THEN pcm ELSE song
  <2>0. n \in Nat /\ given \in Nat
    BY Sizes
  <2>1. Play(0, TRUE, LeftOf(end, given), n, given)
    BY <1>40 DEF PassFindsNoData
  <2>6. end \in {None} \cup 0..MaxPcm /\ LeftOf(end, given) \in {None} \cup 0..MaxPcm
    BY <2>0, LeftOfType
  <2> HIDE DEF end
  <2>2. /\ \/ transition /\ EndTransition
           \/ /\ UNCHANGED gapless /\ song' = LeftOf(LeftOf(LeftOf(end, given), n), given)
              /\ transition => LeftOf(LeftOf(end, given), n) # None
        /\ \/ offload' = offload
           \/ offload \in {"waitSleep", "availSleep"} /\ offload' \in {"wait", "availWoken"}
    BY <2>1, PlayStreams
  <2>3. UNCHANGED <<player, isStart, early, partialOk, partialBreak>> /\ decoder = "process"
    BY <1>40 DEF PassFindsNoData, OutOfData, Reopens, Play
  <2>4. CASE transition /\ EndTransition
    BY <2>2, <2>3, <2>4 DEF EndTransition
  <2>5. CASE /\ UNCHANGED gapless /\ song' = LeftOf(LeftOf(LeftOf(end, given), n), given)
             /\ transition => LeftOf(LeftOf(end, given), n) # None
    <3>1. LeftOf(LeftOf(end, given), n) \in {None} \cup 0..MaxPcm
      BY <2>0, <2>6, LeftOfType
    <3>2. song' = None <=> LeftOf(LeftOf(end, given), n) = None
      BY <2>0, <2>5, <3>1, LeftOfNone
    <3>3. LeftOf(LeftOf(end, given), n) = None <=> LeftOf(end, given) = None
      BY <2>0, <2>6, LeftOfNone
    <3>4. LeftOf(end, given) = None <=> end = None
      BY <2>0, <2>6, LeftOfNone
    <3> QED BY <2>2, <2>3, <2>5, <3>2, <3>3, <3>4 DEF None, end
  <2> QED BY <2>2, <2>4, <2>5
<1>41. CASE PassFindsEnd
  <2>1. song # None => song' # None
    BY <1>41 DEF PassFindsEnd, LeftOf, None
  <2> QED BY <1>41, <2>1 DEF PassFindsEnd, OutOfData
<1>42. CASE PassOk
  BY <1>42 DEF PassOk
<1>43. CASE NotifyPartialDrain
  BY <1>43 DEF NotifyPartialDrain
<1>44. CASE NotifyDrain
  BY <1>44 DEF NotifyDrain
<1>45. CASE UNCHANGED vars
  BY <1>45
<1> QED BY <1>1, <1>2, <1>3, <1>4, <1>5, <1>6, <1>7, <1>8, <1>9, <1>10, <1>11,
           <1>12, <1>13, <1>14, <1>15, <1>16, <1>17, <1>18, <1>19, <1>20,
           <1>21, <1>22, <1>23, <1>24, <1>25, <1>26, <1>27, <1>28, <1>29,
           <1>30, <1>31, <1>32, <1>33, <1>34, <1>35, <1>36, <1>37, <1>38,
           <1>39, <1>40, <1>41, <1>42, <1>43, <1>44, <1>45 DEF Next,
           PlayerCalls, PlayerInside, OffloadSteps, DecoderSteps,
           DecoderCommands, Passes

-----------------------------------------------------------------------------
\* The inductive invariant.
Inv ==
    /\ TypeOK
    /\ LockHeld /\ CommandLast /\ StateOfCall /\ HalState
    /\ DeviceMatches /\ SleepIsQuiet /\ DrainAlive
    /\ DataRuns /\ NoDataSeen /\ DueRuns /\ DueLeft
    /\ PartialInv /\ DrainInv /\ PartialRuns /\ SongInv

\* It holds in every state.
THEOREM InvHolds == Spec => []Inv
<1>1. Init => Inv
  <2> SUFFICES ASSUME Init PROVE Inv
    OBVIOUS
  <2>1. TypeOK
    BY InitTypes
  <2>2. /\ LockHeld /\ StateOfCall /\ HalState /\ DeviceMatches
        /\ SleepIsQuiet /\ DrainAlive
    BY DEF Init, LockHeld, StateOfCall, HalState, DeviceMatches, SleepIsQuiet,
       DrainAlive, Running
  <2>3. cmds = <<>> /\ Len(cmds) = 0
    BY DEF Init
  <2>4. CommandLast /\ DataRuns /\ NoDataSeen
    BY <2>3 DEF Init, CommandLast, Waiting, DataRuns, NoDataSeen
  <2>5. DueRuns /\ DueLeft /\ PartialInv /\ DrainInv /\ PartialRuns /\ SongInv
    BY DEF Init, DueRuns, DueLeft, PartialInv, DrainInv, PlayedOut, PartialRuns, SongInv, InPartial
  <2> QED BY <2>1, <2>2, <2>4, <2>5 DEF Inv
<1>2. Inv /\ [Next]_vars => Inv'
  <2> SUFFICES ASSUME Inv, [Next]_vars PROVE Inv'
    OBVIOUS
  <2> USE DEF Inv
  <2>1. TypeOK' /\ LockHeld' /\ CommandLast' /\ StateOfCall' /\ HalState'
    BY TypeStep, LockStep, CommandStep, CallStep, HalStep
  <2>2. DeviceMatches' /\ SleepIsQuiet' /\ DrainAlive'
    BY DeviceStep, SleepStep, AliveStep
  <2>3. DataRuns' /\ NoDataSeen' /\ DueRuns' /\ DueLeft'
    BY DataRunsStep, NoDataStep, DueRunsStep, LeftStep
  <2>4. PartialInv' /\ DrainInv' /\ PartialRuns' /\ SongInv'
    BY <2>3, PartialStep, DrainStep, RunsStep, SongStep
  <2> QED BY <2>1, <2>2, <2>3, <2>4
<1> QED BY <1>1, <1>2, PTL DEF Spec

\* The types hold.
THEOREM TypesHold == Spec => []TypeOK
<1>1. Inv => TypeOK
  BY DEF Inv
<1> QED BY <1>1, InvHolds, PTL

\* Between two calls of the framework's thread the PCM device is open exactly
\* in a stream that was started or resumed.
THEOREM DeviceFollows == Spec => []StateMatchesDecoder
<1>1. Inv => StateMatchesDecoder
  BY DEF Inv, DeviceMatches, StateMatchesDecoder
<1> QED BY <1>1, InvHolds, PTL

\* A decoder that sleeps without a timeout has answered every command and has
\* given the PCM device back.
THEOREM SleepsQuietly == Spec => []PausedIsQuiet
<1>1. Inv => PausedIsQuiet
  BY DEF Inv, DeviceMatches, SleepIsQuiet, StateMatchesDecoder, PausedIsQuiet
<1> QED BY <1>1, InvHolds, PTL

\* Whoever waits for an answer with compress->lock held has a command in the
\* list, and the decoder is awake.
THEOREM WaitersAnswered == Spec => []AnswerComes
<1>1. Inv => AnswerComes
  <2> SUFFICES ASSUME Inv, lock # "none", ~posted, player # "join",
                      offload \notin {"availSleep", "availWoken"}
               PROVE  decoder # "sleep" /\ \E i \in DOMAIN cmds : cmds[i] # "sendData"
    BY DEF Inv, AnswerComes
  <2>1. Waiting
    BY DEF Inv, LockHeld, Waiting, TypeOK, WireTypes
  <2>2. Len(cmds) > 0 /\ cmds[Len(cmds)] # "sendData"
    BY <2>1 DEF Inv, CommandLast
  <2>3. cmds \in Seq(Commands) /\ Len(cmds) \in DOMAIN cmds /\ cmds # <<>>
    BY <2>2 DEF Inv, TypeOK, WireTypes
  <2> QED BY <2>2, <2>3 DEF Inv, SleepIsQuiet
<1> QED BY <1>1, InvHolds, PTL

\* The wake-up of a drain is never lost: with everybody else quiet it sleeps
\* only in a paused stream.
THEOREM SleepersWoken == Spec => []SleeperHasWaker
<1>1. Inv => SleeperHasWaker
  BY DEF Inv, DrainAlive, SleepIsQuiet, StopComes, Running, SleeperHasWaker
<1> QED BY <1>1, InvHolds, PTL

\* A partial drain goes on to the next song when its data have been decoded,
\* all but the last frame.
THEOREM PartialDrainsDecode == Spec => []PartialDecoded
<1>1. Inv => PartialDecoded
  BY DEF Inv, PartialInv, PartialDecoded
<1> QED BY <1>1, InvHolds, PTL

\* A drain returns when its data have been played, all but the last frame and
\* what the decoder has given up, unless their end had been reported before
\* the decoder took the drain.
THEOREM DrainsKeepTheirWord == Spec => []DrainPlaysOut
<1>1. Inv => DrainPlaysOut
  BY DEF Inv, DrainInv, PlayedOut, DrainPlaysOut
<1> QED BY <1>1, InvHolds, PTL

\* The end of a song that fades out is known, with the same exception.
THEOREM FadingSongsEnd == Spec => []SongHasEnd
<1>1. Inv => SongHasEnd
  BY DEF Inv, SongInv, SongHasEnd
<1> QED BY <1>1, InvHolds, PTL

-----------------------------------------------------------------------------
\* Each step is one of the contract of a compress device or leaves it alone.
ContractStep == [Driver!DriverNext]_(Driver!driverVars)

LEMMA DriverStep ==
  ASSUME Inv, [Next]_vars
  PROVE  ContractStep
<1> USE DEF vars, caller, wire, data, history, flags, avail, tracks, gapless,
        Inv, TypeOK, ThreadTypes, WireTypes, LockHeld, StateOfCall, HalState,
        Running, DeviceState, Calling, ContractStep, Driver!DriverNext,
        Driver!driverVars, Driver!Open, Driver!SetMetadata, Driver!Start,
        Driver!Pause, Driver!Resume, Driver!Stop, Driver!Close,
        Driver!CallBegins, Driver!CallReturns
<1>1. CASE Write
  BY <1>1 DEF Write
<1>2. CASE Pause
  BY <1>2 DEF Pause, SendSync
<1>3. CASE SetDevice
  BY <1>3 DEF SetDevice, SendSync
<1>4. CASE Open
  BY <1>4 DEF Open
<1>5. ASSUME NEW r \in {"drain", "partial"}, CallDrain(r) PROVE ContractStep
  BY <1>5 DEF CallDrain
<1>6. ASSUME NEW b \in BOOLEAN, Stop(b) PROVE ContractStep
  BY <1>6 DEF Stop, SendSync
<1>7. CASE Start
  BY <1>7 DEF Start, SendSync
<1>8. CASE Resume
  BY <1>8 DEF Resume, SendSync
<1>9. CASE Close
  BY <1>9 DEF Close, SendSync
<1>10. CASE Return
  BY <1>10 DEF Return, Answered
<1>11. CASE Unblocked
  BY <1>11 DEF Unblocked
<1>12. CASE Join
  BY <1>12 DEF Join
<1>13. CASE TakeRequest
  BY <1>13, RequestFacts DEF TakeRequest, Requests, OutLockFree
<1>14. CASE Finish
  BY <1>14 DEF Finish
<1>15. CASE WaitForBuffer
  BY <1>15 DEF WaitForBuffer
<1>16. CASE Drain
  BY <1>16 DEF Drain, SendSync
<1>17. CASE DrainSent
  BY <1>17 DEF DrainSent, Answered
<1>18. CASE DrainWaits
  BY <1>18 DEF DrainWaits
<1>19. CASE NextTrack
  BY <1>19 DEF NextTrack, OpenNext
<1>20. CASE StreamAvailable
  BY <1>20 DEF StreamAvailable, OpenNext
<1>21. CASE NextTrackSent
  BY <1>21 DEF NextTrackSent, Answered
<1>22. CASE PartialDrain
  BY <1>22 DEF PartialDrain, SendSync
<1>23. CASE PartialDrainSent
  BY <1>23 DEF PartialDrainSent, Answered
<1>24. CASE PartialDrainSleeps
  BY <1>24 DEF PartialDrainSleeps
<1>25. CASE PartialDrainWaited
  BY <1>25 DEF PartialDrainWaited
<1>26. CASE DelayOver
  BY <1>26 DEF DelayOver
<1>27. CASE FlipStream
  BY <1>27 DEF FlipStream
<1>28. CASE DecoderSleeps
  BY <1>28 DEF DecoderSleeps
<1>29. CASE DecoderGoesOn
  BY <1>29 DEF DecoderGoesOn
<1>30. CASE DoStop
  BY <1>30 DEF DoStop, AfterCommand, Take
<1>31. CASE DoStart
  BY <1>31 DEF DoStart, AfterCommand, Take
<1>32. CASE DoPause
  BY <1>32 DEF DoPause, AfterCommand, Take
<1>33. CASE DoChangeDev
  BY <1>33 DEF DoChangeDev, AfterCommand, Take
<1>34. CASE DoResume
  BY <1>34 DEF DoResume, AfterCommand, Take
<1>35. CASE DoNextTrack
  BY <1>35 DEF DoNextTrack, AfterCommand, Take
<1>36. CASE DoNothing
  BY <1>36 DEF DoNothing, AfterCommand, Take
<1>37. CASE DoClose
  BY <1>37 DEF DoClose, Take
<1>38. ASSUME NEW n \in 0..(MaxPcm + 1), NEW given \in 0..MaxPcm,
               PassBusy(n, given)
        PROVE  ContractStep
  BY <1>38 DEF PassBusy, Play, Moves
<1>39. ASSUME NEW n \in 0..(MaxPcm + 1), PassDecodes(n) PROVE ContractStep
  BY <1>39 DEF PassDecodes, Play, Moves
<1>40. ASSUME NEW n \in 0..(MaxPcm + 1), NEW given \in 0..MaxPcm,
               PassFindsNoData(n, given)
        PROVE  ContractStep
  BY <1>40 DEF PassFindsNoData, OutOfData, Reopens, Play, Moves
<1>41. CASE PassFindsEnd
  BY <1>41 DEF PassFindsEnd, OutOfData
<1>42. CASE PassOk
  BY <1>42 DEF PassOk
<1>43. CASE NotifyPartialDrain
  BY <1>43 DEF NotifyPartialDrain
<1>44. CASE NotifyDrain
  BY <1>44 DEF NotifyDrain
<1>45. CASE UNCHANGED vars
  BY <1>45
<1> QED BY <1>1, <1>2, <1>3, <1>4, <1>5, <1>6, <1>7, <1>8, <1>9, <1>10, <1>11,
           <1>12, <1>13, <1>14, <1>15, <1>16, <1>17, <1>18, <1>19, <1>20,
           <1>21, <1>22, <1>23, <1>24, <1>25, <1>26, <1>27, <1>28, <1>29,
           <1>30, <1>31, <1>32, <1>33, <1>34, <1>35, <1>36, <1>37, <1>38,
           <1>39, <1>40, <1>41, <1>42, <1>43, <1>44, <1>45 DEF Next,
           PlayerCalls, PlayerInside, OffloadSteps, DecoderSteps,
           DecoderCommands, Passes

\* For any buffers the HAL of the older platforms implements the contract of a
\* compress device: what it believes of the stream is what the device is told,
\* and is_audio_offload_thread_blocked keeps the handle alive under a call.
THEOREM HalUsesDriverAsAllowed == Spec => HalObeysDriver
<1>1. Init => Driver!DriverInit
  BY DEF Init, Driver!DriverInit, DeviceState, Calling
<1>2. Inv /\ [Next]_vars => [Driver!DriverNext]_(Driver!driverVars)
  BY DriverStep DEF ContractStep
<1> QED BY <1>1, <1>2, InvHolds, PTL DEF Spec, HalObeysDriver, Driver!DriverSpec

=============================================================================
