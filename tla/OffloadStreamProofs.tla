------------------------ MODULE OffloadStreamProofs ------------------------
(***************************************************************************)
(* Theorems about OffloadStream, for any set of controllers and setters.   *)
(***************************************************************************)
EXTENDS OffloadStream, TLAPS

(* Where a client holds the lock, and where it is stopping the stream on   *)
(* its way into standby.                                                   *)
Held == {"start", "meta", "metaClear", "data", "sb", "stop", "check",
         "closeDev", "exitCmd", "release"}
ToStandby == {"write", "standby", "close"}
Stopping(c) == pc[c] \in {"stop", "check", "waiting", "closeDev"}
               /\ op[c] \in ToStandby

(* A thread past a pthread_mutex_lock owns the mutex.                      *)
LockInv ==
    /\ \A c \in Clients : pc[c] \in Held => lock = c
    /\ tpc = "top" => lock = Thread

(* The call a client is in agrees with where it is; write and standby are  *)
(* entered with the lock of the wrapper; close is alone in the stream.     *)
CallInv ==
    \A c \in Clients :
        /\ pc[c] # "raise"
        /\ pc[c] \in {"start", "meta", "metaClear", "data"} => op[c] = "write"
        /\ pc[c] \in {"sb", "closeDev"} => op[c] \in ToStandby
        /\ pc[c] \in {"exitCmd", "join", "closed"} => op[c] = "destroy"
        /\ pc[c] = "idle" => op[c] \in {"none", "destroy"}
        /\ pc[c] \in {"stop", "check", "waiting"} => op[c] # "none"
        /\ pc[c] = "release" => op[c] \notin {"none", "destroy"}
        /\ op[c] \in {"write", "standby"} => wlock = c
        /\ op[c] \in {"close", "destroy"} =>
              \A d \in Clients \ {c} : pc[d] = "idle" /\ op[d] = "none"

(* out->standby and out->compress: they agree unless a client is between   *)
(* raising the flag and closing the device.                                *)
StandbyInv ==
    /\ ~standby => compress = "open"
    /\ standby /\ compress = "open" => \E c \in Clients : Stopping(c)
    /\ ~standbyFun => standby /\ compress = "null"
    /\ \A c \in Clients :
        /\ Stopping(c) => standby /\ compress = "open"
        /\ pc[c] \in {"meta", "metaClear", "data"} => ~standby
        /\ pc[c] = "start" => standby
        /\ pc[c] = "release" /\ op[c] \in {"standby", "close"} => standby

(* The offload thread and the flag it raises: the flag covers the call,    *)
(* the device is open during the call, and nobody closes it under the flag.*)
BlockedInv ==
    /\ blocked <=> tpc \in {"call", "busy", "relock"}
    /\ tpc \in {"call", "busy"} => compress = "open"
    /\ using = IF tpc = "busy" THEN "open" ELSE "none"
    /\ \A c \in Clients : pc[c] = "closeDev" => ~blocked

(* The bit of the usecase covers the open device and outlives it only when *)
(* the device could not be opened.                                         *)
UsecaseInv ==
    /\ compress = "open" => usecase
    /\ usecase /\ compress = "null" => openFailed

(* The state is the one of the driver unless the stream was upset, and a   *)
(* device that is not marked as started was not started; the state is      *)
(* STOPED from the stop of the device to its close and to the next write.  *)
StateInv ==
    /\ StateMatchesDevice
    /\ upset = {} /\ ~started => dev \notin {"running", "paused"}
    /\ compress = "open" <=> dev # "closed"
    /\ compress = "null" => state = "STOPED"
    /\ \A c \in Clients :
        Stopping(c) /\ pc[c] # "stop" => state = "STOPED"

IInv == TypeOK /\ LockInv /\ CallInv /\ StandbyInv /\ BlockedInv
        /\ UsecaseInv /\ StateInv

(* The threads are pairwise distinct.                                      *)
LEMMA Threads ==
    /\ Player \in Clients
    /\ Thread \notin Clients /\ None \notin Clients /\ Thread # None
    /\ \A c \in Clients : c \in Callers
    /\ \A s \in Setters : s \in Callers /\ s \notin Clients
  BY ThreadsAssumption DEF Clients, Callers

LEMMA TailInSeq ==
    ASSUME NEW S, NEW q \in Seq(S), q # << >> PROVE Tail(q) \in Seq(S)
  OBVIOUS

LEMMA InitIInv == Init => IInv
<1> SUFFICES ASSUME Init PROVE IInv
  OBVIOUS
<1>1. LockTypes /\ CallTypes
  BY DEF Init, LockTypes, CallTypes
<1>2. ThreadTypes
  BY DEF Init, ThreadTypes
<1>5. ListTypes
  BY DEF Init, ListTypes
<1>3. StreamTypes /\ DriverTypes
  BY MetadataAssumption DEF Init, StreamTypes, DriverTypes
<1>4. LockInv /\ CallInv /\ StandbyInv /\ BlockedInv
  BY Threads DEF Init, LockInv, CallInv, StandbyInv, BlockedInv, Held, Stopping
<1>6. UsecaseInv /\ StateInv
  BY Threads DEF Init, UsecaseInv, StateInv, StateMatchesDevice, SameState, Ask, Stopping
<1> QED BY <1>1, <1>2, <1>3, <1>4, <1>5, <1>6 DEF IInv, TypeOK

(* Each part of the type invariant is preserved by every step.             *)
LEMMA LockTypesStep == TypeOK /\ [Next]_vars => LockTypes'
<1> SUFFICES ASSUME TypeOK, [Next]_vars PROVE LockTypes'
  OBVIOUS
<1> USE Threads, MetadataAssumption
<1> USE DEF TypeOK, LockTypes, CallTypes, ThreadTypes, ListTypes, StreamTypes,
            DriverTypes, Goto, lockVars, callVars, thrVars, streamVars, metaVars, devVars,
            ghostVars
<1>1. CASE PlayerCalls
  BY <1>1 DEF PlayerCalls, Write, Flush, Close, Enter, Pause, Resume, Drain, Idle,
     SendCmd, Signal, Cmd
<1>2. ASSUME NEW c \in Clients, Standby(c) PROVE LockTypes'
  BY <1>2 DEF Standby, Enter
<1>3. ASSUME NEW c \in Clients, UnderLock(c) PROVE LockTypes'
  BY <1>3 DEF UnderLock, StartOk, StartFails, SendMetadata, ClearNeedMeta,
     WriteFull, WriteShort, WriteFails, StartDevice, SendCmd, Signal, Cmd,
     EnterStandby, Stop, CheckBlocked, CloseDevice, AfterStop, Return,
     CloseStandbyDone, SendExit
<1>4. ASSUME NEW c \in Clients, Wakeup(c) \/ DestroyThread(c) \/ Join(c)
      PROVE  LockTypes'
  BY <1>4 DEF Wakeup, DestroyThread, Join
<1>5. ASSUME NEW s \in Setters, StoreMetadata(s) \/ RaiseNeedMeta(s)
      PROVE  LockTypes'
  BY <1>5 DEF StoreMetadata, RaiseNeedMeta
<1>6. CASE ThreadStep
  BY <1>6 DEF ThreadStep, ThreadStarts, ThreadInit, ThreadLocks, ThreadWaits,
     ThreadDrops, ThreadTakes, NextCmd, ThreadCalls, ThreadCallReturns,
     ThreadFinishes, ThreadExits, Signal, Cmd
<1>7. CASE SpuriousWakeup \/ UNCHANGED vars
  BY <1>7 DEF SpuriousWakeup, vars
<1> QED BY <1>1, <1>2, <1>3, <1>4, <1>5, <1>6, <1>7 DEF Next, ClientStep


LEMMA CallTypesStep == TypeOK /\ [Next]_vars => CallTypes'
<1> SUFFICES ASSUME TypeOK, [Next]_vars PROVE CallTypes'
  OBVIOUS
<1> USE Threads, MetadataAssumption
<1> USE DEF TypeOK, LockTypes, CallTypes, ThreadTypes, ListTypes, StreamTypes,
            DriverTypes, Goto, lockVars, callVars, thrVars, streamVars, metaVars, devVars,
            ghostVars
<1>1. CASE PlayerCalls
  BY <1>1 DEF PlayerCalls, Write, Flush, Close, Enter, Pause, Resume, Drain, Idle,
     SendCmd, Signal, Cmd
<1>2. ASSUME NEW c \in Clients, Standby(c) PROVE CallTypes'
  BY <1>2 DEF Standby, Enter
<1>3. ASSUME NEW c \in Clients, UnderLock(c) PROVE CallTypes'
  BY <1>3 DEF UnderLock, StartOk, StartFails, SendMetadata, ClearNeedMeta,
     WriteFull, WriteShort, WriteFails, StartDevice, SendCmd, Signal, Cmd,
     EnterStandby, Stop, CheckBlocked, CloseDevice, AfterStop, Return,
     CloseStandbyDone, SendExit
<1>4. ASSUME NEW c \in Clients, Wakeup(c) \/ DestroyThread(c) \/ Join(c)
      PROVE  CallTypes'
  BY <1>4 DEF Wakeup, DestroyThread, Join
<1>5. ASSUME NEW s \in Setters, StoreMetadata(s) \/ RaiseNeedMeta(s)
      PROVE  CallTypes'
  BY <1>5 DEF StoreMetadata, RaiseNeedMeta
<1>6. CASE ThreadStep
  BY <1>6 DEF ThreadStep, ThreadStarts, ThreadInit, ThreadLocks, ThreadWaits,
     ThreadDrops, ThreadTakes, NextCmd, ThreadCalls, ThreadCallReturns,
     ThreadFinishes, ThreadExits, Signal, Cmd
<1>7. CASE SpuriousWakeup \/ UNCHANGED vars
  BY <1>7 DEF SpuriousWakeup, vars
<1> QED BY <1>1, <1>2, <1>3, <1>4, <1>5, <1>6, <1>7 DEF Next, ClientStep


LEMMA ThreadTypesStep == TypeOK /\ [Next]_vars => ThreadTypes'
<1> SUFFICES ASSUME TypeOK, [Next]_vars PROVE ThreadTypes'
  OBVIOUS
<1> USE Threads, MetadataAssumption
<1> USE DEF TypeOK, LockTypes, CallTypes, ThreadTypes, ListTypes, StreamTypes,
            DriverTypes, Goto, lockVars, callVars, thrVars, streamVars, metaVars, devVars,
            ghostVars
<1>1. CASE PlayerCalls
  BY <1>1 DEF PlayerCalls, Write, Flush, Close, Enter, Pause, Resume, Drain, Idle,
     SendCmd, Signal, Cmd
<1>2. ASSUME NEW c \in Clients, Standby(c) PROVE ThreadTypes'
  BY <1>2 DEF Standby, Enter
<1>3. ASSUME NEW c \in Clients, UnderLock(c) PROVE ThreadTypes'
  BY <1>3 DEF UnderLock, StartOk, StartFails, SendMetadata, ClearNeedMeta,
     WriteFull, WriteShort, WriteFails, StartDevice, SendCmd, Signal, Cmd,
     EnterStandby, Stop, CheckBlocked, CloseDevice, AfterStop, Return,
     CloseStandbyDone, SendExit
<1>4. ASSUME NEW c \in Clients, Wakeup(c) \/ DestroyThread(c) \/ Join(c)
      PROVE  ThreadTypes'
  BY <1>4 DEF Wakeup, DestroyThread, Join
<1>5. ASSUME NEW s \in Setters, StoreMetadata(s) \/ RaiseNeedMeta(s)
      PROVE  ThreadTypes'
  BY <1>5 DEF StoreMetadata, RaiseNeedMeta
<1>6. CASE ThreadStep
  BY <1>6 DEF ThreadStep, ThreadStarts, ThreadInit, ThreadLocks, ThreadWaits,
     ThreadDrops, ThreadTakes, NextCmd, ThreadCalls, ThreadCallReturns,
     ThreadFinishes, ThreadExits, Signal, Cmd
<1>7. CASE SpuriousWakeup \/ UNCHANGED vars
  BY <1>7 DEF SpuriousWakeup, vars
<1> QED BY <1>1, <1>2, <1>3, <1>4, <1>5, <1>6, <1>7 DEF Next, ClientStep


LEMMA ListTypesStep == TypeOK /\ [Next]_vars => ListTypes'
<1> SUFFICES ASSUME TypeOK, [Next]_vars PROVE ListTypes'
  OBVIOUS
<1> USE DEF TypeOK, ListTypes
<1>1. CASE PlayerCalls
  BY <1>1 DEF PlayerCalls, Write, Flush, Close, Enter, Pause, Resume, Drain, Idle,
     SendCmd, Signal, Cmd
<1>2. ASSUME NEW c \in Clients, Standby(c) PROVE ListTypes'
  BY <1>2 DEF Standby, Enter
<1>3. ASSUME NEW c \in Clients, UnderLock(c) PROVE ListTypes'
  BY <1>3 DEF UnderLock, StartOk, StartFails, SendMetadata, ClearNeedMeta,
     WriteFull, WriteShort, WriteFails, StartDevice, SendCmd, Signal, Cmd,
     EnterStandby, Stop, CheckBlocked, CloseDevice, AfterStop, Return,
     CloseStandbyDone, SendExit
<1>4. ASSUME NEW c \in Clients, Wakeup(c) \/ DestroyThread(c) \/ Join(c)
      PROVE  ListTypes'
  BY <1>4 DEF Wakeup, DestroyThread, Join
<1>5. ASSUME NEW s \in Setters, StoreMetadata(s) \/ RaiseNeedMeta(s)
      PROVE  ListTypes'
  BY <1>5 DEF StoreMetadata, RaiseNeedMeta
<1>6. CASE ThreadStep
  <2>1. \/ cmds' = cmds
        \/ cmds' = << >>
        \/ cmds # << >> /\ cmds' = Tail(cmds)
    BY <1>6 DEF ThreadStep, ThreadStarts, ThreadLocks, ThreadWaits, ThreadDrops,
       ThreadTakes, NextCmd, ThreadCalls, ThreadCallReturns, ThreadFinishes,
       ThreadExits
  <2>2. ASSUME cmds # << >> PROVE Tail(cmds) \in Seq(Cmd)
    BY <2>2, TailInSeq
  <2>3. << >> \in Seq(Cmd)
    OBVIOUS
  <2>4. CASE cmds' = << >>
    BY <2>3, <2>4
  <2>5. CASE cmds' = cmds
    BY <2>5
  <2>6. CASE cmds # << >> /\ cmds' = Tail(cmds)
    BY <2>2, <2>6
  <2> QED BY <2>1, <2>4, <2>5, <2>6
<1>7. CASE SpuriousWakeup \/ UNCHANGED vars
  BY <1>7 DEF SpuriousWakeup, vars
<1> QED BY <1>1, <1>2, <1>3, <1>4, <1>5, <1>6, <1>7 DEF Next, ClientStep


LEMMA StreamTypesStep == TypeOK /\ [Next]_vars => StreamTypes'
<1> SUFFICES ASSUME TypeOK, [Next]_vars PROVE StreamTypes'
  OBVIOUS
<1> USE Threads, MetadataAssumption
<1> USE DEF TypeOK, LockTypes, CallTypes, ThreadTypes, ListTypes, StreamTypes,
            DriverTypes, Goto, lockVars, callVars, thrVars, streamVars, metaVars, devVars,
            ghostVars
<1>1. CASE PlayerCalls
  BY <1>1 DEF PlayerCalls, Write, Flush, Close, Enter, Pause, Resume, Drain, Idle,
     SendCmd, Signal, Cmd
<1>2. ASSUME NEW c \in Clients, Standby(c) PROVE StreamTypes'
  BY <1>2 DEF Standby, Enter
<1>3. ASSUME NEW c \in Clients, UnderLock(c) PROVE StreamTypes'
  BY <1>3 DEF UnderLock, StartOk, StartFails, SendMetadata, ClearNeedMeta,
     WriteFull, WriteShort, WriteFails, StartDevice, SendCmd, Signal, Cmd,
     EnterStandby, Stop, CheckBlocked, CloseDevice, AfterStop, Return,
     CloseStandbyDone, SendExit
<1>4. ASSUME NEW c \in Clients, Wakeup(c) \/ DestroyThread(c) \/ Join(c)
      PROVE  StreamTypes'
  BY <1>4 DEF Wakeup, DestroyThread, Join
<1>5. ASSUME NEW s \in Setters, StoreMetadata(s) \/ RaiseNeedMeta(s)
      PROVE  StreamTypes'
  BY <1>5 DEF StoreMetadata, RaiseNeedMeta
<1>6. CASE ThreadStep
  BY <1>6 DEF ThreadStep, ThreadStarts, ThreadInit, ThreadLocks, ThreadWaits,
     ThreadDrops, ThreadTakes, NextCmd, ThreadCalls, ThreadCallReturns,
     ThreadFinishes, ThreadExits, Signal, Cmd
<1>7. CASE SpuriousWakeup \/ UNCHANGED vars
  BY <1>7 DEF SpuriousWakeup, vars
<1> QED BY <1>1, <1>2, <1>3, <1>4, <1>5, <1>6, <1>7 DEF Next, ClientStep


LEMMA DriverTypesStep == TypeOK /\ [Next]_vars => DriverTypes'
<1> SUFFICES ASSUME TypeOK, [Next]_vars PROVE DriverTypes'
  OBVIOUS
<1> USE Threads, MetadataAssumption
<1> USE DEF TypeOK, LockTypes, CallTypes, ThreadTypes, ListTypes, StreamTypes,
            DriverTypes, Ask, Goto, lockVars, callVars, thrVars, streamVars, metaVars, devVars,
            ghostVars
<1>1. CASE PlayerCalls
  BY <1>1 DEF PlayerCalls, Write, Flush, Close, Enter, Pause, Resume, Drain, Idle,
     SendCmd, Signal, Cmd
<1>2. ASSUME NEW c \in Clients, Standby(c) PROVE DriverTypes'
  BY <1>2 DEF Standby, Enter
<1>3. ASSUME NEW c \in Clients, UnderLock(c) PROVE DriverTypes'
  BY <1>3 DEF UnderLock, StartOk, StartFails, SendMetadata, ClearNeedMeta,
     WriteFull, WriteShort, WriteFails, StartDevice, SendCmd, Signal, Cmd,
     EnterStandby, Stop, CheckBlocked, CloseDevice, AfterStop, Return,
     CloseStandbyDone, SendExit
<1>4. ASSUME NEW c \in Clients, Wakeup(c) \/ DestroyThread(c) \/ Join(c)
      PROVE  DriverTypes'
  BY <1>4 DEF Wakeup, DestroyThread, Join
<1>5. ASSUME NEW s \in Setters, StoreMetadata(s) \/ RaiseNeedMeta(s)
      PROVE  DriverTypes'
  BY <1>5 DEF StoreMetadata, RaiseNeedMeta
<1>6. CASE ThreadStep
  BY <1>6 DEF ThreadStep, ThreadStarts, ThreadInit, ThreadLocks, ThreadWaits,
     ThreadDrops, ThreadTakes, NextCmd, ThreadCalls, ThreadCallReturns,
     ThreadFinishes, ThreadExits, Signal, Cmd
<1>7. CASE SpuriousWakeup \/ UNCHANGED vars
  BY <1>7 DEF SpuriousWakeup, vars
<1> QED BY <1>1, <1>2, <1>3, <1>4, <1>5, <1>6, <1>7 DEF Next, ClientStep

(* The mutex.                                                              *)
LEMMA LockStep == IInv /\ [Next]_vars => LockInv'
<1> SUFFICES ASSUME IInv, [Next]_vars PROVE LockInv'
  OBVIOUS
<1> USE Threads
<1> USE DEF IInv, TypeOK, CallTypes, LockInv, Held, Goto, lockVars, callVars, thrVars, streamVars, metaVars,
            devVars, ghostVars
<1>1. CASE PlayerCalls
  BY <1>1 DEF PlayerCalls, Write, Flush, Close, Enter, Pause, Resume, Drain, Idle,
     Alive, SendCmd
<1>2. ASSUME NEW c \in Clients, Standby(c) PROVE LockInv'
  BY <1>2 DEF Standby, Enter, Alive
<1>3. ASSUME NEW c \in Clients, UnderLock(c) PROVE LockInv'
  BY <1>3 DEF UnderLock, StartOk, StartFails, SendMetadata, ClearNeedMeta,
     WriteFull, WriteShort, WriteFails, SendCmd, EnterStandby, Stop,
     CheckBlocked, CloseDevice, AfterStop, Return, CloseStandbyDone,
     SendExit, StartDevice
<1>4. ASSUME NEW c \in Clients, Wakeup(c) \/ DestroyThread(c) \/ Join(c)
      PROVE  LockInv'
  BY <1>4 DEF Wakeup, DestroyThread, Join
<1>5. ASSUME NEW s \in Setters, StoreMetadata(s) \/ RaiseNeedMeta(s)
      PROVE  LockInv'
  BY <1>5 DEF StoreMetadata, RaiseNeedMeta
<1>6. CASE ThreadStep
  BY <1>6 DEF ThreadStep, ThreadStarts, ThreadInit, ThreadLocks, ThreadWaits,
     ThreadDrops, ThreadTakes, NextCmd, ThreadCalls, ThreadCallReturns,
     ThreadFinishes, ThreadExits
<1>7. CASE SpuriousWakeup \/ UNCHANGED vars
  BY <1>7 DEF SpuriousWakeup, vars
<1> QED BY <1>1, <1>2, <1>3, <1>4, <1>5, <1>6, <1>7 DEF Next, ClientStep

(* The calls of the clients.                                               *)
LEMMA CallStep == IInv /\ [Next]_vars => CallInv'
<1> SUFFICES ASSUME IInv, [Next]_vars PROVE CallInv'
  OBVIOUS
<1> USE Threads
<1> USE DEF IInv, TypeOK, CallTypes, LockInv, CallInv, Held, ToStandby,
            Goto, lockVars, callVars, thrVars, streamVars, metaVars,
            devVars, ghostVars
<1>1. CASE PlayerCalls
  BY <1>1 DEF PlayerCalls, Write, Flush, Close, Enter, Pause, Resume, Drain, Idle,
     Alive, SendCmd
<1>2. ASSUME NEW c \in Clients, Standby(c) PROVE CallInv'
  BY <1>2 DEF Standby, Enter, Alive
<1>3. ASSUME NEW c \in Clients, UnderLock(c) PROVE CallInv'
  BY <1>3 DEF UnderLock, StartOk, StartFails, SendMetadata, ClearNeedMeta,
     WriteFull, WriteShort, WriteFails, SendCmd, EnterStandby, Stop,
     CheckBlocked, CloseDevice, AfterStop, Return, CloseStandbyDone,
     SendExit, StartDevice
<1>4. ASSUME NEW c \in Clients, Wakeup(c) \/ DestroyThread(c) \/ Join(c)
      PROVE  CallInv'
  BY <1>4 DEF Wakeup, DestroyThread, Join
<1>5. ASSUME NEW s \in Setters, StoreMetadata(s) \/ RaiseNeedMeta(s)
      PROVE  CallInv'
  BY <1>5 DEF StoreMetadata, RaiseNeedMeta
<1>6. CASE ThreadStep
  BY <1>6 DEF ThreadStep, ThreadStarts, ThreadInit, ThreadLocks, ThreadWaits,
     ThreadDrops, ThreadTakes, NextCmd, ThreadCalls, ThreadCallReturns,
     ThreadFinishes, ThreadExits
<1>7. CASE SpuriousWakeup \/ UNCHANGED vars
  BY <1>7 DEF SpuriousWakeup, vars
<1> QED BY <1>1, <1>2, <1>3, <1>4, <1>5, <1>6, <1>7 DEF Next, ClientStep

(* The standby flag and the device.                                        *)
LEMMA StandbyStep == IInv /\ [Next]_vars => StandbyInv'
<1> SUFFICES ASSUME IInv, [Next]_vars PROVE StandbyInv'
  OBVIOUS
<1> USE Threads
<1> USE DEF IInv, TypeOK, CallTypes, StreamTypes, LockInv, CallInv,
            StandbyInv, Stopping, Held, ToStandby, Goto, lockVars, callVars, thrVars, streamVars, metaVars,
            devVars, ghostVars
<1>1. CASE PlayerCalls
  BY <1>1 DEF PlayerCalls, Write, Flush, Close, Enter, Pause, Resume, Drain, Idle,
     Alive, SendCmd
<1>2. ASSUME NEW c \in Clients, Standby(c) PROVE StandbyInv'
  BY <1>2 DEF Standby, Enter, Alive
<1>3. ASSUME NEW c \in Clients, UnderLock(c) PROVE StandbyInv'
  BY <1>3 DEF UnderLock, StartOk, StartFails, SendMetadata, ClearNeedMeta,
     WriteFull, WriteShort, WriteFails, SendCmd, EnterStandby, Stop,
     CheckBlocked, CloseDevice, AfterStop, Return, CloseStandbyDone,
     SendExit, StartDevice
<1>4. ASSUME NEW c \in Clients, Wakeup(c) \/ DestroyThread(c) \/ Join(c)
      PROVE  StandbyInv'
  BY <1>4 DEF Wakeup, DestroyThread, Join
<1>5. ASSUME NEW s \in Setters, StoreMetadata(s) \/ RaiseNeedMeta(s)
      PROVE  StandbyInv'
  BY <1>5 DEF StoreMetadata, RaiseNeedMeta
<1>6. CASE ThreadStep
  BY <1>6 DEF ThreadStep, ThreadStarts, ThreadInit, ThreadLocks, ThreadWaits,
     ThreadDrops, ThreadTakes, NextCmd, ThreadCalls, ThreadCallReturns,
     ThreadFinishes, ThreadExits
<1>7. CASE SpuriousWakeup \/ UNCHANGED vars
  BY <1>7 DEF SpuriousWakeup, vars
<1> QED BY <1>1, <1>2, <1>3, <1>4, <1>5, <1>6, <1>7 DEF Next, ClientStep

(* The flag of the offload thread and the device.                          *)
LEMMA BlockedStep == IInv /\ [Next]_vars => BlockedInv'
<1> SUFFICES ASSUME IInv, [Next]_vars PROVE BlockedInv'
  OBVIOUS
<1> USE Threads
<1> USE DEF IInv, TypeOK, CallTypes, ThreadTypes, StreamTypes, LockInv,
            CallInv, StandbyInv, BlockedInv, Stopping, Held, ToStandby, Goto, lockVars, callVars, thrVars, streamVars, metaVars,
            devVars, ghostVars
<1>1. CASE PlayerCalls
  BY <1>1 DEF PlayerCalls, Write, Flush, Close, Enter, Pause, Resume, Drain, Idle,
     Alive, SendCmd
<1>2. ASSUME NEW c \in Clients, Standby(c) PROVE BlockedInv'
  BY <1>2 DEF Standby, Enter, Alive
<1>3. ASSUME NEW c \in Clients, UnderLock(c) PROVE BlockedInv'
  <2>1. CASE StartOk(c) \/ StartFails(c)
    BY <2>1 DEF StartOk, StartFails
  <2>2. CASE Stop(c) \/ CheckBlocked(c)
    BY <2>2 DEF Stop, CheckBlocked, AfterStop
  <2>3. CASE CloseDevice(c)
    BY <2>3 DEF CloseDevice
  <2>4. CASE \/ SendMetadata(c) \/ ClearNeedMeta(c) \/ EnterStandby(c)
             \/ WriteFull(c) \/ WriteShort(c) \/ WriteFails(c)
             \/ Return(c) \/ CloseStandbyDone(c) \/ SendExit(c)
    BY <2>4 DEF SendMetadata, ClearNeedMeta, EnterStandby, WriteFull,
       WriteShort, WriteFails, StartDevice, SendCmd, Return, CloseStandbyDone,
       SendExit
  <2> QED BY <1>3, <2>1, <2>2, <2>3, <2>4 DEF UnderLock
<1>4. ASSUME NEW c \in Clients, Wakeup(c) \/ DestroyThread(c) \/ Join(c)
      PROVE  BlockedInv'
  BY <1>4 DEF Wakeup, DestroyThread, Join
<1>5. ASSUME NEW s \in Setters, StoreMetadata(s) \/ RaiseNeedMeta(s)
      PROVE  BlockedInv'
  BY <1>5 DEF StoreMetadata, RaiseNeedMeta
<1>6. CASE ThreadStep
  BY <1>6 DEF ThreadStep, ThreadStarts, ThreadInit, ThreadLocks, ThreadWaits,
     ThreadDrops, ThreadTakes, NextCmd, ThreadCalls, ThreadCallReturns,
     ThreadFinishes, ThreadExits
<1>7. CASE SpuriousWakeup \/ UNCHANGED vars
  BY <1>7 DEF SpuriousWakeup, vars
<1> QED BY <1>1, <1>2, <1>3, <1>4, <1>5, <1>6, <1>7 DEF Next, ClientStep

(* The usecase.                                                            *)
LEMMA UsecaseStep == IInv /\ [Next]_vars => UsecaseInv'
<1> SUFFICES ASSUME IInv, [Next]_vars PROVE UsecaseInv'
  OBVIOUS
<1> USE Threads
<1> USE DEF IInv, TypeOK, StreamTypes, UsecaseInv, Goto, lockVars, callVars, thrVars, streamVars, metaVars,
            devVars, ghostVars
<1>1. CASE PlayerCalls
  BY <1>1 DEF PlayerCalls, Write, Flush, Close, Enter, Pause, Resume, Drain, Idle,
     Alive, SendCmd
<1>2. ASSUME NEW c \in Clients, Standby(c) PROVE UsecaseInv'
  BY <1>2 DEF Standby, Enter, Alive
<1>3. ASSUME NEW c \in Clients, UnderLock(c) PROVE UsecaseInv'
  BY <1>3 DEF UnderLock, StartOk, StartFails, SendMetadata, ClearNeedMeta,
     WriteFull, WriteShort, WriteFails, SendCmd, EnterStandby, Stop,
     CheckBlocked, CloseDevice, AfterStop, Return, CloseStandbyDone,
     SendExit, StartDevice
<1>4. ASSUME NEW c \in Clients, Wakeup(c) \/ DestroyThread(c) \/ Join(c)
      PROVE  UsecaseInv'
  BY <1>4 DEF Wakeup, DestroyThread, Join
<1>5. ASSUME NEW s \in Setters, StoreMetadata(s) \/ RaiseNeedMeta(s)
      PROVE  UsecaseInv'
  BY <1>5 DEF StoreMetadata, RaiseNeedMeta
<1>6. CASE ThreadStep
  BY <1>6 DEF ThreadStep, ThreadStarts, ThreadInit, ThreadLocks, ThreadWaits,
     ThreadDrops, ThreadTakes, NextCmd, ThreadCalls, ThreadCallReturns,
     ThreadFinishes, ThreadExits
<1>7. CASE SpuriousWakeup \/ UNCHANGED vars
  BY <1>7 DEF SpuriousWakeup, vars
<1> QED BY <1>1, <1>2, <1>3, <1>4, <1>5, <1>6, <1>7 DEF Next, ClientStep

(* The state and the driver.                                               *)
LEMMA StateStep == IInv /\ [Next]_vars => StateInv'
<1> SUFFICES ASSUME IInv, [Next]_vars PROVE StateInv'
  OBVIOUS
<1> USE Threads
<1> USE DEF IInv, TypeOK, CallTypes, StreamTypes, DriverTypes, LockInv, CallInv,
            StandbyInv, StateInv, StateMatchesDevice, SameState, Ask, Stopping,
            Held, ToStandby, Goto, lockVars, callVars, thrVars, streamVars,
            metaVars, devVars, ghostVars
<1>1. CASE PlayerCalls
  <2>1. CASE Write(Player) \/ Flush(Player) \/ Close(Player)
    BY <2>1 DEF Write, Flush, Close, Enter, Alive
  <2>2. CASE Pause(Player)
    BY <2>2 DEF Pause, Idle, Alive
  <2>3. CASE Resume(Player)
    BY <2>3 DEF Resume, Idle, Alive
  <2>4. ASSUME NEW cmd \in {"PARTIAL_DRAIN", "DRAIN"}, Drain(Player, cmd) PROVE StateInv'
    BY <2>4 DEF Drain, Idle, Alive, SendCmd
  <2> QED BY <1>1, <2>1, <2>2, <2>3, <2>4 DEF PlayerCalls
<1>2. ASSUME NEW c \in Clients, Standby(c) PROVE StateInv'
  BY <1>2 DEF Standby, Enter, Alive
<1>3. ASSUME NEW c \in Clients, StartOk(c) \/ StartFails(c) \/ SendMetadata(c) \/ ClearNeedMeta(c)
      PROVE  StateInv'
  BY <1>3 DEF StartOk, StartFails, SendMetadata, ClearNeedMeta
<1>4. ASSUME NEW c \in Clients, WriteFull(c) \/ WriteShort(c) \/ WriteFails(c)
      PROVE  StateInv'
  BY <1>4 DEF WriteFull, WriteShort, WriteFails, SendCmd, StartDevice
<1>5. ASSUME NEW c \in Clients, EnterStandby(c) \/ Stop(c) \/ CheckBlocked(c) \/ CloseDevice(c)
      PROVE  StateInv'
  BY <1>5 DEF EnterStandby, Stop, CheckBlocked, CloseDevice, AfterStop
<1>6. ASSUME NEW c \in Clients, Return(c) \/ CloseStandbyDone(c) \/ SendExit(c)
      PROVE  StateInv'
  BY <1>6 DEF Return, CloseStandbyDone, SendExit, SendCmd
<1>7. ASSUME NEW c \in Clients, Wakeup(c) \/ DestroyThread(c) \/ Join(c)
      PROVE  StateInv'
  BY <1>7 DEF Wakeup, DestroyThread, Join
<1>8. ASSUME NEW s \in Setters, StoreMetadata(s) \/ RaiseNeedMeta(s)
      PROVE  StateInv'
  BY <1>8 DEF StoreMetadata, RaiseNeedMeta
<1>9. CASE ThreadStep
  BY <1>9 DEF ThreadStep, ThreadStarts, ThreadInit, ThreadLocks, ThreadWaits,
     ThreadDrops, ThreadTakes, NextCmd, ThreadCalls, ThreadCallReturns,
     ThreadFinishes, ThreadExits
<1>10. CASE SpuriousWakeup \/ UNCHANGED vars
  BY <1>10 DEF SpuriousWakeup, vars
<1> QED BY <1>1, <1>2, <1>3, <1>4, <1>5, <1>6, <1>7, <1>8, <1>9, <1>10
        DEF Next, ClientStep, UnderLock

(* The variables keep their types.                                         *)
THEOREM TypeCorrect == Spec => []TypeOK
<1>1. Init => TypeOK
  BY InitIInv DEF IInv
<1>2. TypeOK /\ [Next]_vars => TypeOK'
  BY LockTypesStep, CallTypesStep, ThreadTypesStep, ListTypesStep,
     StreamTypesStep, DriverTypesStep DEF TypeOK
<1> QED BY <1>1, <1>2, PTL DEF Spec

(* The inductive invariant: the mutex is owned where it is held, the calls *)
(* of two clients that matter to the device exclude each other, the flags  *)
(* cover the window in which standby and device disagree, and the flag of  *)
(* the offload thread covers its driver call.                              *)
THEOREM Inductive == Spec => []IInv
<1>1. Init => IInv
  BY InitIInv
<1>2. IInv /\ [Next]_vars => IInv'
  BY LockTypesStep, CallTypesStep, ThreadTypesStep, ListTypesStep,
     StreamTypesStep, DriverTypesStep, LockStep, CallStep, StandbyStep,
     BlockedStep, UsecaseStep, StateStep DEF IInv, TypeOK
<1> QED BY <1>1, <1>2, PTL DEF Spec

(* However many threads force standby: the driver calls of the offload     *)
(* thread, which run without the lock, run on an open device.              *)
THEOREM CallsRunOnOpenDevice == Spec => []CallHandleLive
<1>1. IInv => CallHandleLive
  BY DEF IInv, BlockedInv, CallHandleLive
<1> QED BY <1>1, Inductive, PTL

(* A write that was let past the standby test has a device to write to.    *)
THEOREM WritesHaveDevice == Spec => []WriteHasDevice
<1>1. IInv => WriteHasDevice
  BY DEF IInv, StandbyInv, WriteHasDevice
<1> QED BY <1>1, Inductive, PTL

(* At rest the stream is in standby exactly when its device is closed, the *)
(* device is open only under its usecase, and the usecase is left behind   *)
(* only by a failed open.                                                  *)
THEOREM StandbyMatches == Spec => []StandbyMatchesHandle
<1>1. IInv => StandbyMatchesHandle
  <2> SUFFICES ASSUME IInv, lock = None, \A c \in Clients : pc[c] # "waiting"
               PROVE  /\ standby <=> compress = "null"
                      /\ compress = "open" => usecase
                      /\ usecase /\ compress = "null" => openFailed
    BY DEF StandbyMatchesHandle
  <2>1. \A c \in Clients : ~Stopping(c)
    BY Threads DEF IInv, LockInv, Held, Stopping
  <2> QED BY <2>1 DEF IInv, TypeOK, StreamTypes, StandbyInv, UsecaseInv
<1> QED BY <1>1, Inductive, PTL

(* The state the stream reports is the state of the driver.                *)
THEOREM StateMatches == Spec => []StateMatchesDevice
<1>1. IInv => StateMatchesDevice
  BY DEF IInv, StateInv
<1> QED BY <1>1, Inductive, PTL

(***************************************************************************)
(* While one thread at a time stops the stream no wake-up is lost.         *)
(***************************************************************************)
(* Who sleeps on the condition variable, and why.                          *)
WaitInv ==
    /\ \A c \in Clients : c \in waiters => pc[c] = "waiting" /\ blocked
    /\ Thread \in waiters => tpc = "waiting" /\ cmds = << >>

(* The signal for the end of a command finds one sleeper, and it is woken. *)
LEMMA FinishWakes ==
    ASSUME IInv, WaitInv, ~Rivals, ThreadFinishes PROVE waiters' = {}
<1> USE Threads
<1>1. waiters \subseteq Clients
  BY DEF IInv, TypeOK, LockTypes, BlockedInv, WaitInv, ThreadFinishes
<1>2. \A c, d \in waiters : c = d
  BY <1>1 DEF WaitInv, Rivals
<1>3. CASE waiters = {}
  BY <1>3 DEF ThreadFinishes, Signal
<1>4. CASE waiters # {}
  BY <1>2, <1>4 DEF ThreadFinishes, Signal
<1> QED BY <1>3, <1>4

LEMMA WaitStep ==
    IInv /\ WaitInv /\ ~Rivals /\ [Next]_vars => WaitInv'
<1> SUFFICES ASSUME IInv, WaitInv, ~Rivals, [Next]_vars PROVE WaitInv'
  OBVIOUS
<1> USE Threads
<1> USE DEF IInv, TypeOK, LockTypes, CallTypes, LockInv, BlockedInv, Held,
            WaitInv, Signal, Goto, lockVars, callVars, thrVars,
            streamVars, metaVars, devVars, ghostVars
<1>1. CASE PlayerCalls
  BY <1>1 DEF PlayerCalls, Write, Flush, Close, Enter, Pause, Resume, Drain, Idle,
     Alive, SendCmd
<1>2. ASSUME NEW c \in Clients, Standby(c) PROVE WaitInv'
  BY <1>2 DEF Standby, Enter, Alive
<1>3. ASSUME NEW c \in Clients, UnderLock(c) PROVE WaitInv'
  BY <1>3 DEF UnderLock, StartOk, StartFails, SendMetadata, ClearNeedMeta,
     WriteFull, WriteShort, WriteFails, SendCmd, EnterStandby, Stop,
     CheckBlocked, CloseDevice, AfterStop, Return, CloseStandbyDone,
     SendExit, StartDevice
<1>4. ASSUME NEW c \in Clients, Wakeup(c) \/ DestroyThread(c) \/ Join(c)
      PROVE  WaitInv'
  BY <1>4 DEF Wakeup, DestroyThread, Join
<1>5. ASSUME NEW s \in Setters, StoreMetadata(s) \/ RaiseNeedMeta(s)
      PROVE  WaitInv'
  BY <1>5 DEF StoreMetadata, RaiseNeedMeta
<1>6. CASE ThreadFinishes
  <2>1. waiters' = {}
    BY <1>6, FinishWakes
  <2> QED BY <2>1
<1>7. CASE ThreadStep /\ ~ThreadFinishes
  BY <1>7 DEF ThreadStep, ThreadStarts, ThreadInit, ThreadLocks, ThreadWaits,
     ThreadDrops, ThreadTakes, NextCmd, ThreadCalls, ThreadCallReturns,
     ThreadExits
<1>8. CASE SpuriousWakeup \/ UNCHANGED vars
  BY <1>8 DEF SpuriousWakeup, vars
<1> QED BY <1>1, <1>2, <1>3, <1>4, <1>5, <1>6, <1>7, <1>8 DEF Next, ClientStep, ThreadStep

(* As long as one thread at a time stops the stream, the one signal that   *)
(* the code sends for each event is enough, whatever the other threads do. *)
THEOREM NoLostWakeupAlone == Spec => LoneWakeups
<1>1. Init => WaitInv
  BY Threads DEF Init, WaitInv
<1>2. IInv /\ WaitInv /\ ~Rivals /\ [Next]_vars => WaitInv'
  BY WaitStep
<1>3. WaitInv => NoLostWakeup
  BY DEF WaitInv, NoLostWakeup
<1> QED BY <1>1, <1>2, <1>3, Inductive, PTL DEF Spec, LoneWakeups

(***************************************************************************)
(* The driver never plays without metadata.                                *)
(***************************************************************************)
(* While the driver has no metadata the next write will send it, also when *)
(* a stop sleeps between dropping the metadata and closing the device.     *)
MetaInv ==
    /\ devMeta = NoMeta => needMeta
    /\ \A c \in Clients :
        /\ pc[c] \in {"metaClear", "data"} => devMeta # NoMeta
        /\ Stopping(c) /\ pc[c] # "stop" => needMeta
    /\ PlayingHasMetadata

LEMMA MetaStep == IInv /\ MetaInv /\ [Next]_vars => MetaInv'
<1> SUFFICES ASSUME IInv, MetaInv, [Next]_vars PROVE MetaInv'
  OBVIOUS
<1> USE Threads, MetadataAssumption
<1> USE DEF IInv, TypeOK, LockTypes, CallTypes, ThreadTypes, StreamTypes, DriverTypes, LockInv, CallInv, StateInv, StateMatchesDevice, SameState, Ask, Held,
            MetaInv, PlayingHasMetadata, Stopping, ToStandby, Signal,
            Goto, lockVars, callVars, thrVars, streamVars, metaVars, devVars, ghostVars
<1>1. CASE PlayerCalls
  BY <1>1 DEF PlayerCalls, Write, Flush, Close, Enter, Pause, Resume, Drain, Idle,
     Alive, SendCmd
<1>2. ASSUME NEW c \in Clients, Standby(c) PROVE MetaInv'
  BY <1>2 DEF Standby, Enter, Alive
<1>3. ASSUME NEW c \in Clients, StartOk(c) \/ StartFails(c) \/ SendMetadata(c) \/ ClearNeedMeta(c)
      PROVE  MetaInv'
  BY <1>3 DEF StartOk, StartFails, SendMetadata, ClearNeedMeta
<1>4. ASSUME NEW c \in Clients, WriteFull(c) \/ WriteShort(c) \/ WriteFails(c)
      PROVE  MetaInv'
  BY <1>4 DEF WriteFull, WriteShort, WriteFails, SendCmd, StartDevice
<1>5. ASSUME NEW c \in Clients, EnterStandby(c) \/ Stop(c) \/ CheckBlocked(c) \/ CloseDevice(c)
      PROVE  MetaInv'
  BY <1>5 DEF EnterStandby, Stop, CheckBlocked, CloseDevice, AfterStop
<1>6. ASSUME NEW c \in Clients, Return(c) \/ CloseStandbyDone(c) \/ SendExit(c)
      PROVE  MetaInv'
  BY <1>6 DEF Return, CloseStandbyDone, SendExit, SendCmd
<1>7. ASSUME NEW c \in Clients, Wakeup(c) \/ DestroyThread(c) \/ Join(c)
      PROVE  MetaInv'
  BY <1>7 DEF Wakeup, DestroyThread, Join
<1>8. ASSUME NEW s \in Setters, StoreMetadata(s) \/ RaiseNeedMeta(s)
      PROVE  MetaInv'
  BY <1>8 DEF StoreMetadata, RaiseNeedMeta
<1>9. CASE ThreadStep
  BY <1>9 DEF ThreadStep, ThreadStarts, ThreadInit, ThreadLocks, ThreadWaits,
     ThreadDrops, ThreadTakes, NextCmd, ThreadCalls, ThreadCallReturns,
     ThreadFinishes, ThreadExits
<1>10. CASE SpuriousWakeup \/ UNCHANGED vars
  BY <1>10 DEF SpuriousWakeup, vars
<1> QED BY <1>1, <1>2, <1>3, <1>4, <1>5, <1>6, <1>7, <1>8, <1>9, <1>10
        DEF Next, ClientStep, UnderLock

(* A stop that drops the metadata in the driver makes the next write send  *)
(* it again, whoever else stops, flushes or sets parameters meanwhile.     *)
THEOREM NeverPlaysBare == Spec => []PlayingHasMetadata
<1>1. Init => MetaInv
  BY Threads, MetadataAssumption DEF Init, MetaInv, PlayingHasMetadata, Stopping, ToStandby
<1>2. IInv /\ MetaInv /\ [Next]_vars => MetaInv'
  BY MetaStep
<1>3. MetaInv => PlayingHasMetadata
  BY DEF MetaInv
<1> QED BY <1>1, <1>2, <1>3, Inductive, PTL DEF Spec

(***************************************************************************)
(* The stream obeys the contract of the compress device.                   *)
(***************************************************************************)
(* The handle and the device: closed together, and stopped for good from   *)
(* the stop of a client on its way into standby to its close.              *)
DeviceInv ==
    /\ dev = "closed" <=> compress = "null"
    /\ compress = "null" => devMeta = NoMeta
    /\ \A c \in Clients :
        /\ pc[c] = "start" => compress = "null"
        /\ Stopping(c) /\ pc[c] # "stop" => dev = "setup" /\ devMeta = NoMeta

LEMMA DeviceStep == IInv /\ DeviceInv /\ [Next]_vars => DeviceInv'
<1> SUFFICES ASSUME IInv, DeviceInv, [Next]_vars PROVE DeviceInv'
  OBVIOUS
<1> USE Threads, MetadataAssumption
<1> USE DEF IInv, TypeOK, LockTypes, CallTypes, StreamTypes, DriverTypes,
            LockInv, CallInv, StandbyInv, StateInv, StateMatchesDevice, SameState, Ask, Held,
            DeviceInv, Stopping, ToStandby, Signal, Goto,
            lockVars, callVars, thrVars, streamVars, metaVars, devVars, ghostVars
<1>1. CASE PlayerCalls
  BY <1>1 DEF PlayerCalls, Write, Flush, Close, Enter, Pause, Resume, Drain,
     Idle, Alive, SendCmd
<1>2. ASSUME NEW c \in Clients, Standby(c)
      PROVE  DeviceInv'
  BY <1>2 DEF Standby, Enter, Alive
<1>3. ASSUME NEW c \in Clients, StartOk(c) \/ StartFails(c) \/ SendMetadata(c) \/ ClearNeedMeta(c)
      PROVE  DeviceInv'
  BY <1>3 DEF StartOk, StartFails, SendMetadata, ClearNeedMeta
<1>4. ASSUME NEW c \in Clients, WriteFull(c) \/ WriteShort(c) \/ WriteFails(c)
      PROVE  DeviceInv'
  BY <1>4 DEF WriteFull, WriteShort, WriteFails, SendCmd, StartDevice
<1>5. ASSUME NEW c \in Clients, EnterStandby(c) \/ Stop(c) \/ CheckBlocked(c) \/ CloseDevice(c)
      PROVE  DeviceInv'
  BY <1>5 DEF EnterStandby, Stop, CheckBlocked, CloseDevice, AfterStop
<1>6. ASSUME NEW c \in Clients, Return(c) \/ CloseStandbyDone(c) \/ SendExit(c)
      PROVE  DeviceInv'
  BY <1>6 DEF Return, CloseStandbyDone, SendExit, SendCmd
<1>7. ASSUME NEW c \in Clients, Wakeup(c) \/ DestroyThread(c) \/ Join(c)
      PROVE  DeviceInv'
  BY <1>7 DEF Wakeup, DestroyThread, Join
<1>8. ASSUME NEW s \in Setters, StoreMetadata(s) \/ RaiseNeedMeta(s)
      PROVE  DeviceInv'
  BY <1>8 DEF StoreMetadata, RaiseNeedMeta
<1>9. CASE ThreadStep
  BY <1>9 DEF ThreadStep, ThreadStarts, ThreadInit, ThreadLocks, ThreadWaits,
     ThreadDrops, ThreadTakes, NextCmd, ThreadCalls, ThreadCallReturns,
     ThreadFinishes, ThreadExits
<1>10. CASE SpuriousWakeup \/ UNCHANGED vars
  BY <1>10 DEF SpuriousWakeup, vars
<1> QED BY <1>1, <1>2, <1>3, <1>4, <1>5, <1>6, <1>7, <1>8, <1>9, <1>10
        DEF Next, ClientStep, UnderLock

(* Each step of the stream is a step of the device's contract or none.     *)
LEMMA DriverStep ==
  ASSUME IInv, MetaInv, DeviceInv, [Next]_vars
  PROVE  [Driver!DriverNext]_(Driver!driverVars)
<1> USE Threads, MetadataAssumption
<1> USE DEF IInv, TypeOK, LockTypes, CallTypes, ThreadTypes, StreamTypes,
            DriverTypes, LockInv, CallInv, StandbyInv, BlockedInv, StateInv,
            StateMatchesDevice, SameState, Ask, Held, MetaInv, DeviceInv, Stopping, ToStandby,
            Signal, Goto, lockVars, callVars, thrVars, streamVars, metaVars,
            devVars, ghostVars, Driver!driverVars, Driver!DriverNext,
            Driver!Open, Driver!SetMetadata, Driver!Start, Driver!Pause,
            Driver!Resume, Driver!Stop, Driver!Close, Driver!CallBegins,
            Driver!CallReturns
<1>1. CASE PlayerCalls
  BY <1>1 DEF PlayerCalls, Write, Flush, Close, Enter, Pause, Resume, Drain,
     Idle, Alive, SendCmd
<1>2. ASSUME NEW c \in Clients, Standby(c)
      PROVE  [Driver!DriverNext]_(Driver!driverVars)
  BY <1>2 DEF Standby, Enter, Alive
<1>3. ASSUME NEW c \in Clients, StartOk(c) \/ StartFails(c) \/ SendMetadata(c) \/ ClearNeedMeta(c)
      PROVE  [Driver!DriverNext]_(Driver!driverVars)
  BY <1>3 DEF StartOk, StartFails, SendMetadata, ClearNeedMeta
<1>4. ASSUME NEW c \in Clients, WriteFull(c) \/ WriteShort(c) \/ WriteFails(c)
      PROVE  [Driver!DriverNext]_(Driver!driverVars)
  BY <1>4 DEF WriteFull, WriteShort, WriteFails, SendCmd, StartDevice
<1>5. ASSUME NEW c \in Clients, EnterStandby(c) \/ Stop(c) \/ CheckBlocked(c) \/ CloseDevice(c)
      PROVE  [Driver!DriverNext]_(Driver!driverVars)
  BY <1>5 DEF EnterStandby, Stop, CheckBlocked, CloseDevice, AfterStop
<1>6. ASSUME NEW c \in Clients, Return(c) \/ CloseStandbyDone(c) \/ SendExit(c)
      PROVE  [Driver!DriverNext]_(Driver!driverVars)
  BY <1>6 DEF Return, CloseStandbyDone, SendExit, SendCmd
<1>7. ASSUME NEW c \in Clients, Wakeup(c) \/ DestroyThread(c) \/ Join(c)
      PROVE  [Driver!DriverNext]_(Driver!driverVars)
  BY <1>7 DEF Wakeup, DestroyThread, Join
<1>8. ASSUME NEW s \in Setters, StoreMetadata(s) \/ RaiseNeedMeta(s)
      PROVE  [Driver!DriverNext]_(Driver!driverVars)
  BY <1>8 DEF StoreMetadata, RaiseNeedMeta
<1>9. CASE ThreadStep
  BY <1>9 DEF ThreadStep, ThreadStarts, ThreadInit, ThreadLocks, ThreadWaits,
     ThreadDrops, ThreadTakes, NextCmd, ThreadCalls, ThreadCallReturns,
     ThreadFinishes, ThreadExits
<1>10. CASE SpuriousWakeup \/ UNCHANGED vars
  BY <1>10 DEF SpuriousWakeup, vars
<1> QED BY <1>1, <1>2, <1>3, <1>4, <1>5, <1>6, <1>7, <1>8, <1>9, <1>10
        DEF Next, ClientStep, UnderLock

(* For any controllers, setters and metadata the stream implements the     *)
(* contract of the compress device: the handshake over                     *)
(* is_audio_offload_thread_blocked and the flag for the metadata are       *)
(* enough, although the blocking calls are made without the lock.          *)
THEOREM StreamObeysDriver == Spec => ObeysDriver
<1>1. Init => Driver!DriverInit /\ MetaInv /\ DeviceInv
  BY Threads, MetadataAssumption DEF Init, Driver!DriverInit, MetaInv, DeviceInv,
     PlayingHasMetadata, Stopping, ToStandby
<1>2. IInv /\ MetaInv /\ [Next]_vars => MetaInv'
  BY MetaStep
<1>3. IInv /\ DeviceInv /\ [Next]_vars => DeviceInv'
  BY DeviceStep
<1>4. IInv /\ MetaInv /\ DeviceInv /\ [Next]_vars => [Driver!DriverNext]_(Driver!driverVars)
  BY DriverStep
<1> QED BY <1>1, <1>2, <1>3, <1>4, Inductive, PTL DEF Spec, ObeysDriver, Driver!DriverSpec

(***************************************************************************)
(* What a close leaves behind.                                             *)
(***************************************************************************)
(* The owner of the mutex is in a critical section, a sleeper in a wait.   *)
OwnerInv ==
    /\ lock = Thread => tpc = "top"
    /\ Thread \in waiters => tpc = "waiting"
    /\ \A c \in Clients : lock = c => pc[c] \in Held
    /\ \A c \in Clients : c \in waiters => pc[c] = "waiting"

(* The thread exits only for a client that waits to join it, and nothing   *)
(* is queued from then on.                                                 *)
ExitInv ==
    /\ \A c \in Clients : op[c] = "destroy" => compress = "null" /\ standby
    /\ \A i \in 1 .. Len(cmds) : cmds[i] = "EXIT" => \E c \in Clients : pc[c] = "join"
    /\ tpc = "exited" => /\ cmds = << >>
                         /\ \E c \in Clients : pc[c] \in {"join", "closed"}
    /\ \A c \in Clients : pc[c] = "closed" => tpc = "exited"

LEMMA OwnerStep == IInv /\ OwnerInv /\ [Next]_vars => OwnerInv'
<1> SUFFICES ASSUME IInv, OwnerInv, [Next]_vars PROVE OwnerInv'
  OBVIOUS
<1> USE Threads
<1> USE DEF IInv, TypeOK, LockTypes, CallTypes, ThreadTypes, StreamTypes, DriverTypes, LockInv, BlockedInv, Held, OwnerInv, Signal,
            Goto, lockVars, callVars, thrVars, streamVars, metaVars, devVars, ghostVars
<1>1. CASE PlayerCalls
  BY <1>1 DEF PlayerCalls, Write, Flush, Close, Enter, Pause, Resume, Drain, Idle,
     Alive, SendCmd
<1>2. ASSUME NEW c \in Clients, Standby(c) PROVE OwnerInv'
  BY <1>2 DEF Standby, Enter, Alive
<1>3. ASSUME NEW c \in Clients, StartOk(c) \/ StartFails(c) \/ SendMetadata(c) \/ ClearNeedMeta(c)
      PROVE  OwnerInv'
  BY <1>3 DEF StartOk, StartFails, SendMetadata, ClearNeedMeta
<1>4. ASSUME NEW c \in Clients, WriteFull(c) \/ WriteShort(c) \/ WriteFails(c)
      PROVE  OwnerInv'
  BY <1>4 DEF WriteFull, WriteShort, WriteFails, SendCmd, StartDevice
<1>5. ASSUME NEW c \in Clients, EnterStandby(c) \/ Stop(c) \/ CheckBlocked(c) \/ CloseDevice(c)
      PROVE  OwnerInv'
  BY <1>5 DEF EnterStandby, Stop, CheckBlocked, CloseDevice, AfterStop
<1>6. ASSUME NEW c \in Clients, Return(c) \/ CloseStandbyDone(c) \/ SendExit(c)
      PROVE  OwnerInv'
  BY <1>6 DEF Return, CloseStandbyDone, SendExit, SendCmd
<1>7. ASSUME NEW c \in Clients, Wakeup(c) \/ DestroyThread(c) \/ Join(c)
      PROVE  OwnerInv'
  BY <1>7 DEF Wakeup, DestroyThread, Join
<1>8. ASSUME NEW s \in Setters, StoreMetadata(s) \/ RaiseNeedMeta(s)
      PROVE  OwnerInv'
  BY <1>8 DEF StoreMetadata, RaiseNeedMeta
<1>9. CASE ThreadStep
  BY <1>9 DEF ThreadStep, ThreadStarts, ThreadInit, ThreadLocks, ThreadWaits,
     ThreadDrops, ThreadTakes, NextCmd, ThreadCalls, ThreadCallReturns,
     ThreadFinishes, ThreadExits
<1>10. CASE SpuriousWakeup \/ UNCHANGED vars
  BY <1>10 DEF SpuriousWakeup, vars
<1> QED BY <1>1, <1>2, <1>3, <1>4, <1>5, <1>6, <1>7, <1>8, <1>9, <1>10
        DEF Next, ClientStep, UnderLock

LEMMA ExitStep == IInv /\ ExitInv /\ [Next]_vars => ExitInv'
<1> SUFFICES ASSUME IInv, ExitInv, [Next]_vars PROVE ExitInv'
  OBVIOUS
<1> USE Threads
<1> USE DEF IInv, TypeOK, LockTypes, CallTypes, ThreadTypes, StreamTypes, DriverTypes, ListTypes, LockInv, CallInv, StandbyInv, Stopping,
            ToStandby, Held, ExitInv, Cmd, Signal, Goto, lockVars, callVars, thrVars, streamVars, metaVars, devVars, ghostVars
<1>1. CASE PlayerCalls
  BY <1>1 DEF PlayerCalls, Write, Flush, Close, Enter, Pause, Resume, Drain, Idle,
     Alive, SendCmd
<1>2. ASSUME NEW c \in Clients, Standby(c) PROVE ExitInv'
  BY <1>2 DEF Standby, Enter, Alive
<1>3. ASSUME NEW c \in Clients, StartOk(c) \/ StartFails(c) \/ SendMetadata(c) \/ ClearNeedMeta(c)
      PROVE  ExitInv'
  BY <1>3 DEF StartOk, StartFails, SendMetadata, ClearNeedMeta
<1>4. ASSUME NEW c \in Clients, WriteFull(c) \/ WriteShort(c) \/ WriteFails(c)
      PROVE  ExitInv'
  BY <1>4 DEF WriteFull, WriteShort, WriteFails, SendCmd, StartDevice
<1>5. ASSUME NEW c \in Clients, EnterStandby(c) \/ Stop(c) \/ CheckBlocked(c) \/ CloseDevice(c)
      PROVE  ExitInv'
  BY <1>5 DEF EnterStandby, Stop, CheckBlocked, CloseDevice, AfterStop
<1>6. ASSUME NEW c \in Clients, Return(c) \/ CloseStandbyDone(c) \/ SendExit(c)
      PROVE  ExitInv'
  BY <1>6 DEF Return, CloseStandbyDone, SendExit, SendCmd
<1>7. ASSUME NEW c \in Clients, Wakeup(c) \/ DestroyThread(c) \/ Join(c)
      PROVE  ExitInv'
  BY <1>7 DEF Wakeup, DestroyThread, Join
<1>8. ASSUME NEW s \in Setters, StoreMetadata(s) \/ RaiseNeedMeta(s)
      PROVE  ExitInv'
  BY <1>8 DEF StoreMetadata, RaiseNeedMeta
<1>9. CASE ThreadStep
  BY <1>9 DEF ThreadStep, ThreadStarts, ThreadInit, ThreadLocks, ThreadWaits,
     ThreadDrops, ThreadTakes, NextCmd, ThreadCalls, ThreadCallReturns,
     ThreadFinishes, ThreadExits
<1>10. CASE SpuriousWakeup \/ UNCHANGED vars
  BY <1>10 DEF SpuriousWakeup, vars
<1> QED BY <1>1, <1>2, <1>3, <1>4, <1>5, <1>6, <1>7, <1>8, <1>9, <1>10
        DEF Next, ClientStep, UnderLock

(* When close has returned the offload thread is gone, nobody sleeps on or *)
(* owns what close destroys, and neither device nor command is left.       *)
THEOREM CloseIsClean == Spec => []ClosedIsClean
<1>1. Init => OwnerInv /\ ExitInv
  BY Threads DEF Init, OwnerInv, ExitInv
<1>2. IInv /\ OwnerInv /\ ExitInv /\ [Next]_vars => OwnerInv' /\ ExitInv'
  BY OwnerStep, ExitStep
<1>3. IInv /\ OwnerInv /\ ExitInv => ClosedIsClean
  <2> SUFFICES ASSUME IInv, OwnerInv, ExitInv, pc[Player] = "closed"
               PROVE  /\ tpc = "exited" /\ waiters = {} /\ cmds = << >>
                      /\ compress = "null" /\ standby /\ lock = None
    BY DEF ClosedIsClean
  <2>1. op[Player] = "destroy" /\ \A d \in Clients \ {Player} : pc[d] = "idle"
    BY Threads DEF IInv, CallInv
  <2>2. \A c \in Clients : pc[c] \notin Held \cup {"waiting"}
    BY <2>1, Threads DEF Held
  <2>3. tpc = "exited"
    BY Threads DEF ExitInv
  <2>4. waiters = {} /\ lock = None
    BY <2>2, <2>3, Threads DEF IInv, TypeOK, LockTypes, OwnerInv
  <2> QED BY <2>1, <2>3, <2>4, Threads DEF ExitInv
<1> QED BY <1>1, <1>2, <1>3, Inductive, PTL DEF Spec
=============================================================================
