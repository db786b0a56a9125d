--------------------------- MODULE SamplesProofs ----------------------------
(***************************************************************************)
(* What the runs of Samples check, proved of any constants.  LinkMgr,      *)
(* TaskThread and Framing have proofs of their own, which are cited here:  *)
(* a step of the component in the sum is a step of the component there.    *)
(* Nego and UdpClient are proved here, each by an invariant of what is on  *)
(* its way and upon what it was sent.                                      *)
(***************************************************************************)
EXTENDS Samples, Sequences, FiniteSets, FiniteSetTheorems, SequenceTheorems, TLAPS

MgrProofs == INSTANCE LinkMgrProofs WITH pc <- mgr_pc
QueueProofs == INSTANCE TaskThreadProofs
FrameProofs == INSTANCE FramingProofs

-----------------------------------------------------------------------------
(* The table of clients (LinkMgr).                                         *)

(* A step of LinkMgr is the same here as in its proofs, action by action.  *)
LEMMA MgrIsLinkMgr == [Mgr!Next]_(Mgr!vars) => [MgrProofs!Next]_(MgrProofs!vars)
  <1>1. \A t : Mgr!DelLink(t) <=> MgrProofs!DelLink(t)
    BY DEF Mgr!DelLink, MgrProofs!DelLink, Mgr!Wrapper!Remove, MgrProofs!Wrapper!Remove,
           Mgr!contractVars, MgrProofs!contractVars, Mgr!Goto, MgrProofs!Goto, Mgr!Stay,
           MgrProofs!Stay, Mgr!locks, MgrProofs!locks, Mgr!history, MgrProofs!history,
           Mgr!Wrapper!Announces, MgrProofs!Wrapper!Announces, Mgr!Wrapper!Hurry,
           MgrProofs!Wrapper!Hurry, Mgr!Wrapper!Announced, MgrProofs!Wrapper!Announced
  <1>2. \A t : Mgr!TestSocket(t) <=> MgrProofs!TestSocket(t)
    BY DEF Mgr!TestSocket, MgrProofs!TestSocket, Mgr!Goto, MgrProofs!Goto, Mgr!Stay,
           MgrProofs!Stay, Mgr!contractVars, MgrProofs!contractVars, Mgr!locks,
           MgrProofs!locks, Mgr!history, MgrProofs!history
  <1>3. \A t : Mgr!TellClosed(t) <=> MgrProofs!TellClosed(t)
    BY DEF Mgr!TellClosed, MgrProofs!TellClosed, Mgr!Wrapper!Deliver,
           MgrProofs!Wrapper!Deliver, Mgr!Goto, MgrProofs!Goto, Mgr!Stay, MgrProofs!Stay,
           Mgr!locks, MgrProofs!locks, Mgr!contractVars, MgrProofs!contractVars,
           Mgr!Wrapper!Announces, MgrProofs!Wrapper!Announces,
           Mgr!Wrapper!Announced, MgrProofs!Wrapper!Announced
  <1>4. \A t : Mgr!LinkRemove(t) <=> MgrProofs!LinkRemove(t)
    BY DEF Mgr!LinkRemove, MgrProofs!LinkRemove, Mgr!Goto, MgrProofs!Goto, Mgr!Stay,
           MgrProofs!Stay, Mgr!contractVars, MgrProofs!contractVars, Mgr!locks,
           MgrProofs!locks, Mgr!IsCreating, MgrProofs!IsCreating, Mgr!Creating,
           MgrProofs!Creating
  <1>5. \A l : Mgr!Accept(l) <=> MgrProofs!Accept(l)
    BY DEF Mgr!Accept, MgrProofs!Accept, Mgr!Listening, MgrProofs!Listening,
           Mgr!Wrapper!Publish, MgrProofs!Wrapper!Publish, Mgr!Take, MgrProofs!Take,
           Mgr!locks, MgrProofs!locks, Mgr!history, MgrProofs!history, Mgr!SetupPC,
           MgrProofs!SetupPC, Mgr!Goto, MgrProofs!Goto, Mgr!Init, MgrProofs!Init,
           Mgr!Wrapper!Init, MgrProofs!Wrapper!Init, Mgr!Links, MgrProofs!Links,
           Mgr!Threads, MgrProofs!Threads
  <1>6. (Mgr!TellAccepted <=> MgrProofs!TellAccepted)
    BY DEF Mgr!TellAccepted, MgrProofs!TellAccepted, Mgr!Wrapper!Deliver,
           MgrProofs!Wrapper!Deliver, Mgr!Goto, MgrProofs!Goto, Mgr!Stay, MgrProofs!Stay,
           Mgr!locks, MgrProofs!locks, Mgr!history, MgrProofs!history,
           Mgr!Wrapper!Announces, MgrProofs!Wrapper!Announces
  <1>7. (Mgr!LinkCreate <=> MgrProofs!LinkCreate)
    BY DEF Mgr!LinkCreate, MgrProofs!LinkCreate, Mgr!Goto, MgrProofs!Goto, Mgr!Stay,
           MgrProofs!Stay, Mgr!contractVars, MgrProofs!contractVars, Mgr!history,
           MgrProofs!history
  <1>8. (Mgr!GetLinkAddr <=> MgrProofs!GetLinkAddr)
    BY DEF Mgr!GetLinkAddr, MgrProofs!GetLinkAddr, Mgr!Goto, MgrProofs!Goto, Mgr!Stay,
           MgrProofs!Stay, Mgr!contractVars, MgrProofs!contractVars, Mgr!locks,
           MgrProofs!locks, Mgr!history, MgrProofs!history
  <1>9. (Mgr!Insert <=> MgrProofs!Insert)
    BY DEF Mgr!Insert, MgrProofs!Insert, Mgr!Goto, MgrProofs!Goto, Mgr!Stay,
           MgrProofs!Stay, Mgr!contractVars, MgrProofs!contractVars, Mgr!history,
           MgrProofs!history
  <1>10. \A l : Mgr!FindLink(l) <=> MgrProofs!FindLink(l)
    BY DEF Mgr!FindLink, MgrProofs!FindLink, Mgr!Served, MgrProofs!Served, Mgr!Take,
           MgrProofs!Take, Mgr!Call, MgrProofs!Call, Mgr!contractVars,
           MgrProofs!contractVars, Mgr!locks, MgrProofs!locks, Mgr!history,
           MgrProofs!history, Mgr!Wrapper!Announces, MgrProofs!Wrapper!Announces,
           Mgr!Wrapper!Announced, MgrProofs!Wrapper!Announced, Mgr!Goto, MgrProofs!Goto
  <1>11. (Mgr!HangUp <=> MgrProofs!HangUp)
    BY DEF Mgr!HangUp, MgrProofs!HangUp, Mgr!Wrapper!Deliver, MgrProofs!Wrapper!Deliver,
           Mgr!Call, MgrProofs!Call, Mgr!locks, MgrProofs!locks, Mgr!history,
           MgrProofs!history, Mgr!Wrapper!Announces, MgrProofs!Wrapper!Announces,
           Mgr!Wrapper!Announced, MgrProofs!Wrapper!Announced, Mgr!Goto, MgrProofs!Goto
  <1>12. (Mgr!HungUp <=> MgrProofs!HungUp)
    BY DEF Mgr!HungUp, MgrProofs!HungUp, Mgr!Wrapper!Remove, MgrProofs!Wrapper!Remove,
           Mgr!contractVars, MgrProofs!contractVars, Mgr!Goto, MgrProofs!Goto, Mgr!Stay,
           MgrProofs!Stay, Mgr!locks, MgrProofs!locks, Mgr!history, MgrProofs!history,
           Mgr!Wrapper!Announces, MgrProofs!Wrapper!Announces,
           Mgr!Wrapper!Announced, MgrProofs!Wrapper!Announced
  <1>13. (Mgr!TellData <=> MgrProofs!TellData)
    BY DEF Mgr!TellData, MgrProofs!TellData, Mgr!Wrapper!Deliver,
           MgrProofs!Wrapper!Deliver, Mgr!Goto, MgrProofs!Goto, Mgr!Stay, MgrProofs!Stay,
           Mgr!locks, MgrProofs!locks, Mgr!history, MgrProofs!history,
           Mgr!Wrapper!Announces, MgrProofs!Wrapper!Announces,
           Mgr!Wrapper!Announced, MgrProofs!Wrapper!Announced
  <1>14. (Mgr!LinkRecvData <=> MgrProofs!LinkRecvData)
    BY DEF Mgr!LinkRecvData, MgrProofs!LinkRecvData, Mgr!Goto, MgrProofs!Goto, Mgr!Stay,
           MgrProofs!Stay, Mgr!contractVars, MgrProofs!contractVars, Mgr!locks,
           MgrProofs!locks
  <1>15. (Mgr!RecvData <=> MgrProofs!RecvData)
    BY DEF Mgr!RecvData, MgrProofs!RecvData, Mgr!Goto, MgrProofs!Goto, Mgr!Stay,
           MgrProofs!Stay, Mgr!contractVars, MgrProofs!contractVars, Mgr!locks,
           MgrProofs!locks, Mgr!history, MgrProofs!history
  <1>16. (Mgr!Flush <=> MgrProofs!Flush)
    BY DEF Mgr!Flush, MgrProofs!Flush, Mgr!Goto, MgrProofs!Goto, Mgr!Stay, MgrProofs!Stay,
           Mgr!contractVars, MgrProofs!contractVars, Mgr!history, MgrProofs!history
  <1>17. (Mgr!EndFlush <=> MgrProofs!EndFlush)
    BY DEF Mgr!EndFlush, MgrProofs!EndFlush, Mgr!Goto, MgrProofs!Goto, Mgr!Stay,
           MgrProofs!Stay, Mgr!contractVars, MgrProofs!contractVars, Mgr!history,
           MgrProofs!history
  <1>18. \A l : Mgr!Expire(l) <=> MgrProofs!Expire(l)
    BY DEF Mgr!Expire, MgrProofs!Expire, Mgr!Call, MgrProofs!Call, Mgr!contractVars,
           MgrProofs!contractVars, Mgr!locks, MgrProofs!locks, Mgr!history,
           MgrProofs!history, Mgr!Goto, MgrProofs!Goto
  <1>19. \A t : Mgr!Exit(t) <=> MgrProofs!Exit(t)
    BY DEF Mgr!Exit, MgrProofs!Exit, Mgr!Goto, MgrProofs!Goto, Mgr!Stay, MgrProofs!Stay,
           Mgr!contractVars, MgrProofs!contractVars, Mgr!locks, MgrProofs!locks,
           Mgr!history, MgrProofs!history
  <1>20. (Mgr!TcpCreate <=> MgrProofs!TcpCreate)
    BY DEF Mgr!TcpCreate, MgrProofs!TcpCreate, Mgr!Init, MgrProofs!Init,
           Mgr!Wrapper!Publish, MgrProofs!Wrapper!Publish, Mgr!Take, MgrProofs!Take,
           Mgr!locks, MgrProofs!locks, Mgr!history, MgrProofs!history, Mgr!Wrapper!Init,
           MgrProofs!Wrapper!Init, Mgr!Links, MgrProofs!Links, Mgr!Threads,
           MgrProofs!Threads, Mgr!Goto, MgrProofs!Goto
  <1>21. (Mgr!TellCreated <=> MgrProofs!TellCreated)
    BY DEF Mgr!TellCreated, MgrProofs!TellCreated, Mgr!Wrapper!Deliver,
           MgrProofs!Wrapper!Deliver, Mgr!Goto, MgrProofs!Goto, Mgr!Stay, MgrProofs!Stay,
           Mgr!locks, MgrProofs!locks, Mgr!history, MgrProofs!history,
           Mgr!Wrapper!Announces, MgrProofs!Wrapper!Announces
  <1>22. (Mgr!Created <=> MgrProofs!Created)
    BY DEF Mgr!Created, MgrProofs!Created, Mgr!Goto, MgrProofs!Goto, Mgr!Stay,
           MgrProofs!Stay, Mgr!contractVars, MgrProofs!contractVars, Mgr!locks,
           MgrProofs!locks, Mgr!history, MgrProofs!history
  <1>23. (Mgr!Listen <=> MgrProofs!Listen)
    BY DEF Mgr!Listen, MgrProofs!Listen, Mgr!Call, MgrProofs!Call, Mgr!contractVars,
           MgrProofs!contractVars, Mgr!locks, MgrProofs!locks, Mgr!history,
           MgrProofs!history, Mgr!Goto, MgrProofs!Goto
  <1>24. (Mgr!UnInit <=> MgrProofs!UnInit)
    BY DEF Mgr!UnInit, MgrProofs!UnInit, Mgr!Goto, MgrProofs!Goto, Mgr!Stay,
           MgrProofs!Stay, Mgr!contractVars, MgrProofs!contractVars, Mgr!locks,
           MgrProofs!locks, Mgr!history, MgrProofs!history
  <1>25. (Mgr!DestroyNext <=> MgrProofs!DestroyNext)
    BY DEF Mgr!DestroyNext, MgrProofs!DestroyNext, Mgr!Call, MgrProofs!Call,
           Mgr!contractVars, MgrProofs!contractVars, Mgr!locks, MgrProofs!locks, Mgr!Goto,
           MgrProofs!Goto
  <1>26. (Mgr!TcpUninit <=> MgrProofs!TcpUninit)
    BY DEF Mgr!TcpUninit, MgrProofs!TcpUninit, Mgr!Call, MgrProofs!Call, Mgr!contractVars,
           MgrProofs!contractVars, Mgr!locks, MgrProofs!locks, Mgr!history,
           MgrProofs!history, Mgr!Goto, MgrProofs!Goto
  <1>27. (Mgr!FreeAll <=> MgrProofs!FreeAll)
    BY DEF Mgr!FreeAll, MgrProofs!FreeAll, Mgr!Links, MgrProofs!Links, Mgr!Goto,
           MgrProofs!Goto, Mgr!Stay, MgrProofs!Stay, Mgr!Call, MgrProofs!Call,
           Mgr!contractVars, MgrProofs!contractVars, Mgr!locks, MgrProofs!locks,
           Mgr!history, MgrProofs!history
  <1>28. (Mgr!Ended <=> MgrProofs!Ended)
    BY DEF Mgr!Ended, MgrProofs!Ended, Mgr!vars, MgrProofs!vars, Mgr!contractVars,
           MgrProofs!contractVars, Mgr!locks, MgrProofs!locks, Mgr!history,
           MgrProofs!history
  <1> QED
    BY <1>1, <1>2, <1>3, <1>4, <1>5, <1>6, <1>7, <1>8, <1>9, <1>10, <1>11, <1>12, <1>13,
       <1>14, <1>15, <1>16, <1>17, <1>18, <1>19, <1>20, <1>21, <1>22, <1>23, <1>24, <1>25,
       <1>26, <1>27, <1>28
    DEF Mgr!Destroying, MgrProofs!Destroying, Mgr!WorkerStep, MgrProofs!WorkerStep,
        Mgr!MainStep, MgrProofs!MainStep, Mgr!Next, MgrProofs!Next, Mgr!Threads,
        MgrProofs!Threads, Mgr!vars, MgrProofs!vars, Mgr!contractVars,
        MgrProofs!contractVars, Mgr!locks, MgrProofs!locks, Mgr!history, MgrProofs!history

(* So are its properties.                                                  *)
LEMMA MgrPredicates ==
    /\ MgrProofs!TypeOK /\ MgrProofs!ClientIsKnown /\ MgrProofs!UnheardIsGone
    /\ MgrProofs!NoZombie /\ MgrProofs!SnapshotIsRemoved /\ MgrProofs!UnInitLeavesNothing
    => TableIsTrue
  BY DEF Mgr!TypeOK, MgrProofs!TypeOK, Mgr!ClientIsKnown, MgrProofs!ClientIsKnown,
         Mgr!UnheardIsGone, MgrProofs!UnheardIsGone, Mgr!NoZombie, MgrProofs!NoZombie,
         Mgr!SnapshotIsRemoved, MgrProofs!SnapshotIsRemoved, Mgr!UnInitLeavesNothing,
         MgrProofs!UnInitLeavesNothing, Mgr!Links, MgrProofs!Links, Mgr!Wrapper!Kinds,
         MgrProofs!Wrapper!Kinds, Mgr!Threads, MgrProofs!Threads, Mgr!WorkerPC,
         MgrProofs!WorkerPC, Mgr!ClosingPC, MgrProofs!ClosingPC, Mgr!MainPC,
         MgrProofs!MainPC, Mgr!Served, MgrProofs!Served, Mgr!Creating, MgrProofs!Creating,
         Mgr!Wrapper!Farewells, MgrProofs!Wrapper!Farewells, Mgr!LeavingIt,
         MgrProofs!LeavingIt, Mgr!SetupPC, MgrProofs!SetupPC, Mgr!Wrapper!Announces,
         MgrProofs!Wrapper!Announces, Mgr!Init, MgrProofs!Init, Mgr!Wrapper!Init,
         MgrProofs!Wrapper!Init, Mgr!Wrapper!Announced, MgrProofs!Wrapper!Announced,
         Mgr!IsCreating, MgrProofs!IsCreating, Mgr!Gone, MgrProofs!Gone, TableIsTrue

(* Its constants, its initial states and its steps are those of the        *)
(* proofs, whichever component runs.                                       *)
LEMMA MgrBehaves == MgrProofs!ConstantsOK /\ (Init => MgrProofs!Init)
                    /\ ([Next]_vars => [MgrProofs!Next]_(MgrProofs!vars))
  <1>1. MgrProofs!ConstantsOK
    BY PartsAssumption DEF Mgr!ConstantsOK, MgrProofs!ConstantsOK
  <1>2. Init => MgrProofs!Init
    BY DEF Init, PartsInit, Mgr!Init, MgrProofs!Init, Mgr!Wrapper!Init,
           MgrProofs!Wrapper!Init, Mgr!Links, MgrProofs!Links, Mgr!Threads,
           MgrProofs!Threads
  <1>3. [Next]_vars => [MgrProofs!Next]_(MgrProofs!vars)
    BY MgrIsLinkMgr DEF Next, MgrNext, NegoNext, UdpNext, PoolNext, FramesNext, vars,
                        mgrVars, Mgr!vars, Mgr!contractVars, Mgr!locks, Mgr!history
  <1> QED
    BY <1>1, <1>2, <1>3

-----------------------------------------------------------------------------
(* The task threads (TaskThread).                                          *)

(* A step of TaskThread is the same here as in its proofs, action by       *)
(* action.                                                                 *)
LEMMA QueueIsTaskThread == [Queue!Next]_(Queue!vars) => [QueueProofs!Next]_(QueueProofs!vars)
  <1>1. \A t : Queue!Awake(t) <=> QueueProofs!Awake(t)
    BY DEF Queue!Awake, QueueProofs!Awake, Queue!LoopTop, QueueProofs!LoopTop,
           Queue!TaskOrSleep, QueueProofs!TaskOrSleep, Queue!TimerTaskOrSleep,
           QueueProofs!TimerTaskOrSleep, Queue!clockVars, QueueProofs!clockVars,
           Queue!Leave, QueueProofs!Leave, Queue!Sleep, QueueProofs!Sleep, Queue!TakeTask,
           QueueProofs!TakeTask, Queue!IsDue, QueueProofs!IsDue, Queue!TakeTimer,
           QueueProofs!TakeTimer, Queue!Goto, QueueProofs!Goto, Queue!queueVars,
           QueueProofs!queueVars, Queue!timerVars, QueueProofs!timerVars, Queue!waitVars,
           QueueProofs!waitVars, Queue!Holding, QueueProofs!Holding, Queue!End,
           QueueProofs!End, Queue!First, QueueProofs!First, Queue!Rearmed,
           QueueProofs!Rearmed, Queue!Before, QueueProofs!Before
  <1>2. \A t : Queue!ReadNow(t) <=> QueueProofs!ReadNow(t)
    BY DEF Queue!ReadNow, QueueProofs!ReadNow, Queue!Goto, QueueProofs!Goto,
           Queue!queueVars, QueueProofs!queueVars, Queue!timerVars, QueueProofs!timerVars,
           Queue!clockVars, QueueProofs!clockVars
  <1>3. \A t : Queue!TimedWait(t) <=> QueueProofs!TimedWait(t)
    BY DEF Queue!TimedWait, QueueProofs!TimedWait, Queue!Goto, QueueProofs!Goto,
           Queue!queueVars, QueueProofs!queueVars, Queue!timerVars, QueueProofs!timerVars,
           Queue!clockVars, QueueProofs!clockVars, Queue!WaitTime, QueueProofs!WaitTime,
           Queue!End, QueueProofs!End, Queue!First, QueueProofs!First, Queue!Before,
           QueueProofs!Before
  <1>4. \A t : Queue!WakeUp(t) <=> QueueProofs!WakeUp(t)
    BY DEF Queue!WakeUp, QueueProofs!WakeUp, Queue!Goto, QueueProofs!Goto,
           Queue!queueVars, QueueProofs!queueVars, Queue!timerVars, QueueProofs!timerVars,
           Queue!clockVars, QueueProofs!clockVars
  <1>5. \A c, x : Queue!Post(c, x) <=> QueueProofs!Post(c, x)
    BY DEF Queue!Post, QueueProofs!Post, Queue!MayCall, QueueProofs!MayCall,
           Queue!Holding, QueueProofs!Holding, Queue!waitVars, QueueProofs!waitVars,
           Queue!Goto, QueueProofs!Goto, Queue!timerVars, QueueProofs!timerVars,
           Queue!clockVars, QueueProofs!clockVars
  <1>6. \A c, i, e : Queue!SetTimer(c, i, e) <=> QueueProofs!SetTimer(c, i, e)
    BY DEF Queue!SetTimer, QueueProofs!SetTimer, Queue!MayCall, QueueProofs!MayCall,
           Queue!Holding, QueueProofs!Holding, Queue!waitVars, QueueProofs!waitVars,
           Queue!Erase, QueueProofs!Erase, Queue!Goto, QueueProofs!Goto, Queue!queueVars,
           QueueProofs!queueVars, Queue!Before, QueueProofs!Before, Queue!End,
           QueueProofs!End
  <1>7. \A c, i : Queue!KillTimer(c, i) <=> QueueProofs!KillTimer(c, i)
    BY DEF Queue!KillTimer, QueueProofs!KillTimer, Queue!MayCall, QueueProofs!MayCall,
           Queue!Holding, QueueProofs!Holding, Queue!waitVars, QueueProofs!waitVars,
           Queue!Erase, QueueProofs!Erase, Queue!queueVars, QueueProofs!queueVars,
           Queue!clockVars, QueueProofs!clockVars, Queue!Before, QueueProofs!Before,
           Queue!End, QueueProofs!End
  <1>8. \A c : Queue!Signal(c) <=> QueueProofs!Signal(c)
    BY DEF Queue!Signal, QueueProofs!Signal, Queue!Goto, QueueProofs!Goto,
           Queue!queueVars, QueueProofs!queueVars, Queue!timerVars, QueueProofs!timerVars,
           Queue!clockVars, QueueProofs!clockVars
  <1>9. \A c : Queue!NotifyExit(c) <=> QueueProofs!NotifyExit(c)
    BY DEF Queue!NotifyExit, QueueProofs!NotifyExit, Queue!MayCall, QueueProofs!MayCall,
           Queue!Holding, QueueProofs!Holding, Queue!waitVars, QueueProofs!waitVars,
           Queue!Goto, QueueProofs!Goto, Queue!queueVars, QueueProofs!queueVars,
           Queue!timerVars, QueueProofs!timerVars, Queue!clockVars, QueueProofs!clockVars
  <1>10. \A c : Queue!Broadcast(c) <=> QueueProofs!Broadcast(c)
    BY DEF Queue!Broadcast, QueueProofs!Broadcast, Queue!queueVars, QueueProofs!queueVars,
           Queue!timerVars, QueueProofs!timerVars, Queue!clockVars, QueueProofs!clockVars
  <1>11. \A c : Queue!Joined(c) <=> QueueProofs!Joined(c)
    BY DEF Queue!Joined, QueueProofs!Joined, Queue!waitVars, QueueProofs!waitVars,
           Queue!Goto, QueueProofs!Goto, Queue!queueVars, QueueProofs!queueVars,
           Queue!timerVars, QueueProofs!timerVars, Queue!clockVars, QueueProofs!clockVars
  <1>12. (Queue!Clock <=> QueueProofs!Clock)
    BY DEF Queue!Clock, QueueProofs!Clock, Queue!waitVars, QueueProofs!waitVars,
           Queue!queueVars, QueueProofs!queueVars, Queue!timerVars, QueueProofs!timerVars
  <1> QED
    BY <1>1, <1>4, <1>5, <1>6, <1>7, <1>8, <1>9, <1>10, <1>11, <1>12, <1>2, <1>3
    DEF Queue!Next, QueueProofs!Next, Queue!ThreadStep, QueueProofs!ThreadStep,
        Queue!Return, QueueProofs!Return, Queue!vars, QueueProofs!vars, Queue!queueVars,
        QueueProofs!queueVars, Queue!timerVars, QueueProofs!timerVars, Queue!clockVars,
        QueueProofs!clockVars, Queue!waitVars, QueueProofs!waitVars

(* So are its properties.                                                  *)
LEMMA QueuePredicates ==
    /\ QueueProofs!TypeOK => Queue!TypeOK
    /\ QueueProofs!NoTaskForgotten => Queue!NoTaskForgotten
    /\ QueueProofs!EachTaskOnce => Queue!EachTaskOnce
    /\ QueueProofs!TimerIsCovered => Queue!TimerIsCovered
    /\ QueueProofs!NoEarlyFiring => Queue!NoEarlyFiring
    /\ QueueProofs!KilledIsGone => Queue!KilledIsGone
  <1>1. QueueProofs!TypeOK => Queue!TypeOK
    BY DEF Queue!TypeOK, QueueProofs!TypeOK, Queue!Timer, QueueProofs!Timer, Queue!PoolPC,
           QueueProofs!PoolPC, Queue!CallerPC, QueueProofs!CallerPC
  <1>2. QueueProofs!NoTaskForgotten => Queue!NoTaskForgotten
    BY DEF Queue!NoTaskForgotten, QueueProofs!NoTaskForgotten, Queue!Sleepers,
           QueueProofs!Sleepers, Queue!Cardinality, QueueProofs!Cardinality,
           Queue!OnTheWay, QueueProofs!OnTheWay, Queue!Signals, QueueProofs!Signals
  <1>3. QueueProofs!EachTaskOnce => Queue!EachTaskOnce
    BY DEF Queue!EachTaskOnce, QueueProofs!EachTaskOnce, Queue!Cardinality,
           QueueProofs!Cardinality
  <1>4. QueueProofs!TimerIsCovered => Queue!TimerIsCovered
    BY DEF Queue!TimerIsCovered, QueueProofs!TimerIsCovered, Queue!Sleepers,
           QueueProofs!Sleepers, Queue!Signals, QueueProofs!Signals, Queue!End,
           QueueProofs!End, Queue!First, QueueProofs!First, Queue!Before,
           QueueProofs!Before
  <1>5. QueueProofs!NoEarlyFiring => Queue!NoEarlyFiring
    BY DEF Queue!NoEarlyFiring, QueueProofs!NoEarlyFiring
  <1>6. QueueProofs!KilledIsGone => Queue!KilledIsGone
    BY DEF Queue!KilledIsGone, QueueProofs!KilledIsGone, Queue!Cardinality,
           QueueProofs!Cardinality
  <1> QED
    BY <1>1, <1>2, <1>3, <1>4, <1>5, <1>6

(* Its constants, its initial states and its steps are those of the        *)
(* proofs, whichever component runs.                                       *)
LEMMA QueueBehaves == QueueProofs!ConstantsOK /\ (Init => QueueProofs!Init)
                      /\ ([Next]_vars => [QueueProofs!Next]_(QueueProofs!vars))
  <1>1. QueueProofs!ConstantsOK
    BY PartsAssumption DEF Queue!ConstantsOK, QueueProofs!ConstantsOK, Queue!IsFiniteSet,
           QueueProofs!IsFiniteSet
  <1>2. Init => QueueProofs!Init
    BY DEF Init, PartsInit, Queue!Init, QueueProofs!Init
  <1>3. [Next]_vars => [QueueProofs!Next]_(QueueProofs!vars)
    BY QueueIsTaskThread
    DEF Next, MgrNext, NegoNext, UdpNext, PoolNext, FramesNext, vars, poolVars,
        Queue!vars, Queue!queueVars, Queue!timerVars, Queue!clockVars, Queue!waitVars
  <1> QED
    BY <1>1, <1>2, <1>3

-----------------------------------------------------------------------------
(* The packets (Framing).                                                  *)

(* A step of Framing is the same here as in its proofs, action by action.  *)
LEMMA FramesIsFraming == [Frames!Next]_(Frames!vars) => [FrameProofs!Next]_(FrameProofs!vars)
  <1>1. \A l : Frames!Copy(l) <=> FrameProofs!Copy(l)
    BY DEF Frames!Copy, FrameProofs!Copy, Frames!NextUnit, FrameProofs!NextUnit,
           Frames!UnitOf, FrameProofs!UnitOf
  <1>2. Frames!EndCopy <=> FrameProofs!EndCopy
    BY DEF Frames!EndCopy, FrameProofs!EndCopy, Frames!Waits, FrameProofs!Waits,
           Frames!HeaderLen, FrameProofs!HeaderLen, Frames!MagicLen, FrameProofs!MagicLen,
           Frames!Size, FrameProofs!Size
  <1>3. Frames!Scan <=> FrameProofs!Scan
    BY DEF Frames!Scan, FrameProofs!Scan, Frames!Keep, FrameProofs!Keep, Frames!Kept,
           FrameProofs!Kept, Frames!Skip, FrameProofs!Skip, Frames!Dispatch,
           FrameProofs!Dispatch, Frames!Incomplete, FrameProofs!Incomplete, Frames!Parses,
           FrameProofs!Parses, Frames!Pass, FrameProofs!Pass, Frames!OnePacket,
           FrameProofs!OnePacket, Frames!PacketOf, FrameProofs!PacketOf, Frames!UnitOf,
           FrameProofs!UnitOf, Frames!TotalLen, FrameProofs!TotalLen, Frames!IsMagic,
           FrameProofs!IsMagic, Frames!Ahead, FrameProofs!Ahead, Frames!HeaderLen,
           FrameProofs!HeaderLen, Frames!MagicLen, FrameProofs!MagicLen, Frames!Size,
           FrameProofs!Size, Frames!Huge, FrameProofs!Huge
  <1> QED
    BY <1>1, <1>2, <1>3 DEF Frames!Next, FrameProofs!Next, Frames!vars, FrameProofs!vars

LEMMA FramesPredicates ==
    FrameProofs!TypeOK /\ FrameProofs!IntactAndInOrder
    /\ FrameProofs!LostForCause /\ FrameProofs!BufferIsShort => PacketsAreIntact
  <1>1. FrameProofs!TypeOK => Frames!TypeOK
    BY DEF Frames!TypeOK, FrameProofs!TypeOK, Frames!Unit, FrameProofs!Unit, Frames!Size,
           FrameProofs!Size, Frames!HeaderLen, FrameProofs!HeaderLen
  <1>2. FrameProofs!IntactAndInOrder => Frames!IntactAndInOrder
    BY DEF Frames!IntactAndInOrder, FrameProofs!IntactAndInOrder, Frames!OnePacket,
           FrameProofs!OnePacket, Frames!PacketOf, FrameProofs!PacketOf, Frames!UnitOf,
           FrameProofs!UnitOf, Frames!Straight, FrameProofs!Straight
  <1>3. FrameProofs!LostForCause => Frames!LostForCause
    BY DEF Frames!LostForCause, FrameProofs!LostForCause, Frames!Arrived,
           FrameProofs!Arrived, Frames!Dispatched, FrameProofs!Dispatched, Frames!Buffered,
           FrameProofs!Buffered, Frames!PacketOf, FrameProofs!PacketOf, Frames!UnitOf,
           FrameProofs!UnitOf, Frames!Size, FrameProofs!Size, Frames!Straight,
           FrameProofs!Straight
  <1>4. FrameProofs!BufferIsShort => Frames!BufferIsShort
    BY DEF Frames!BufferIsShort, FrameProofs!BufferIsShort, Frames!Dispatched,
           FrameProofs!Dispatched, Frames!PacketOf, FrameProofs!PacketOf, Frames!UnitOf,
           FrameProofs!UnitOf, Frames!Straight, FrameProofs!Straight
  <1> QED
    BY <1>1, <1>2, <1>3, <1>4 DEF PacketsAreIntact

(* Its constants, its initial states and its steps are those of the        *)
(* proofs, whichever component runs.                                       *)
LEMMA FramesBehaves == FrameProofs!ConstantsOK /\ (Init => FrameProofs!Init)
                       /\ ([Next]_vars => [FrameProofs!Next]_(FrameProofs!vars))
  <1>1. FrameProofs!ConstantsOK
    BY PartsAssumption DEF Frames!ConstantsOK, FrameProofs!ConstantsOK, Frames!Lengths,
                           FrameProofs!Lengths, Frames!HeaderLen, FrameProofs!HeaderLen
  <1>2. Init => FrameProofs!Init
    BY DEF Init, PartsInit, Frames!Init, FrameProofs!Init, Frames!UnitOf, FrameProofs!UnitOf
  <1>3. [Next]_vars => [FrameProofs!Next]_(FrameProofs!vars)
    BY FramesIsFraming DEF Next, MgrNext, NegoNext, UdpNext, PoolNext, FramesNext, vars,
                           frameVars, Frames!vars
  <1> QED
    BY <1>1, <1>2, <1>3

-----------------------------------------------------------------------------
(* The handshake over TCP (Nego).                                          *)

VerReq == [type |-> "VER_NEGO_REQ", ver |-> version]
AuthReq == [type |-> "LINK_AUTH_REQ"]
VerResp == [type |-> "VER_NEGO_RESP", i_ret |-> Client!Ret(version)]
AuthResp == [type |-> "LINK_AUTH_RESP", id |-> 1]
AskedOnce == <<<<"VER_NEGO_REQ", Client!Ret(version)>>>>
AskedTwice == <<<<"VER_NEGO_REQ", 0>>, <<"LINK_AUTH_REQ", 0>>>>

(* Nothing is on its way; or one packet is, between its sender's list, the *)
(* network and its reader's buffer.                                        *)
ServerHasNone == toServer = <<>> /\ unsent["client"] = <<>> /\ held["server"] = <<>>
ClientHasNone == toClient = <<>> /\ unsent["server"] = <<>> /\ held["client"] = <<>>
ServerGets(p) ==
    /\ ClientHasNone
    /\ \/ toServer = <<p>> /\ unsent["client"] = <<>> /\ held["server"] = <<>>
       \/ toServer = <<>> /\ unsent["client"] = <<p>> /\ held["server"] = <<>>
       \/ toServer = <<>> /\ unsent["client"] = <<>> /\ held["server"] = <<p>>
ClientGets(p) ==
    /\ ServerHasNone
    /\ \/ toClient = <<p>> /\ unsent["server"] = <<>> /\ held["client"] = <<>>
       \/ toClient = <<>> /\ unsent["server"] = <<p>> /\ held["client"] = <<>>
       \/ toClient = <<>> /\ unsent["server"] = <<>> /\ held["client"] = <<p>>

(* How far the handshake is: one packet is on its way at most, and what    *)
(* the server has answered tells which one it may be.                      *)
PhaseInv ==
    /\ asked \in {<<>>, AskedOnce, AskedTwice}
    /\ nego_pc # "returned" => ServerHasNone /\ ClientHasNone /\ asked = <<>>
    /\ \/ ServerHasNone /\ ClientHasNone
       \/ ServerGets(VerReq) /\ asked = <<>>
       \/ ServerGets(AuthReq) /\ asked = AskedOnce /\ version = <<1, 0>>
       \/ ClientGets(VerResp) /\ asked = AskedOnce
       \/ ClientGets(AuthResp) /\ asked = AskedTwice /\ version = <<1, 0>>

(* The client holds the handle of its link from set_link on.               *)
HandleInv ==
    /\ nego_pc = "start" => nego_link = "none"
    /\ nego_pc \in {"start", "connect"} => path = "down"
    /\ nego_pc = "connect" => nego_link = "live"
    /\ nego_pc \in {"nego", "returned"} /\ nego_link = "live" => mh_tcpLink = Client!Link
    /\ nego_link = "dead" /\ "DISCONNECTED" \notin nego_told =>
            early \/ (mh_tcpLink = Client!Invalid /\ nego_pc # "set_link")

(* What Client!TypeOK says of the variables that are no sequences.         *)
PlainTypes ==
    /\ version \in Versions /\ nego_pc \in Client!MainPC
    /\ nego_link \in {"none", "live", "dead"} /\ path \in {"down", "up", "cut"}
    /\ mh_tcpLink \in {Client!Invalid, Client!Link} /\ mui_client_id \in {0, 1}
    /\ handle \in BOOLEAN /\ early \in BOOLEAN /\ refused \in BOOLEAN
    /\ nego_told \subseteq {"CLOSED", "DISCONNECTED"}

(* And of the lists and buffers.                                           *)
BufTypes ==
    /\ unsent \in [Client!Side -> Seq(Client!Packet)]
    /\ held \in [Client!Side -> Seq(Client!Packet)]
    /\ spins \subseteq Client!Side

NegoInv ==
    /\ PlainTypes /\ BufTypes /\ PhaseInv /\ HandleInv
    /\ Client!AuthFollowsAgreement /\ Client!AnswersAreHeard

(* Nothing is on its way and nobody has a link at first.                   *)
LEMMA NegoInit == Client!ConstantsOK /\ Client!Init => NegoInv
  <1> SUFFICES ASSUME Client!ConstantsOK, Client!Init PROVE NegoInv
    OBVIOUS
  <1>1. PlainTypes
    BY DEF Client!Init, PlainTypes, Client!MainPC, Client!Invalid
  <1>2. BufTypes
    <2>1. <<>> \in Seq(Client!Packet)
      OBVIOUS
    <2> QED
      BY <2>1 DEF Client!Init, BufTypes
  <1>3. PhaseInv /\ HandleInv
    BY DEF Client!Init, PhaseInv, HandleInv, ServerHasNone, ClientHasNone, Client!Side
  <1>4. Client!AuthFollowsAgreement /\ Client!AnswersAreHeard
    BY DEF Client!Init, Client!AuthFollowsAgreement, Client!AnswersAreHeard
  <1> QED
    BY <1>1, <1>3, <1>4, <1>2 DEF NegoInv

(* The packets of the handshake are packets.                               *)
LEMMA NegoPackets ==
    ASSUME Client!ConstantsOK, version \in Versions
    PROVE  {VerReq, AuthReq, VerResp, AuthResp} \subseteq Client!Packet
  <1>1. VerReq \in Client!Packet /\ AuthReq \in Client!Packet
    BY DEF VerReq, AuthReq, Client!Packet
  <1>2. VerResp \in Client!Packet /\ AuthResp \in Client!Packet
    BY DEF VerResp, AuthResp, Client!Packet, Client!Ret
  <1> QED
    BY <1>1, <1>2

(* The queues and the list of requests have the types Nego gives them.     *)
LEMMA NegoTypes == Client!ConstantsOK /\ NegoInv => Client!TypeOK
  <1> SUFFICES ASSUME Client!ConstantsOK, NegoInv PROVE Client!TypeOK
    OBVIOUS
  <1>1. {VerReq, AuthReq, VerResp, AuthResp} \subseteq Client!Packet
    BY NegoPackets DEF NegoInv, PlainTypes
  <1> DEFINE R == {<<"VER_NEGO_REQ", 0>>, <<"VER_NEGO_REQ", 2>>, <<"LINK_AUTH_REQ", 0>>}
  <1>2. <<"VER_NEGO_REQ", Client!Ret(version)>> \in R
        /\ <<"VER_NEGO_REQ", 0>> \in R /\ <<"LINK_AUTH_REQ", 0>> \in R
    BY DEF Client!Ret
  <1> HIDE DEF R
  <1>3. \A S : <<>> \in Seq(S) /\ \A x, y \in S : <<x>> \in Seq(S) /\ <<x, y>> \in Seq(S)
    OBVIOUS
  <1>4. asked \in Seq(R)
    BY <1>2, <1>3 DEF NegoInv, PhaseInv, AskedOnce, AskedTwice
  <1>5. \/ toServer = <<>> \/ toServer = <<VerReq>> \/ toServer = <<AuthReq>>
    BY DEF NegoInv, PhaseInv, ServerHasNone, ServerGets, ClientGets
  <1>6. \/ toClient = <<>> \/ toClient = <<VerResp>> \/ toClient = <<AuthResp>>
    BY DEF NegoInv, PhaseInv, ClientHasNone, ServerGets, ClientGets
  <1>7. toServer \in Seq(Client!Packet) /\ toClient \in Seq(Client!Packet)
    BY <1>1, <1>3, <1>5, <1>6
  <1>8. /\ held["client"] # <<>> => toClient = <<>>
        /\ held["server"] # <<>> => toServer = <<>>
    BY DEF NegoInv, PhaseInv, ServerHasNone, ClientHasNone, ServerGets, ClientGets
  <1> QED
    BY <1>4, <1>7, <1>8 DEF R, NegoInv, PlainTypes, BufTypes, Client!TypeOK

(* One packet put in an empty queue, and taken from it.                    *)
LEMMA OnePacket ==
    ASSUME NEW p
    PROVE  /\ Append(<<>>, p) = <<p>> /\ Head(<<p>>) = p
           /\ Tail(<<p>>) = <<>> /\ <<p>> # <<>>
  OBVIOUS

(* A packet put behind another.                                            *)
LEMMA TwoPackets == ASSUME NEW x, NEW y PROVE Append(<<x>>, y) = <<x, y>>
  <1> DEFINE S == {x, y} s == <<x>> u == Append(s, y) v == <<x, y>>
  <1>1. s \in Seq(S) /\ v \in Seq(S) /\ Len(s) = 1 /\ Len(v) = 2
    OBVIOUS
  <1>2. s[1] = x /\ v[1] = x /\ v[2] = y /\ y \in S
    OBVIOUS
  <1> HIDE DEF s, S, v
  <1>3. u \in Seq(S) /\ Len(u) = 2 /\ u[2] = y /\ u[1] = x
    BY <1>1, <1>2
  <1> HIDE DEF u
  <1>4. Len(u) = Len(v) /\ \A i \in 1 .. Len(u) : u[i] = v[i]
    BY <1>1, <1>2, <1>3
  <1>5. u = v
    BY <1>1, <1>3, <1>4, SeqEqual
  <1> QED
    BY <1>5 DEF u, v, s

(* A list or buffer of one side changes, the other's does not.             *)
LEMMA NegoSides ==
    ASSUME NEW f \in [Client!Side -> Seq(Client!Packet)], NEW side \in Client!Side, NEW q
    PROVE  /\ [f EXCEPT ![side] = q][side] = q
           /\ \A other \in Client!Side \ {side} : [f EXCEPT ![side] = q][other] = f[other]
  OBVIOUS

(* What the client sends is written, or stays on its list, or is lost.     *)
LEMMA NegoSends ==
    ASSUME BufTypes, NEW p, Client!Sent(p), toServer = <<>>, unsent["client"] = <<>>
    PROVE  /\ unsent'["server"] = unsent["server"]
           /\ \/ toServer' = <<p>> /\ unsent'["client"] = <<>>
              \/ toServer' = <<>> /\ unsent'["client"] \in {<<>>, <<p>>}
  <1>1. CASE toServer' = Append(toServer, p) /\ unsent' = unsent
    BY <1>1, OnePacket
  <1>2. CASE Client!Buffer("client", p) /\ toServer' = toServer
    BY <1>2, OnePacket, NegoSides DEF Client!Buffer, BufTypes, Client!Side
  <1> QED
    BY <1>1, <1>2 DEF Client!Sent

(* And what the server answers.                                            *)
LEMMA NegoAnswers ==
    ASSUME BufTypes, NEW p, Client!Answer(p), toClient = <<>>, unsent["server"] = <<>>
    PROVE  /\ unsent'["client"] = unsent["client"]
           /\ \/ toClient' = <<p>> /\ unsent'["server"] = <<>>
              \/ toClient' = <<>> /\ unsent'["server"] \in {<<>>, <<p>>}
  <1>1. CASE toClient' = Append(toClient, p) /\ unsent' = unsent
    BY <1>1, OnePacket
  <1>2. CASE Client!Buffer("server", p) /\ toClient' = toClient
    BY <1>2, OnePacket, NegoSides DEF Client!Buffer, BufTypes, Client!Side
  <1> QED
    BY <1>1, <1>2 DEF Client!Answer

(* What a packet the client receives does: the answer to its request makes *)
(* it ask for its authentication at most, and the answer to that gives it  *)
(* the id.                                                                 *)
LEMMA NegoReceives ==
    ASSUME Client!ConstantsOK, NegoInv, Client!OnTcpRecvData
    PROVE  /\ refused' = refused /\ nego_pc = "returned"
           /\ \/ /\ asked = AskedOnce /\ mui_client_id' = mui_client_id
                 /\ ClientHasNone'
                 /\ ServerHasNone' \/ (ServerGets(AuthReq)' /\ version = <<1, 0>>)
              \/ /\ asked = AskedTwice /\ version = <<1, 0>>
                 /\ ClientHasNone' /\ ServerHasNone' /\ mui_client_id' = 1
  <1>1. /\ nego_pc = "returned" /\ mh_tcpLink = Client!Link
        /\ ServerHasNone /\ unsent["server"] = <<>> /\ held["client"] = <<>>
    BY DEF Client!OnTcpRecvData, Client!ClientRuns, NegoInv, PhaseInv, HandleInv,
           ServerGets, ClientGets, ClientHasNone
  <1>2. held' = held /\ BufTypes
    BY DEF Client!OnTcpRecvData, NegoInv
  <1>3. CASE toClient = <<VerResp>> /\ asked = AskedOnce
    <2>1. Head(toClient) = VerResp /\ Tail(toClient) = <<>>
      BY <1>3, OnePacket
    <2>2. VerResp.type = "VER_NEGO_RESP" /\ VerResp.i_ret = Client!Ret(version)
      BY DEF VerResp
    <2>3. Client!Ret(version) = 0 => version = <<1, 0>>
      <3>1. \A v \in Nat \X Nat : v[1] = 1 /\ v[2] = 0 => v = <<1, 0>>
        OBVIOUS
      <3> QED
        BY <3>1 DEF Client!Ret, NegoInv, PlainTypes, Client!ConstantsOK
    <2>4. toClient' = <<>> /\ refused' = refused /\ mui_client_id' = mui_client_id
      BY <1>1, <2>1, <2>2 DEF Client!OnTcpRecvData
    <2>5. CASE Client!Heard(VerResp)
      <3>1. Client!Sent(AuthReq) /\ version = <<1, 0>>
        BY <1>1, <2>1, <2>2, <2>3, <2>5 DEF Client!OnTcpRecvData, AuthReq, Client!Heard
      <3> QED
        BY <1>1, <1>2, <1>3, <2>4, <3>1, NegoSends
        DEF ServerHasNone, ClientHasNone, ServerGets, AuthReq
    <2>6. CASE ~Client!Heard(VerResp)
      <3>1. toServer' = toServer /\ unsent' = unsent
        BY <1>1, <2>1, <2>2, <2>6 DEF Client!OnTcpRecvData
      <3> QED
        BY <1>1, <1>2, <1>3, <2>4, <3>1 DEF ServerHasNone, ClientHasNone
    <2> QED
      BY <2>5, <2>6
  <1>4. CASE toClient = <<AuthResp>> /\ asked = AskedTwice /\ version = <<1, 0>>
    <2>1. Head(toClient) = AuthResp /\ Tail(toClient) = <<>>
      BY <1>4, OnePacket
    <2>2. AuthResp.type = "LINK_AUTH_RESP" /\ AuthResp.id = 1
      BY DEF AuthResp
    <2>3. /\ toClient' = <<>> /\ refused' = refused /\ mui_client_id' = 1
          /\ toServer' = toServer /\ unsent' = unsent
      BY <1>1, <2>1, <2>2 DEF Client!OnTcpRecvData
    <2> QED
      BY <1>1, <1>2, <1>4, <2>3 DEF ServerHasNone, ClientHasNone
  <1>5. toClient # <<>>
    BY DEF Client!OnTcpRecvData
  <1> QED
    BY <1>3, <1>4, <1>5 DEF NegoInv, PhaseInv, ServerGets, ClientGets, ClientHasNone

(* What a packet the server receives does: it is answered, if the          *)
(* connection is still there.                                              *)
LEMMA NegoServes ==
    ASSUME Client!ConstantsOK, NegoInv, Client!RecvData
    PROVE  /\ nego_pc = "returned" /\ ServerHasNone'
           /\ Client!Answer(VerResp) \/ Client!Answer(AuthResp)
           /\ \/ /\ asked = <<>> /\ asked' = AskedOnce
                 /\ ClientHasNone' \/ ClientGets(VerResp)'
              \/ /\ asked = AskedOnce /\ version = <<1, 0>> /\ asked' = AskedTwice
                 /\ ClientHasNone' \/ ClientGets(AuthResp)'
  <1>1. /\ nego_pc = "returned"
        /\ ClientHasNone /\ unsent["client"] = <<>> /\ held["server"] = <<>>
    BY DEF Client!RecvData, NegoInv, PhaseInv, ServerGets, ClientGets, ServerHasNone
  <1>2. held' = held /\ version' = version /\ BufTypes
    BY DEF Client!RecvData, NegoInv
  <1>3. CASE toServer = <<VerReq>> /\ asked = <<>>
    <2>1. Head(toServer) = VerReq /\ Tail(toServer) = <<>>
      BY <1>3, OnePacket
    <2>2. VerReq.type = "VER_NEGO_REQ" /\ VerReq.ver = version
      BY DEF VerReq
    <2>3. /\ toServer' = <<>> /\ Client!Answer(VerResp)
          /\ asked' = Append(asked, <<"VER_NEGO_REQ", Client!Ret(version)>>)
      BY <2>1, <2>2 DEF Client!RecvData, VerResp
    <2>4. asked' = AskedOnce
      BY <1>3, <2>3, OnePacket DEF AskedOnce
    <2>5. ServerHasNone' /\ (ClientHasNone' \/ ClientGets(VerResp)')
      BY <1>1, <1>2, <2>3, NegoAnswers
      DEF ServerHasNone, ClientHasNone, ClientGets, VerResp, Client!Ret
    <2> QED
      BY <1>1, <1>3, <2>3, <2>4, <2>5
  <1>4. CASE toServer = <<AuthReq>> /\ asked = AskedOnce /\ version = <<1, 0>>
    <2>1. Head(toServer) = AuthReq /\ Tail(toServer) = <<>>
      BY <1>4, OnePacket
    <2>2. AuthReq.type = "LINK_AUTH_REQ"
      BY DEF AuthReq
    <2>3. /\ toServer' = <<>> /\ Client!Answer(AuthResp)
          /\ asked' = Append(asked, <<"LINK_AUTH_REQ", 0>>)
      BY <2>1, <2>2 DEF Client!RecvData, AuthResp
    <2>4. Append(asked, <<"LINK_AUTH_REQ", 0>>) = AskedTwice
      <3>1. Client!Ret(version) = 0
        BY <1>4 DEF Client!Ret
      <3> QED
        BY <1>4, <3>1, TwoPackets DEF AskedOnce, AskedTwice
    <2>5. ServerHasNone' /\ (ClientHasNone' \/ ClientGets(AuthResp)')
      BY <1>1, <1>2, <2>3, NegoAnswers
      DEF ServerHasNone, ClientHasNone, ClientGets, AuthResp
    <2> QED
      BY <1>1, <1>4, <2>3, <2>4, <2>5
  <1>5. toServer # <<>>
    BY DEF Client!RecvData
  <1> QED
    BY <1>3, <1>4, <1>5 DEF NegoInv, PhaseInv, ServerGets, ClientGets, ServerHasNone

(* What is read short, or flushed, stays on its way.                       *)
LEMMA NegoMoves ==
    ASSUME Client!ConstantsOK, NegoInv, Client!ByteStep
    PROVE  /\ ServerHasNone => ServerHasNone'
           /\ ClientHasNone => ClientHasNone'
           /\ \A p : ServerGets(p) => ServerGets(p)'
           /\ \A p : ClientGets(p) => ClientGets(p)'
           /\ UNCHANGED <<version, path, nego_pc, nego_link, mh_tcpLink, mui_client_id,
                          nego_told, early, refused, handle, asked>>
  <1> USE DEF ServerHasNone, ClientHasNone, ServerGets, ClientGets
  <1>0. BufTypes /\ Client!Side = {"client", "server"} /\ "client" # "server"
    BY DEF NegoInv, Client!Side
  <1>1. CASE Client!ShortRead
    <2>1. CASE /\ toClient # <<>> /\ held' = [held EXCEPT !["client"] = Append(@, Head(toClient))]
               /\ toClient' = Tail(toClient) /\ toServer' = toServer /\ unsent' = unsent
      <3>1. held'["client"] = Append(held["client"], Head(toClient))
            /\ held'["server"] = held["server"]
        BY <1>0, <2>1 DEF BufTypes
      <3> QED
        BY <1>1, <2>1, <3>1, OnePacket DEF Client!ShortRead, Client!clientVars
    <2>2. CASE /\ toServer # <<>> /\ held' = [held EXCEPT !["server"] = Append(@, Head(toServer))]
               /\ toServer' = Tail(toServer) /\ toClient' = toClient /\ unsent' = unsent
      <3>1. held'["server"] = Append(held["server"], Head(toServer))
            /\ held'["client"] = held["client"]
        BY <1>0, <2>2 DEF BufTypes
      <3> QED
        BY <1>1, <2>2, <3>1, OnePacket DEF Client!ShortRead, Client!clientVars
    <2> QED
      BY <1>1, <2>1, <2>2 DEF Client!ShortRead
  <1>2. ASSUME NEW side \in Client!Side, Client!DoSendBuff(side)
        PROVE  UNCHANGED <<held, version, path, nego_pc, nego_link, mh_tcpLink,
                           mui_client_id, nego_told, early, refused, handle, asked>>
    BY <1>2 DEF Client!DoSendBuff, Client!clientVars
  <1>3. CASE Client!DoSendBuff("client")
    <2>1. CASE /\ unsent' = [unsent EXCEPT !["client"] = Tail(@)] /\ toClient' = toClient
               /\ toServer' = Append(toServer, Head(unsent["client"]))
      <3>1. unsent'["client"] = Tail(unsent["client"]) /\ unsent'["server"] = unsent["server"]
        BY <1>0, <2>1 DEF BufTypes
      <3>2. unsent["client"] # <<>>
        BY <1>3 DEF Client!DoSendBuff
      <3> QED
        BY <1>0, <1>2, <1>3, <2>1, <3>1, <3>2, OnePacket
    <2>2. CASE UNCHANGED <<unsent, toServer, toClient>>
      BY <1>0, <1>2, <1>3, <2>2
    <2> QED
      BY <1>3, <2>1, <2>2 DEF Client!DoSendBuff
  <1>4. CASE Client!DoSendBuff("server")
    <2>1. CASE /\ unsent' = [unsent EXCEPT !["server"] = Tail(@)] /\ toServer' = toServer
               /\ toClient' = Append(toClient, Head(unsent["server"]))
      <3>1. unsent'["server"] = Tail(unsent["server"]) /\ unsent'["client"] = unsent["client"]
        BY <1>0, <2>1 DEF BufTypes
      <3>2. unsent["server"] # <<>>
        BY <1>4 DEF Client!DoSendBuff
      <3> QED
        BY <1>0, <1>2, <1>4, <2>1, <3>1, <3>2, OnePacket
    <2>2. CASE UNCHANGED <<unsent, toServer, toClient>>
      BY <1>0, <1>2, <1>4, <2>2
    <2> QED
      BY <1>0, <1>4, <2>1, <2>2 DEF Client!DoSendBuff
  <1> QED
    BY <1>0, <1>1, <1>3, <1>4 DEF Client!ByteStep

(* Each step keeps the types of the variables that are no sequences.       *)
LEMMA NegoPlainStep ==
    ASSUME Client!ConstantsOK, NegoInv, Client!Next \/ UNCHANGED negoVars
    PROVE  PlainTypes'
  <1> USE DEF NegoInv, PlainTypes, Client!MainPC, Client!Link, Client!Invalid
  <1>1. ASSUME Client!TcpCreate PROVE PlainTypes'
    BY <1>1 DEF Client!TcpCreate, Client!netVars, Client!bufVars
  <1>2. ASSUME Client!TcpConnect PROVE PlainTypes'
    BY <1>2 DEF Client!TcpConnect
  <1>3. ASSUME Client!SetLink PROVE PlainTypes'
    BY <1>3 DEF Client!SetLink, Client!netVars, Client!bufVars
  <1>4. ASSUME Client!DoVerNegoReq PROVE PlainTypes'
    BY <1>4 DEF Client!DoVerNegoReq, Client!Sent
  <1>5. ASSUME Client!OnTcpRecvData PROVE PlainTypes'
    BY <1>5, NegoReceives DEF Client!OnTcpRecvData
  <1>6. ASSUME Client!OnTcpDisconnected PROVE PlainTypes'
    BY <1>6 DEF Client!OnTcpDisconnected, Client!ClientRuns
  <1>7. ASSUME Client!OnTcpClosed PROVE PlainTypes'
    BY <1>7 DEF Client!OnTcpClosed, Client!ClientRuns
  <1>8. ASSUME Client!Accepted PROVE PlainTypes'
    BY <1>8 DEF Client!Accepted, Client!clientVars, Client!netVars, Client!bufVars
  <1>9. ASSUME Client!RecvData PROVE PlainTypes'
    BY <1>9 DEF Client!RecvData, Client!Answer, Client!clientVars
  <1>10. ASSUME Client!Forget PROVE PlainTypes'
    BY <1>10 DEF Client!Forget, Client!clientVars
  <1>11. ASSUME Client!Cut PROVE PlainTypes'
    BY <1>11 DEF Client!Cut, Client!clientVars
  <1>12. ASSUME UNCHANGED negoVars PROVE PlainTypes'
    BY <1>12 DEF negoVars
  <1>13. ASSUME Client!ByteStep PROVE PlainTypes'
    <2>1. UNCHANGED <<version, path, nego_pc, nego_link, mh_tcpLink, mui_client_id,
                      nego_told, early, refused, handle, asked>>
      BY <1>13, NegoMoves
    <2> QED
      BY <2>1
  <1> QED
    BY <1>1, <1>2, <1>3, <1>4, <1>5, <1>6, <1>7, <1>8, <1>9, <1>10, <1>11, <1>12, <1>13
    DEF Client!Next, Client!MainStep, Client!ClientStep, Client!ServerStep

(* Each step keeps the types of the lists and buffers.                     *)
LEMMA NegoBufStep ==
    ASSUME Client!ConstantsOK, NegoInv, Client!Next \/ UNCHANGED negoVars
    PROVE  BufTypes'
  <1> USE DEF BufTypes
  <1>1. /\ BufTypes /\ {VerReq, AuthReq, VerResp, AuthResp} \subseteq Client!Packet
        /\ toServer \in Seq(Client!Packet) /\ toClient \in Seq(Client!Packet)
    BY NegoPackets, NegoTypes DEF NegoInv, PlainTypes, Client!TypeOK
  <1>2. "client" \in Client!Side /\ "server" \in Client!Side
    BY DEF Client!Side
  <1>3. ASSUME NEW f \in [Client!Side -> Seq(Client!Packet)], NEW side \in Client!Side,
               NEW q \in Seq(Client!Packet), NEW g, g = [f EXCEPT ![side] = q]
        PROVE  g \in [Client!Side -> Seq(Client!Packet)]
    BY <1>3
  <1>4. ASSUME UNCHANGED <<unsent, held, spins>> PROVE BufTypes'
    BY <1>1, <1>4
  <1>5. ASSUME NEW side \in Client!Side, NEW p \in Client!Packet, Client!Buffer(side, p)
         PROVE  unsent' \in [Client!Side -> Seq(Client!Packet)]
    <2>1. unsent' = [unsent EXCEPT ![side] = Append(unsent[side], p)]
      BY <1>5 DEF Client!Buffer
    <2>2. Append(unsent[side], p) \in Seq(Client!Packet)
      BY <1>1
    <2> QED
      BY <1>1, <1>3, <2>1, <2>2
  <1>6. ASSUME NEW side \in Client!Side, unsent' = [unsent EXCEPT ![side] = <<>>]
         PROVE  unsent' \in [Client!Side -> Seq(Client!Packet)]
    <2>1. <<>> \in Seq(Client!Packet)
      OBVIOUS
    <2> QED
      BY <1>1, <1>3, <1>6, <2>1
  <1>7. ASSUME Client!DoVerNegoReq PROVE BufTypes'
    <2>1. unsent' = unsent \/ Client!Buffer("client", VerReq)
      BY <1>7 DEF Client!DoVerNegoReq, Client!Sent, VerReq
    <2> QED
      BY <1>1, <1>2, <1>7, <1>5, <2>1 DEF Client!DoVerNegoReq
  <1>8. ASSUME Client!OnTcpRecvData PROVE BufTypes'
    <2>1. \/ unsent' = unsent \/ Client!Buffer("client", AuthReq)
      <3>1. toClient # <<>> /\ (Head(toClient) = VerResp \/ Head(toClient) = AuthResp)
        BY <1>8, OnePacket
        DEF Client!OnTcpRecvData, NegoInv, PhaseInv, ClientHasNone, ServerGets, ClientGets
      <3>2. VerResp.type = "VER_NEGO_RESP" /\ AuthResp.type = "LINK_AUTH_RESP"
        BY DEF VerResp, AuthResp
      <3>3. \/ unsent' = unsent \/ Client!Sent(AuthReq)
        BY <1>8, <3>1, <3>2
        DEF Client!OnTcpRecvData, AuthReq, HandleInv, NegoInv, PlainTypes, Client!Link,
            Client!Invalid
      <3> QED
        BY <3>3 DEF Client!Sent
    <2>2. held' = held /\ spins' = spins
      BY <1>8 DEF Client!OnTcpRecvData
    <2> QED
      BY <1>1, <1>2, <1>5, <2>1, <2>2
  <1>9. ASSUME Client!OnTcpDisconnected \/ Client!OnTcpClosed PROVE BufTypes'
    <2>1. /\ unsent' = [unsent EXCEPT !["client"] = <<>>]
          /\ held' = held /\ spins' = spins
      BY <1>9 DEF Client!OnTcpDisconnected, Client!OnTcpClosed
    <2> QED
      BY <1>1, <1>2, <1>6, <2>1
  <1>10. ASSUME Client!RecvData PROVE BufTypes'
    <2>1. PICK p \in Client!Packet : Client!Answer(p)
      BY <1>1, <1>10, NegoServes
    <2>2. unsent' = unsent \/ Client!Buffer("server", p)
      BY <2>1 DEF Client!Answer
    <2>3. held' = held /\ spins' = spins
      BY <1>10 DEF Client!RecvData
    <2> QED
      BY <1>1, <1>2, <1>5, <2>2, <2>3
  <1>11. ASSUME Client!Forget PROVE BufTypes'
    BY <1>1, <1>2, <1>11, <1>6 DEF Client!Forget
  <1>12. ASSUME Client!ShortRead PROVE BufTypes'
    <2>1. PICK side \in Client!Side, p \in Client!Packet :
            held' = [held EXCEPT ![side] = Append(held[side], p)]
      <3>1. /\ toClient # <<>> => Head(toClient) \in Client!Packet
            /\ toServer # <<>> => Head(toServer) \in Client!Packet
        BY <1>1
      <3> QED
        BY <1>2, <1>12, <3>1 DEF Client!ShortRead
    <2>2. Append(held[side], p) \in Seq(Client!Packet)
      BY <1>1
    <2>3. unsent' = unsent /\ spins' = spins
      BY <1>12 DEF Client!ShortRead
    <2> QED
      BY <1>1, <1>3, <2>1, <2>2, <2>3
  <1>13. ASSUME NEW side \in Client!Side, Client!DoSendBuff(side) PROVE BufTypes'
    <2>1. \/ unsent' = unsent \/ unsent' = [unsent EXCEPT ![side] = Tail(unsent[side])]
      BY <1>13 DEF Client!DoSendBuff
    <2>2. Tail(unsent[side]) \in Seq(Client!Packet)
      BY <1>1, <1>13 DEF Client!DoSendBuff
    <2>3. held' = held /\ spins' \subseteq Client!Side
      BY <1>1, <1>13 DEF Client!DoSendBuff
    <2> QED
      BY <1>1, <1>3, <2>1, <2>2, <2>3
  <1>14. \/ Client!TcpCreate \/ Client!TcpConnect \/ Client!SetLink
         \/ Client!Accepted \/ Client!Cut \/ UNCHANGED negoVars
         => UNCHANGED <<unsent, held, spins>>
    BY DEF Client!TcpCreate, Client!TcpConnect, Client!SetLink, Client!Accepted, Client!Cut,
           Client!netVars, Client!bufVars, negoVars
  <1> QED
    BY <1>4, <1>7, <1>8, <1>9, <1>10, <1>11, <1>12, <1>13, <1>14
    DEF Client!Next, Client!MainStep, Client!ClientStep, Client!ServerStep, Client!ByteStep

(* Each step keeps the handshake in its order: a request is sent only when *)
(* nothing is on its way, by main once and by the worker upon an answer    *)
(* that agrees.                                                            *)
LEMMA NegoPhaseStep ==
    ASSUME Client!ConstantsOK, NegoInv, Client!Next \/ UNCHANGED negoVars
    PROVE  PhaseInv'
  <1> USE DEF NegoInv, PlainTypes, PhaseInv, VerReq, VerResp, AuthReq, AuthResp,
              AskedOnce, AskedTwice, ServerHasNone, ClientHasNone, ServerGets, ClientGets,
              BufTypes, Client!Side
  <1>1. ASSUME Client!TcpCreate PROVE PhaseInv'
    BY <1>1 DEF Client!TcpCreate, Client!netVars, Client!bufVars
  <1>2. ASSUME Client!TcpConnect PROVE PhaseInv'
    BY <1>2 DEF Client!TcpConnect, Client!bufVars
  <1>3. ASSUME Client!SetLink PROVE PhaseInv'
    BY <1>3 DEF Client!SetLink, Client!netVars, Client!bufVars
  <1>4. ASSUME Client!DoVerNegoReq PROVE PhaseInv'
    <2>1. ServerHasNone /\ ClientHasNone /\ asked = <<>>
      BY <1>4 DEF Client!DoVerNegoReq
    <2>2. /\ Client!Sent(VerReq) /\ nego_pc' = "returned"
          /\ UNCHANGED <<version, toClient, held, asked>>
      BY <1>4 DEF Client!DoVerNegoReq
    <2>3. unsent'["server"] = <<>>
          /\ \/ toServer' = <<VerReq>> /\ unsent'["client"] = <<>>
             \/ toServer' = <<>> /\ unsent'["client"] \in {<<>>, <<VerReq>>}
      BY <2>1, <2>2, NegoSends
    <2> QED
      BY <2>1, <2>2, <2>3
  <1>5. ASSUME Client!OnTcpRecvData PROVE PhaseInv'
    BY <1>5, NegoReceives DEF Client!OnTcpRecvData
  <1>6. ASSUME Client!OnTcpDisconnected PROVE PhaseInv'
    BY <1>6 DEF Client!OnTcpDisconnected, Client!ClientRuns
  <1>7. ASSUME Client!OnTcpClosed PROVE PhaseInv'
    BY <1>7 DEF Client!OnTcpClosed, Client!ClientRuns
  <1>8. ASSUME Client!Accepted PROVE PhaseInv'
    BY <1>8 DEF Client!Accepted, Client!clientVars, Client!netVars, Client!bufVars
  <1>9. ASSUME Client!RecvData PROVE PhaseInv'
    BY <1>9, NegoServes DEF Client!RecvData, Client!clientVars
  <1>10. ASSUME Client!Forget PROVE PhaseInv'
    BY <1>10 DEF Client!Forget, Client!clientVars
  <1>11. ASSUME Client!Cut PROVE PhaseInv'
    BY <1>11 DEF Client!Cut, Client!clientVars, Client!bufVars
  <1>12. ASSUME UNCHANGED negoVars PROVE PhaseInv'
    BY <1>12 DEF negoVars
  <1>13. ASSUME Client!ByteStep PROVE PhaseInv'
    <2>1. /\ VerReq' = VerReq /\ AuthReq' = AuthReq /\ VerResp' = VerResp
          /\ AuthResp' = AuthResp /\ AskedOnce' = AskedOnce /\ AskedTwice' = AskedTwice
      BY <1>13, NegoMoves DEF Client!Ret
    <2> QED
      BY <1>13, <2>1, NegoMoves
  <1> QED
    BY <1>1, <1>2, <1>3, <1>4, <1>5, <1>6, <1>7, <1>8, <1>9, <1>10, <1>11, <1>12, <1>13
    DEF Client!Next, Client!MainStep, Client!ClientStep, Client!ServerStep

(* Each step keeps the handle: set_link comes before main returns, and the *)
(* handle of a link that is gone is explained.                             *)
LEMMA NegoHandleStep ==
    ASSUME Client!ConstantsOK, NegoInv, Client!Next \/ UNCHANGED negoVars
    PROVE  HandleInv'
  <1> USE DEF NegoInv, PlainTypes, HandleInv, Client!Link, Client!Invalid, Client!MainPC
  <1>1. ASSUME Client!TcpCreate PROVE HandleInv'
    BY <1>1 DEF Client!TcpCreate, Client!netVars, Client!bufVars
  <1>2. ASSUME Client!TcpConnect PROVE HandleInv'
    BY <1>2 DEF Client!TcpConnect
  <1>3. ASSUME Client!SetLink PROVE HandleInv'
    BY <1>3 DEF Client!SetLink, Client!netVars, Client!bufVars
  <1>4. ASSUME Client!DoVerNegoReq PROVE HandleInv'
    BY <1>4 DEF Client!DoVerNegoReq, Client!Sent
  <1>5. ASSUME Client!OnTcpRecvData PROVE HandleInv'
    BY <1>5 DEF Client!OnTcpRecvData, Client!Heard, Client!Sent
  <1>6. ASSUME Client!OnTcpDisconnected PROVE HandleInv'
    BY <1>6 DEF Client!OnTcpDisconnected, Client!ClientRuns
  <1>7. ASSUME Client!OnTcpClosed PROVE HandleInv'
    BY <1>7 DEF Client!OnTcpClosed, Client!ClientRuns
  <1>8. ASSUME Client!Accepted PROVE HandleInv'
    BY <1>8 DEF Client!Accepted, Client!clientVars, Client!netVars, Client!bufVars
  <1>9. ASSUME Client!RecvData PROVE HandleInv'
    BY <1>9 DEF Client!RecvData, Client!Answer, Client!clientVars
  <1>10. ASSUME Client!Forget PROVE HandleInv'
    BY <1>10 DEF Client!Forget, Client!clientVars
  <1>11. ASSUME Client!Cut PROVE HandleInv'
    BY <1>11 DEF Client!Cut, Client!clientVars
  <1>12. ASSUME UNCHANGED negoVars PROVE HandleInv'
    BY <1>12 DEF negoVars
  <1>13. ASSUME Client!ByteStep PROVE HandleInv'
    <2>1. UNCHANGED <<version, path, nego_pc, nego_link, mh_tcpLink, mui_client_id,
                      nego_told, early, refused, handle, asked>>
      BY <1>13, NegoMoves
    <2> QED
      BY <2>1
  <1> QED
    BY <1>1, <1>2, <1>3, <1>4, <1>5, <1>6, <1>7, <1>8, <1>9, <1>10, <1>11, <1>12, <1>13
    DEF Client!Next, Client!MainStep, Client!ClientStep, Client!ServerStep

(* Each step keeps the agreement, and no answer is refused: the id comes   *)
(* with the answer to the one authentication there is.                     *)
LEMMA NegoAuthStep ==
    ASSUME Client!ConstantsOK, NegoInv, Client!Next \/ UNCHANGED negoVars
    PROVE  (Client!AuthFollowsAgreement /\ Client!AnswersAreHeard)'
  <1> USE DEF NegoInv, Client!AuthFollowsAgreement, Client!AnswersAreHeard
  <1>1. ASSUME Client!TcpCreate
        PROVE  (Client!AuthFollowsAgreement /\ Client!AnswersAreHeard)'
    BY <1>1 DEF Client!TcpCreate, Client!netVars, Client!bufVars
  <1>2. ASSUME Client!TcpConnect
        PROVE  (Client!AuthFollowsAgreement /\ Client!AnswersAreHeard)'
    BY <1>2 DEF Client!TcpConnect
  <1>3. ASSUME Client!SetLink
        PROVE  (Client!AuthFollowsAgreement /\ Client!AnswersAreHeard)'
    BY <1>3 DEF Client!SetLink, Client!netVars, Client!bufVars
  <1>4. ASSUME Client!DoVerNegoReq
        PROVE  (Client!AuthFollowsAgreement /\ Client!AnswersAreHeard)'
    BY <1>4 DEF Client!DoVerNegoReq, Client!Sent
  <1>5. ASSUME Client!OnTcpRecvData
        PROVE  (Client!AuthFollowsAgreement /\ Client!AnswersAreHeard)'
    <2>1. asked' = asked /\ version' = version
      BY <1>5 DEF Client!OnTcpRecvData
    <2>2. NegoInv /\ Client!OnTcpRecvData
      BY <1>5
    <2> QED
      BY <2>1, <2>2, NegoReceives DEF AskedTwice
  <1>6. ASSUME Client!OnTcpDisconnected
        PROVE  (Client!AuthFollowsAgreement /\ Client!AnswersAreHeard)'
    BY <1>6 DEF Client!OnTcpDisconnected, Client!ClientRuns
  <1>7. ASSUME Client!OnTcpClosed
        PROVE  (Client!AuthFollowsAgreement /\ Client!AnswersAreHeard)'
    BY <1>7 DEF Client!OnTcpClosed, Client!ClientRuns
  <1>8. ASSUME Client!Accepted
        PROVE  (Client!AuthFollowsAgreement /\ Client!AnswersAreHeard)'
    BY <1>8 DEF Client!Accepted, Client!clientVars, Client!netVars, Client!bufVars
  <1>9. ASSUME Client!RecvData
        PROVE  (Client!AuthFollowsAgreement /\ Client!AnswersAreHeard)'
    <2>1. asked # AskedTwice
      <3>1. \A x, y, z : <<>> # <<y, z>> /\ <<x>> # <<y, z>>
        OBVIOUS
      <3> QED
        BY <1>9, <3>1, NegoServes DEF AskedOnce, AskedTwice
    <2> QED
      BY <1>9, <2>1 DEF Client!RecvData, Client!clientVars, AskedTwice
  <1>10. ASSUME Client!Forget
         PROVE  (Client!AuthFollowsAgreement /\ Client!AnswersAreHeard)'
    BY <1>10 DEF Client!Forget, Client!clientVars
  <1>11. ASSUME Client!Cut
         PROVE  (Client!AuthFollowsAgreement /\ Client!AnswersAreHeard)'
    BY <1>11 DEF Client!Cut, Client!clientVars
  <1>12. ASSUME UNCHANGED negoVars
         PROVE  (Client!AuthFollowsAgreement /\ Client!AnswersAreHeard)'
    BY <1>12 DEF negoVars
  <1>13. ASSUME Client!ByteStep
         PROVE  (Client!AuthFollowsAgreement /\ Client!AnswersAreHeard)'
    BY <1>13 DEF Client!ByteStep, Client!ShortRead, Client!DoSendBuff, Client!clientVars
  <1> QED
    BY <1>1, <1>2, <1>3, <1>4, <1>5, <1>6, <1>7, <1>8, <1>9, <1>10, <1>11, <1>12, <1>13
    DEF Client!Next, Client!MainStep, Client!ClientStep, Client!ServerStep

-----------------------------------------------------------------------------
(* The exchange over UDP (UdpClient).                                      *)

(* What a datagram was sent upon: an answer that agrees, upon a request    *)
(* for version 1.0; what belongs to the authentication, upon agreement.    *)
Lawful(m) ==
    /\ m.type = "VER_NEGO_RESP" /\ m.value = 0 =>
            Udp!Data("VER_NEGO_REQ", m.to, m.from, <<1, 0>>) \in sent
    /\ m.type = "LINK_AUTH_REQ" => Udp!Agreed(m.from, m.to)
    /\ m.type = "LINK_AUTH_RESP" => Udp!Agreed(m.to, m.from)

(* What a worker has read, or has left unread, was sent, and to its peer.  *)
UdpInv ==
    /\ Udp!TypeOK /\ net \subseteq sent
    /\ \A p \in Peer : worker[p] # Udp!None => worker[p] \in sent /\ worker[p].to = p
    /\ \A p \in Peer : \A m \in left[p] : m \in sent /\ m.to = p
    /\ \A m \in sent : Lawful(m)
    /\ \A pair \in authed : Udp!Agreed(pair[1], pair[2])

(* A datagram is made of its type, its ends and its value.                 *)
LEMMA UdpMessages ==
    /\ \A m \in Udp!Message :
        /\ m = Udp!Data(m.type, m.from, m.to, m.value)
        /\ m.from \in Peer /\ m.to \in Peer /\ m # Udp!None
        /\ m.type = "VER_NEGO_REQ" => m.value \in Major \X Sub
    /\ \A p, q \in Peer :
        /\ \A v \in Major \X Sub : Udp!Data("VER_NEGO_REQ", p, q, v) \in Udp!Message
        /\ \A r \in {0, 2} : Udp!Data("VER_NEGO_RESP", p, q, r) \in Udp!Message
        /\ Udp!Data("LINK_AUTH_REQ", p, q, 0) \in Udp!Message
        /\ Udp!Data("LINK_AUTH_RESP", p, q, 0) \in Udp!Message
  <1> DEFINE Kind == ({"VER_NEGO_REQ"} \X (Major \X Sub)) \cup ({"VER_NEGO_RESP"} \X {0, 2})
                     \cup ({"LINK_AUTH_REQ", "LINK_AUTH_RESP"} \X {0})
             D(k, p, q) == Udp!Data(k[1], p, q, k[2])
  <1>1. Udp!Message = {D(k, p, q) : p \in Peer, q \in Peer, k \in Kind}
    BY DEF Udp!Message
  <1>2. /\ \A v \in Major \X Sub : <<"VER_NEGO_REQ", v>> \in Kind
        /\ \A r \in {0, 2} : <<"VER_NEGO_RESP", r>> \in Kind
        /\ <<"LINK_AUTH_REQ", 0>> \in Kind /\ <<"LINK_AUTH_RESP", 0>> \in Kind
    OBVIOUS
  <1>3. \A k \in Kind : /\ k[1] = "VER_NEGO_REQ" => k[2] \in Major \X Sub
                        /\ k[1] # "none"
    OBVIOUS
  <1> HIDE DEF Kind, D
  <1>4. ASSUME NEW m \in Udp!Message
        PROVE  /\ m = Udp!Data(m.type, m.from, m.to, m.value)
               /\ m.from \in Peer /\ m.to \in Peer /\ m # Udp!None
               /\ m.type = "VER_NEGO_REQ" => m.value \in Major \X Sub
    <2>1. PICK p \in Peer, q \in Peer, k \in Kind : m = D(k, p, q)
      BY <1>1
    <2>2. m.type = k[1] /\ m.from = p /\ m.to = q /\ m.value = k[2]
      BY <2>1 DEF D, Udp!Data
    <2>3. m.type # "none" /\ Udp!None.type = "none"
      BY <1>3, <2>2 DEF Udp!None
    <2> QED
      BY <1>3, <2>1, <2>2, <2>3 DEF D
  <1>5. \A p, q \in Peer, k \in Kind : D(k, p, q) \in Udp!Message
    BY <1>1
  <1>6. \A p, q, x, y : D(<<x, y>>, p, q) = Udp!Data(x, p, q, y)
    BY DEF D
  <1>7. ASSUME NEW p \in Peer, NEW q \in Peer
        PROVE  /\ \A v \in Major \X Sub : Udp!Data("VER_NEGO_REQ", p, q, v) \in Udp!Message
               /\ \A r \in {0, 2} : Udp!Data("VER_NEGO_RESP", p, q, r) \in Udp!Message
               /\ Udp!Data("LINK_AUTH_REQ", p, q, 0) \in Udp!Message
               /\ Udp!Data("LINK_AUTH_RESP", p, q, 0) \in Udp!Message
    <2>1. \A x, y : <<x, y>> \in Kind => Udp!Data(x, p, q, y) \in Udp!Message
      BY <1>5, <1>6, Zenon
    <2> QED
      BY <1>2, <2>1, Zenon
  <1> QED
    BY <1>4, <1>7, Zenon

(* What has been agreed stays agreed: nothing is unsent.                   *)
LEMMA UdpGrows ==
    ASSUME sent \subseteq sent'
    PROVE  /\ \A p, q : Udp!Agreed(p, q) => Udp!Agreed(p, q)'
           /\ \A m : Lawful(m) => Lawful(m)'
  BY DEF Udp!Agreed, Lawful

(* A lawful datagram may be sent.                                          *)
LEMMA UdpSends ==
    ASSUME UdpInv, NEW p \in Peer, NEW m \in Udp!Message, Lawful(m), Udp!Send(p, m)
    PROVE  /\ sent \subseteq sent' /\ sent' \subseteq Udp!Message
           /\ net' \subseteq sent' /\ total' \in Nat
           /\ \A x \in sent' : Lawful(x)'
  <1>1. sent \subseteq sent' /\ sent' \subseteq sent \cup {m} /\ net' \subseteq sent'
    BY DEF Udp!Send, UdpInv
  <1>2. total' \in Nat
    BY DEF Udp!Send, UdpInv, Udp!TypeOK
  <1> QED
    BY <1>1, <1>2, UdpGrows DEF UdpInv, Udp!TypeOK

(* Init says nothing yet.                                                  *)
LEMMA UdpInit == Udp!ConstantsOK /\ Udp!Init => UdpInv
  BY DEF Udp!ConstantsOK, Udp!Init, UdpInv, Udp!TypeOK

(* What is read of a datagram that a handler takes.                        *)
LEMMA UdpTakes ==
    ASSUME UdpInv, NEW p \in Peer, NEW type, Udp!Takes(p, type), type # "none"
    PROVE  /\ worker[p] \in sent /\ worker[p] \in Udp!Message /\ worker[p].to = p
           /\ worker[p].from \in Peer /\ worker[p].type = type /\ Lawful(worker[p])
           /\ p \in mh_link
           /\ worker' = [worker EXCEPT ![p] = Udp!None]
  <1>1. worker[p] # Udp!None
    BY DEF Udp!Takes, Udp!None
  <1> QED
    BY <1>1, UdpMessages DEF Udp!Takes, UdpInv, Udp!TypeOK

(* A step in which nothing is sent keeps what was agreed, if a worker gets *)
(* only what is for its peer and a peer is authenticated only by an        *)
(* answer.                                                                 *)
LEMMA UdpQuiet ==
    ASSUME UdpInv, Udp!TypeOK', sent' = sent, net' \subseteq net,
           \A p \in Peer : \/ worker'[p] \in {worker[p], Udp!None} \cup left[p]
                           \/ worker'[p] \in net /\ worker'[p].to = p,
           \A p \in Peer : \A m \in left'[p] : m \in left[p] \/ (m \in net /\ m.to = p),
           \A pair \in authed' : pair \in authed \/ Udp!Agreed(pair[1], pair[2])
    PROVE  UdpInv'
  <1>1. \A m \in sent' : Lawful(m)'
    BY UdpGrows DEF UdpInv
  <1>2. \A pair \in authed' : Udp!Agreed(pair[1], pair[2])'
    BY UdpGrows DEF UdpInv
  <1> QED
    BY <1>1, <1>2 DEF UdpInv

(* What is read was left, or has come, and what else has come is left.     *)
LEMMA UdpReads ==
    ASSUME UdpInv, NEW p \in Peer, Udp!Read(p) \/ Udp!ReadLeft(p)
    PROVE  /\ worker[p] = Udp!None
           /\ UNCHANGED <<link, mh_link, asks, sent, total, ignored, authed>>
           /\ \E came \in SUBSET {m \in net : m.to = p} : \E x \in left[p] \cup came :
                /\ worker' = [worker EXCEPT ![p] = x]
                /\ left' = [left EXCEPT ![p] = (left[p] \cup came) \ {x}]
                /\ net' = net \ came \/ (Repeat /\ net' = net)
  <1>1. CASE Udp!Read(p)
    BY <1>1 DEF Udp!Read, Udp!Reads
  <1>2. CASE Udp!ReadLeft(p)
    <2>1. PICK x \in left[p] : /\ worker' = [worker EXCEPT ![p] = x]
                               /\ left' = [left EXCEPT ![p] = left[p] \ {x}]
      BY <1>2 DEF Udp!ReadLeft, Udp!Reads
    <2>2. {} \in SUBSET {m \in net : m.to = p} /\ net \ {} = net /\ left[p] \cup {} = left[p]
      OBVIOUS
    <2>3. net' = net
      BY <1>2 DEF Udp!ReadLeft
    <2>4. \E came \in SUBSET {m \in net : m.to = p} : \E y \in left[p] \cup came :
                /\ worker' = [worker EXCEPT ![p] = y]
                /\ left' = [left EXCEPT ![p] = (left[p] \cup came) \ {y}]
                /\ net' = net \ came \/ (Repeat /\ net' = net)
      <3>1. WITNESS {} \in SUBSET {m \in net : m.to = p}
      <3>2. x \in left[p] \cup {}
        BY <2>1
      <3>3. WITNESS x \in left[p] \cup {}
      <3> QED
        BY <2>1, <2>2, <2>3
    <2> QED
      BY <1>2, <2>4 DEF Udp!ReadLeft, Udp!Reads
  <1> QED
    BY <1>1, <1>2

(* A handler that takes a datagram and sends a lawful one.                 *)
LEMMA UdpAnswers ==
    ASSUME UdpInv, Udp!TypeOK', NEW p \in Peer, NEW m \in Udp!Message, Lawful(m),
           Udp!Send(p, m), worker' \in {worker, [worker EXCEPT ![p] = Udp!None]},
           left' = left, authed' = authed
    PROVE  UdpInv'
  <1>1. /\ sent \subseteq sent' /\ net' \subseteq sent'
        /\ \A x \in sent' : Lawful(x)'
    BY UdpSends
  <1>2. \A pair \in authed' : Udp!Agreed(pair[1], pair[2])'
    BY <1>1, UdpGrows DEF UdpInv
  <1>3. \A q \in Peer : worker'[q] \in {worker[q], Udp!None}
    BY DEF UdpInv, Udp!TypeOK
  <1> QED
    BY <1>1, <1>2, <1>3 DEF UdpInv

(* Each step keeps the types, and who is told of a link has one.           *)
LEMMA UdpTypes ==
    ASSUME Udp!ConstantsOK, UdpInv, Udp!Next \/ UNCHANGED udpVars
    PROVE  Udp!TypeOK'
  <1> USE DEF Udp!TypeOK
  <1>0. Udp!TypeOK
    BY DEF UdpInv
  <1>1. ASSUME NEW p \in Peer, Udp!Watch(p) \/ Udp!OnUdpCreated(p)
                               \/ Udp!Uninit(p) \/ Udp!OnUdpClosed(p)
        PROVE  Udp!TypeOK'
    BY <1>0, <1>1 DEF Udp!Watch, Udp!OnUdpCreated, Udp!Uninit, Udp!OnUdpClosed, Udp!Move,
                      Udp!traffic
  <1>2. ASSUME NEW p \in Peer, Udp!Read(p) \/ Udp!ReadLeft(p) PROVE Udp!TypeOK'
    <2>1. PICK came, x :
                /\ came \subseteq net /\ x \in left[p] \cup came
                /\ worker' = [worker EXCEPT ![p] = x]
                /\ left' = [left EXCEPT ![p] = (left[p] \cup came) \ {x}]
                /\ net' = net \ came \/ (Repeat /\ net' = net)
      BY <1>2, UdpReads
    <2>2. UNCHANGED <<link, mh_link, asks, sent, total, ignored, authed>>
      BY <1>2, UdpReads
    <2>3. x \in Udp!Message /\ (left[p] \cup came) \ {x} \in SUBSET Udp!Message
      BY <1>0, <2>1
    <2> QED
      BY <1>0, <2>1, <2>2, <2>3
  <1>3. ASSUME NEW p \in Peer, Udp!Ignore(p) PROVE Udp!TypeOK'
    BY <1>0, <1>3 DEF Udp!Ignore
  <1>4. ASSUME NEW p \in Peer, NEW m \in Udp!Message, Udp!Send(p, m)
        PROVE  net' \subseteq Udp!Message /\ sent' \subseteq Udp!Message /\ total' \in Nat
    BY <1>0, <1>4 DEF Udp!Send
  <1>5. ASSUME NEW p \in Peer, NEW q \in Peer, NEW v \in Major \X Sub, Udp!DoVerNegoReq(p, q, v)
        PROVE  Udp!TypeOK'
    <2>1. net' \subseteq Udp!Message /\ sent' \subseteq Udp!Message /\ total' \in Nat
      BY <1>4, <1>5, UdpMessages DEF Udp!DoVerNegoReq
    <2>2. asks' \in [Peer -> 0 .. MaxAsks]
      BY <1>0, <1>5 DEF Udp!DoVerNegoReq, Udp!ConstantsOK
    <2> QED
      BY <1>0, <1>5, <2>1, <2>2 DEF Udp!DoVerNegoReq
  <1>6. ASSUME NEW p \in Peer, Udp!OnRecvVerNegoReq(p) PROVE Udp!TypeOK'
    <2>1. Udp!Reply(worker[p], "VER_NEGO_RESP", Udp!Ret(worker[p].value)) \in Udp!Message
      BY <1>6, UdpTakes, UdpMessages DEF Udp!OnRecvVerNegoReq, Udp!Reply, Udp!Ret
    <2> QED
      BY <1>0, <1>4, <1>6, <2>1 DEF Udp!OnRecvVerNegoReq, Udp!Takes
  <1>7. ASSUME NEW p \in Peer, Udp!OnRecvVerNegoResp(p) PROVE Udp!TypeOK'
    <2>1. Udp!Reply(worker[p], "LINK_AUTH_REQ", 0) \in Udp!Message
      BY <1>7, UdpTakes, UdpMessages DEF Udp!OnRecvVerNegoResp, Udp!Reply
    <2> QED
      BY <1>0, <1>4, <1>7, <2>1 DEF Udp!OnRecvVerNegoResp, Udp!Takes
  <1>8. ASSUME NEW p \in Peer, Udp!OnRecvLinkAuthReq(p) PROVE Udp!TypeOK'
    <2>1. Udp!Reply(worker[p], "LINK_AUTH_RESP", 0) \in Udp!Message
      BY <1>8, UdpTakes, UdpMessages DEF Udp!OnRecvLinkAuthReq, Udp!Reply
    <2> QED
      BY <1>0, <1>4, <1>8, <2>1 DEF Udp!OnRecvLinkAuthReq, Udp!Takes
  <1>9. ASSUME NEW p \in Peer, Udp!OnRecvLinkAuthResp(p) PROVE Udp!TypeOK'
    BY <1>0, <1>9, UdpTakes DEF Udp!OnRecvLinkAuthResp
  <1>10. ASSUME NEW m \in net, Udp!Lose(m) PROVE Udp!TypeOK'
    BY <1>0, <1>10 DEF Udp!Lose
  <1>11. ASSUME UNCHANGED udpVars PROVE Udp!TypeOK'
    BY <1>0, <1>11 DEF udpVars
  <1> QED
    BY <1>1, <1>2, <1>3, <1>5, <1>6, <1>7, <1>8, <1>9, <1>10, <1>11
    DEF Udp!Next, Udp!Handle

(* Each step keeps the invariant: what a peer answers is lawful since what *)
(* it answers is.                                                          *)
LEMMA UdpStep ==
    ASSUME Udp!ConstantsOK, UdpInv, Udp!Next \/ UNCHANGED udpVars
    PROVE  UdpInv'
  <1>0. Udp!TypeOK /\ Udp!TypeOK'
    BY UdpTypes DEF UdpInv
  <1>1. ASSUME NEW p \in Peer, Udp!Watch(p) \/ Udp!OnUdpCreated(p)
                               \/ Udp!Uninit(p) \/ Udp!OnUdpClosed(p)
        PROVE  UdpInv'
    BY <1>0, <1>1, UdpQuiet
    DEF Udp!Watch, Udp!OnUdpCreated, Udp!Uninit, Udp!OnUdpClosed, Udp!traffic
  <1>2. ASSUME NEW p \in Peer, Udp!Read(p) \/ Udp!ReadLeft(p) PROVE UdpInv'
    <2>1. PICK came, x :
                /\ came \subseteq {m \in net : m.to = p} /\ x \in left[p] \cup came
                /\ worker' = [worker EXCEPT ![p] = x]
                /\ left' = [left EXCEPT ![p] = (left[p] \cup came) \ {x}]
                /\ net' = net \ came \/ (Repeat /\ net' = net)
      BY <1>2, UdpReads
    <2>2. \A q \in Peer : \/ worker'[q] \in {worker[q], Udp!None} \cup left[q]
                          \/ worker'[q] \in net /\ worker'[q].to = q
      BY <1>0, <2>1 DEF Udp!TypeOK
    <2>3. \A q \in Peer : \A m \in left'[q] : m \in left[q] \/ (m \in net /\ m.to = q)
      BY <1>0, <2>1 DEF Udp!TypeOK
    <2>4. sent' = sent /\ net' \subseteq net /\ authed' = authed
      BY <1>2, <2>1, UdpReads
    <2> QED
      BY <1>0, <2>2, <2>3, <2>4, UdpQuiet
  <1>3. ASSUME NEW p \in Peer, Udp!Ignore(p) PROVE UdpInv'
    <2>1. \A q \in Peer : worker'[q] \in {worker[q], Udp!None}
      BY <1>0, <1>3 DEF Udp!Ignore, Udp!TypeOK
    <2> QED
      BY <1>0, <1>3, <2>1, UdpQuiet DEF Udp!Ignore
  <1>4. ASSUME NEW p \in Peer, NEW q \in Peer, NEW v \in Major \X Sub, Udp!DoVerNegoReq(p, q, v)
        PROVE  UdpInv'
    <2> DEFINE m == Udp!Data("VER_NEGO_REQ", p, q, v)
    <2>1. m \in Udp!Message /\ Lawful(m)
      BY UdpMessages DEF Lawful, Udp!Data
    <2>2. Udp!Send(p, m) /\ worker' = worker /\ left' = left /\ authed' = authed
      BY <1>4 DEF Udp!DoVerNegoReq
    <2> HIDE DEF m
    <2> QED
      BY <1>0, <2>1, <2>2, UdpAnswers
  <1>5. ASSUME NEW p \in Peer, Udp!OnRecvVerNegoReq(p) PROVE UdpInv'
    <2> DEFINE w == worker[p] m == Udp!Reply(w, "VER_NEGO_RESP", Udp!Ret(w.value))
    <2>1. Udp!Takes(p, "VER_NEGO_REQ") /\ Udp!Send(p, m) /\ left' = left /\ authed' = authed
      BY <1>5 DEF Udp!OnRecvVerNegoReq
    <2>2. /\ w \in sent /\ w \in Udp!Message /\ w.to = p /\ w.type = "VER_NEGO_REQ"
          /\ worker' = [worker EXCEPT ![p] = Udp!None]
      BY <2>1, UdpTakes
    <2>3. w = Udp!Data("VER_NEGO_REQ", w.from, w.to, w.value) /\ w.from \in Peer
          /\ w.value \in Major \X Sub
      BY <2>2, UdpMessages
    <2>4. m \in Udp!Message
      BY <2>2, <2>3, UdpMessages DEF Udp!Reply, Udp!Ret
    <2>5. Udp!Ret(w.value) = 0 => w.value = <<1, 0>>
      BY <2>3 DEF Udp!Ret
    <2>6. Lawful(m)
      BY <2>2, <2>3, <2>5 DEF Lawful, Udp!Reply, Udp!Data
    <2> HIDE DEF m, w
    <2> QED
      BY <1>0, <2>1, <2>2, <2>4, <2>6, UdpAnswers
  <1>6. ASSUME NEW p \in Peer, Udp!OnRecvVerNegoResp(p) PROVE UdpInv'
    <2> DEFINE w == worker[p] m == Udp!Reply(w, "LINK_AUTH_REQ", 0)
    <2>1. Udp!Takes(p, "VER_NEGO_RESP") /\ left' = left /\ authed' = authed
      BY <1>6 DEF Udp!OnRecvVerNegoResp
    <2>2. /\ w \in sent /\ w \in Udp!Message /\ w.to = p /\ w.type = "VER_NEGO_RESP"
          /\ Lawful(w) /\ worker' = [worker EXCEPT ![p] = Udp!None]
      BY <2>1, UdpTakes
    <2>3. CASE w.value = 0
      <3>1. w = Udp!Data("VER_NEGO_RESP", w.from, w.to, 0) /\ w.from \in Peer
        BY <2>2, <2>3, UdpMessages
      <3>2. Udp!Data("VER_NEGO_REQ", p, w.from, <<1, 0>>) \in sent
        BY <2>2, <2>3 DEF Lawful
      <3>3. <<1, 0>> \in Major \X Sub
        <4> DEFINE r == Udp!Data("VER_NEGO_REQ", p, w.from, <<1, 0>>)
        <4>1. r.type = "VER_NEGO_REQ" /\ r.value = <<1, 0>> /\ r \in Udp!Message
          BY <1>0, <3>2 DEF Udp!Data, Udp!TypeOK
        <4> QED
          BY <4>1, UdpMessages
      <3>4. Udp!Agreed(p, w.from)
        BY <2>2, <3>1, <3>2, <3>3 DEF Udp!Agreed
      <3>5. m \in Udp!Message /\ Lawful(m)
        BY <2>2, <3>1, <3>4, UdpMessages DEF Udp!Reply, Udp!Data, Lawful
      <3>6. Udp!Send(p, m)
        BY <1>6, <2>3 DEF Udp!OnRecvVerNegoResp
      <3> HIDE DEF m, w
      <3> QED
        BY <1>0, <2>1, <2>2, <3>5, <3>6, UdpAnswers
    <2>4. CASE w.value # 0
      <3>1. \A q \in Peer : worker'[q] \in {worker[q], Udp!None}
        BY <1>0, <2>2 DEF Udp!TypeOK
      <3> QED
        BY <1>0, <1>6, <2>4, <3>1, UdpQuiet DEF Udp!OnRecvVerNegoResp
    <2> QED
      BY <2>3, <2>4
  <1>7. ASSUME NEW p \in Peer, Udp!OnRecvLinkAuthReq(p) PROVE UdpInv'
    <2> DEFINE w == worker[p] m == Udp!Reply(w, "LINK_AUTH_RESP", 0)
    <2>1. Udp!Takes(p, "LINK_AUTH_REQ") /\ Udp!Send(p, m) /\ left' = left /\ authed' = authed
      BY <1>7 DEF Udp!OnRecvLinkAuthReq
    <2>2. /\ w \in Udp!Message /\ w.to = p /\ w.type = "LINK_AUTH_REQ" /\ w.from \in Peer
          /\ Lawful(w) /\ worker' = [worker EXCEPT ![p] = Udp!None]
      BY <2>1, UdpTakes
    <2>3. m \in Udp!Message /\ Lawful(m)
      BY <2>2, UdpMessages DEF Udp!Reply, Udp!Data, Lawful
    <2> HIDE DEF m, w
    <2> QED
      BY <1>0, <2>1, <2>2, <2>3, UdpAnswers
  <1>8. ASSUME NEW p \in Peer, Udp!OnRecvLinkAuthResp(p) PROVE UdpInv'
    <2>1. Udp!Takes(p, "LINK_AUTH_RESP")
      BY <1>8 DEF Udp!OnRecvLinkAuthResp
    <2>2. Udp!Agreed(p, worker[p].from)
      BY <2>1, UdpTakes DEF Lawful
    <2>3. \A q \in Peer : worker'[q] \in {worker[q], Udp!None}
      BY <1>0, <2>1 DEF Udp!TypeOK, Udp!Takes
    <2> QED
      BY <1>0, <1>8, <2>2, <2>3, UdpQuiet DEF Udp!OnRecvLinkAuthResp
  <1>9. ASSUME NEW m \in net, Udp!Lose(m) PROVE UdpInv'
    BY <1>0, <1>9, UdpQuiet DEF Udp!Lose
  <1>10. ASSUME UNCHANGED udpVars PROVE UdpInv'
    BY <1>0, <1>10, UdpQuiet DEF udpVars
  <1> QED
    BY <1>1, <1>2, <1>3, <1>4, <1>5, <1>6, <1>7, <1>8, <1>9, <1>10 DEF Udp!Next, Udp!Handle

-----------------------------------------------------------------------------
(* The exchange over UDP comes to an end (UdpClient): each datagram is     *)
(* answered by one that is worth less.                                     *)

Of(S, type) == {m \in S : m.type = type}

(* How many datagrams may still come of one that has not been handled.     *)
Worth(type) ==
    CASE type = "VER_NEGO_REQ" -> 3
      [] type = "VER_NEGO_RESP" -> 2
      [] type = "LINK_AUTH_REQ" -> 1
      [] OTHER -> 0
Kinds == {"VER_NEGO_REQ", "VER_NEGO_RESP", "LINK_AUTH_REQ"}
Weighed(count) ==
    3 * count["VER_NEGO_REQ"] + 2 * count["VER_NEGO_RESP"] + count["LINK_AUTH_REQ"]
Due(S) == Weighed([type \in Kinds |-> Cardinality(Of(S, type))])

InHand == {worker[p] : p \in {q \in Peer : worker[q] # Udp!None}}
Left == UNION {left[p] : p \in Peer}
Started == {ask \in Peer \X (1..MaxAsks) : ask[2] <= asks[ask[1]]}

(* What was sent and what may come of what is on its way was paid for by   *)
(* the requests that were started.                                         *)
StormInv ==
    /\ IsFiniteSet(net) /\ IsFiniteSet(Left) /\ IsFiniteSet(InHand) /\ IsFiniteSet(Started)
    /\ Repeat \/ total + Due(net) + Due(Left) + Due(InHand) <= 4 * Cardinality(Started)

(* The datagrams of a type, one more and one less.                         *)
LEMMA OfOne ==
    ASSUME NEW S, IsFiniteSet(S), NEW m, NEW type
    PROVE  /\ Cardinality(Of(S, type)) \in Nat
           /\ Cardinality(Of(S \cup {m}, type)) <=
                Cardinality(Of(S, type)) + (IF m.type = type THEN 1 ELSE 0)
           /\ m \in S => Cardinality(Of(S \ {m}, type)) =
                Cardinality(Of(S, type)) - (IF m.type = type THEN 1 ELSE 0)
  <1>1. IsFiniteSet(Of(S, type))
    <2>1. Of(S, type) \in SUBSET S
      BY DEF Of
    <2> QED
      BY <2>1, FS_Subset, Zenon
  <1>2. Cardinality(Of(S, type)) \in Nat
    BY <1>1, FS_CardinalityType, Zenon
  <1>3. CASE m.type = type
    <2>1. Of(S \cup {m}, type) = Of(S, type) \cup {m} /\ Of(S \ {m}, type) = Of(S, type) \ {m}
      BY <1>3 DEF Of
    <2>2. m \in S => m \in Of(S, type)
      BY <1>3 DEF Of
    <2>3. Cardinality(Of(S, type) \cup {m}) =
            IF m \in Of(S, type) THEN Cardinality(Of(S, type)) ELSE Cardinality(Of(S, type)) + 1
      BY <1>1, FS_AddElement, Zenon
    <2>4. Cardinality(Of(S, type) \ {m}) =
            IF m \in Of(S, type) THEN Cardinality(Of(S, type)) - 1 ELSE Cardinality(Of(S, type))
      BY <1>1, FS_RemoveElement, Zenon
    <2>5. Cardinality(Of(S \cup {m}, type)) <= Cardinality(Of(S, type)) + 1
      <3>1. PICK i, j : i = Cardinality(Of(S, type)) /\ j = Cardinality(Of(S \cup {m}, type))
        OBVIOUS
      <3>2. i \in Nat /\ j \in {i, i + 1}
        BY <1>2, <2>1, <2>3, <3>1, Zenon
      <3>3. j <= i + 1
        BY <3>2
      <3> QED
        BY <3>1, <3>3, Zenon
    <2>6. m \in S => Cardinality(Of(S \ {m}, type)) = Cardinality(Of(S, type)) - 1
      BY <2>1, <2>2, <2>4
    <2> QED
      BY <1>2, <1>3, <2>5, <2>6
  <1>4. CASE m.type # type
    <2>1. Of(S \cup {m}, type) = Of(S, type) /\ Of(S \ {m}, type) = Of(S, type)
      BY <1>4 DEF Of
    <2> QED
      BY <1>2, <1>4, <2>1
  <1> QED
    BY <1>3, <1>4

(* What may come of the datagrams, one more and one less.                  *)
LEMMA DueOne ==
    ASSUME NEW S, IsFiniteSet(S), NEW m
    PROVE  /\ IsFiniteSet(S \cup {m}) /\ IsFiniteSet(S \ {m})
           /\ Due(S) \in Nat /\ Worth(m.type) \in Nat
           /\ Due(S \cup {m}) \in Nat /\ Due(S \cup {m}) <= Due(S) + Worth(m.type)
           /\ Due(S \ {m}) \in Nat /\ m \in S => Due(S \ {m}) + Worth(m.type) = Due(S)
  <1>1. IsFiniteSet(S \cup {m}) /\ IsFiniteSet(S \ {m})
    BY FS_AddElement, FS_RemoveElement, Zenon
  <1>2. \A T, x : IsFiniteSet(T) => Cardinality(Of(T, x)) \in Nat
    BY OfOne, Zenon
  <1>3. \A T : IsFiniteSet(T) => Due(T) \in Nat
    BY <1>2 DEF Due, Weighed, Kinds
  <1>4. Worth(m.type) \in Nat
    BY DEF Worth
  <1>5. PICK C : C = [x \in Kinds |-> Cardinality(Of(S, x))]
    OBVIOUS
  <1>6. PICK A : A = [x \in Kinds |-> Cardinality(Of(S \cup {m}, x))]
    OBVIOUS
  <1>7. PICK R : R = [x \in Kinds |-> Cardinality(Of(S \ {m}, x))]
    OBVIOUS
  <1>8. \A x \in Kinds : C[x] \in Nat /\ A[x] \in Nat /\ R[x] \in Nat
    BY <1>1, <1>2, <1>5, <1>6, <1>7, Zenon
  <1>9. \A x \in Kinds : A[x] <= C[x] + (IF m.type = x THEN 1 ELSE 0)
    BY <1>5, <1>6, OfOne, Zenon
  <1>10. m \in S => \A x \in Kinds : R[x] = C[x] - (IF m.type = x THEN 1 ELSE 0)
    BY <1>5, <1>7, OfOne, Zenon
  <1>11. /\ Due(S) = Weighed(C) /\ Due(S \cup {m}) = Weighed(A) /\ Due(S \ {m}) = Weighed(R)
    BY <1>5, <1>6, <1>7, Zenon DEF Due
  <1>12. Weighed(A) <= Weighed(C) + Worth(m.type)
    BY <1>8, <1>9 DEF Weighed, Kinds, Worth
  <1>13. m \in S => Weighed(R) + Worth(m.type) = Weighed(C)
    BY <1>8, <1>10 DEF Weighed, Kinds, Worth
  <1> QED
    BY <1>1, <1>3, <1>4, <1>11, <1>12, <1>13, Zenon

(* What may come of the datagrams of two sets, and without those of one.   *)
LEMMA DueTwo ==
    ASSUME NEW S, IsFiniteSet(S), NEW T, IsFiniteSet(T)
    PROVE  /\ IsFiniteSet(S \cup T) /\ IsFiniteSet(S \ T)
           /\ Due(S) \in Nat /\ Due(T) \in Nat /\ Due(S \cup T) \in Nat /\ Due(S \ T) \in Nat
           /\ Due(S \cup T) <= Due(S) + Due(T)
           /\ T \subseteq S => Due(S \ T) + Due(T) = Due(S)
  <1>1. IsFiniteSet(S \cup T) /\ IsFiniteSet(S \ T)
    BY FS_Union, FS_Difference, Zenon
  <1>2. \A V : IsFiniteSet(V) => Due(V) \in Nat
    BY DueOne, Zenon
  <1>3. \A V, x : IsFiniteSet(V) => IsFiniteSet(Of(V, x)) /\ Cardinality(Of(V, x)) \in Nat
    <2> TAKE V, x
    <2>1. Of(V, x) \in SUBSET V
      BY DEF Of
    <2> QED
      BY <2>1, FS_Subset, FS_CardinalityType, Zenon
  <1>4. ASSUME NEW x
        PROVE  /\ Cardinality(Of(S \cup T, x)) <= Cardinality(Of(S, x)) + Cardinality(Of(T, x))
               /\ T \subseteq S => Cardinality(Of(S \ T, x)) =
                                        Cardinality(Of(S, x)) - Cardinality(Of(T, x))
    <2> PICK A, B : A = Of(S, x) /\ B = Of(T, x)
      OBVIOUS
    <2>1. /\ IsFiniteSet(A) /\ IsFiniteSet(B) /\ IsFiniteSet(A \cap B)
          /\ Cardinality(A) \in Nat /\ Cardinality(B) \in Nat /\ Cardinality(A \cap B) \in Nat
      BY <1>3, FS_Intersection, FS_CardinalityType, Zenon
    <2>2. Of(S \cup T, x) = A \cup B /\ Of(S \ T, x) = A \ B
      BY DEF Of
    <2>3. Cardinality(A \cup B) = Cardinality(A) + Cardinality(B) - Cardinality(A \cap B)
      BY <2>1, FS_Union, Zenon
    <2>4. Cardinality(A \ B) = Cardinality(A) - Cardinality(A \cap B)
      BY <2>1, FS_Difference, Zenon
    <2>5. T \subseteq S => A \cap B = B
      BY DEF Of
    <2>6. Cardinality(A \cup B) <= Cardinality(A) + Cardinality(B)
      BY <2>1, <2>3
    <2> QED
      BY <2>2, <2>4, <2>5, <2>6
  <1>5. PICK C : C = [x \in Kinds |-> Cardinality(Of(S, x))]
    OBVIOUS
  <1>6. PICK D : D = [x \in Kinds |-> Cardinality(Of(T, x))]
    OBVIOUS
  <1>7. PICK A : A = [x \in Kinds |-> Cardinality(Of(S \cup T, x))]
    OBVIOUS
  <1>8. PICK R : R = [x \in Kinds |-> Cardinality(Of(S \ T, x))]
    OBVIOUS
  <1>9. \A x \in Kinds : C[x] \in Nat /\ D[x] \in Nat /\ A[x] \in Nat /\ R[x] \in Nat
    BY <1>1, <1>3, <1>5, <1>6, <1>7, <1>8, Zenon
  <1>10. \A x \in Kinds : A[x] <= C[x] + D[x]
    BY <1>4, <1>5, <1>6, <1>7, Zenon
  <1>11. T \subseteq S => \A x \in Kinds : R[x] = C[x] - D[x]
    BY <1>4, <1>5, <1>6, <1>8, Zenon
  <1>12. /\ Due(S) = Weighed(C) /\ Due(T) = Weighed(D)
         /\ Due(S \cup T) = Weighed(A) /\ Due(S \ T) = Weighed(R)
    BY <1>5, <1>6, <1>7, <1>8, Zenon DEF Due
  <1>13. Weighed(A) <= Weighed(C) + Weighed(D)
    BY <1>9, <1>10 DEF Weighed, Kinds
  <1>14. T \subseteq S => Weighed(R) + Weighed(D) = Weighed(C)
    BY <1>9, <1>11 DEF Weighed, Kinds
  <1> QED
    BY <1>1, <1>2, <1>12, <1>13, <1>14, Zenon

(* A worker gets a datagram and puts one down.                             *)
LEMMA HandGets ==
    ASSUME UdpInv, NEW p \in Peer, worker[p] = Udp!None, NEW m, m # Udp!None,
           worker' = [worker EXCEPT ![p] = m]
    PROVE  InHand' = InHand \cup {m}
  BY DEF InHand, UdpInv, Udp!TypeOK

LEMMA HandPutsDown ==
    ASSUME UdpInv, NEW p \in Peer, worker[p] # Udp!None,
           worker' = [worker EXCEPT ![p] = Udp!None]
    PROVE  worker[p] \in InHand /\ InHand' = InHand \ {worker[p]}
  <1>1. \A q \in Peer : worker'[q] = (IF q = p THEN Udp!None ELSE worker[q])
    BY DEF UdpInv, Udp!TypeOK
  <1>2. \A q \in Peer : q # p /\ worker[q] # Udp!None => worker[q] # worker[p]
    BY DEF UdpInv
  <1> QED
    BY <1>1, <1>2 DEF InHand

(* Nothing is started: then as much may still come as is handled.          *)
LEMMA StormSpends ==
    ASSUME StormInv, asks' = asks, IsFiniteSet(net'), IsFiniteSet(Left'), IsFiniteSet(InHand'),
           Repeat \/ total' + Due(net)' + Due(Left)' + Due(InHand)'
                        <= total + Due(net) + Due(Left) + Due(InHand),
           total \in Nat, total' \in Nat
    PROVE  StormInv'
  <1>1. Started' = Started
    BY DEF Started
  <1>2. /\ Due(net) \in Nat /\ Due(Left) \in Nat /\ Due(InHand) \in Nat
        /\ Due(net)' \in Nat /\ Due(Left)' \in Nat /\ Due(InHand)' \in Nat
    BY DueOne DEF StormInv
  <1>3. Cardinality(Started) \in Nat
    BY FS_CardinalityType DEF StormInv
  <1>4. /\ IsFiniteSet(net)' /\ IsFiniteSet(Left)' /\ IsFiniteSet(InHand)'
        /\ IsFiniteSet(Started)'
    BY <1>1 DEF StormInv
  <1>5. Cardinality(Started)' = Cardinality(Started)
    BY <1>1
  <1> QED
    BY <1>2, <1>3, <1>4, <1>5 DEF StormInv

(* What is left unread stays, if it is not touched.                        *)
LEMMA StormLeaves ==
    ASSUME StormInv, left' = left
    PROVE  /\ IsFiniteSet(Left') /\ Due(Left) \in Nat /\ Due(Left)' = Due(Left)
  <1>1. Left' = Left
    BY DEF Left
  <1> QED
    BY <1>1, DueOne DEF StormInv

(* What is sent adds to what may come and to what was sent.                *)
LEMMA StormSends ==
    ASSUME StormInv, Udp!TypeOK, NEW p, NEW m, Udp!Send(p, m)
    PROVE  /\ IsFiniteSet(net') /\ total' \in Nat /\ Due(net)' \in Nat
           /\ Repeat \/ total' + Due(net)' <= total + Due(net) + Worth(m.type) + 1
  <1>1. /\ IsFiniteSet(net \cup {m}) /\ Due(net) \in Nat /\ Worth(m.type) \in Nat
        /\ Due(net \cup {m}) \in Nat /\ Due(net \cup {m}) <= Due(net) + Worth(m.type)
    BY DueOne, Zenon DEF StormInv
  <1>2. CASE net' = net \cup {m} /\ total' = (IF Repeat THEN total ELSE total + 1)
    <2>1. Due(net)' = Due(net \cup {m})
      BY <1>2
    <2> QED
      BY <1>1, <1>2, <2>1 DEF Udp!TypeOK
  <1>3. CASE net' = net /\ total' = total
    <2>1. Due(net)' = Due(net)
      BY <1>3
    <2> QED
      BY <1>1, <1>3, <2>1 DEF Udp!TypeOK, StormInv
  <1> QED
    BY <1>2, <1>3 DEF Udp!Send

(* A worker is done with a datagram.                                       *)
LEMMA StormHandles ==
    ASSUME UdpInv, StormInv, NEW p \in Peer, worker[p] # Udp!None,
           worker' = [worker EXCEPT ![p] = Udp!None]
    PROVE  /\ IsFiniteSet(InHand') /\ Due(InHand) \in Nat /\ Due(InHand)' \in Nat
           /\ Worth(worker[p].type) \in Nat
           /\ Due(InHand)' + Worth(worker[p].type) = Due(InHand)
  <1> PICK w : w = worker[p]
    OBVIOUS
  <1>1. w \in InHand /\ InHand' = InHand \ {w}
    BY HandPutsDown
  <1>2. Due(InHand)' = Due(InHand \ {w})
    BY <1>1
  <1>3. /\ IsFiniteSet(InHand \ {w}) /\ Due(InHand) \in Nat /\ Due(InHand \ {w}) \in Nat
        /\ Worth(w.type) \in Nat /\ Due(InHand \ {w}) + Worth(w.type) = Due(InHand)
    BY <1>1, DueOne, Zenon DEF StormInv
  <1> QED
    BY <1>1, <1>2, <1>3

(* A datagram is answered by one that is worth less.                       *)
LEMMA StormAnswers ==
    ASSUME UdpInv, StormInv, NEW p \in Peer, NEW type, Udp!Takes(p, type), type # "none",
           NEW m, Udp!Send(p, m), Worth(m.type) + 1 <= Worth(type),
           left' = left, asks' = asks
    PROVE  StormInv'
  <1>1. worker[p].type = type /\ worker[p] # Udp!None
        /\ worker' = [worker EXCEPT ![p] = Udp!None]
    BY DEF Udp!Takes, Udp!None
  <1>2. /\ IsFiniteSet(InHand') /\ Due(InHand) \in Nat /\ Due(InHand)' \in Nat
        /\ Worth(type) \in Nat /\ Due(InHand)' + Worth(type) = Due(InHand)
    BY <1>1, StormHandles
  <1>3. /\ IsFiniteSet(net') /\ total' \in Nat /\ Due(net)' \in Nat
        /\ Repeat \/ total' + Due(net)' <= total + Due(net) + Worth(m.type) + 1
    BY StormSends DEF UdpInv
  <1>4. total \in Nat /\ Due(net) \in Nat /\ Worth(m.type) \in Nat
    BY DueOne DEF UdpInv, Udp!TypeOK, StormInv
  <1>5. IsFiniteSet(Left') /\ Due(Left) \in Nat /\ Due(Left)' = Due(Left)
    BY StormLeaves
  <1>6. Repeat \/ total' + Due(net)' + Due(Left)' + Due(InHand)'
                        <= total + Due(net) + Due(Left) + Due(InHand)
    BY <1>2, <1>3, <1>4, <1>5
  <1> QED
    BY <1>2, <1>3, <1>4, <1>5, <1>6, StormSpends

(* A datagram is put down without an answer.                               *)
LEMMA StormDrops ==
    ASSUME UdpInv, StormInv, NEW p \in Peer, worker[p] # Udp!None,
           worker' = [worker EXCEPT ![p] = Udp!None],
           asks' = asks, net' = net, left' = left, total' = total
    PROVE  StormInv'
  <1>1. /\ IsFiniteSet(InHand') /\ Due(InHand) \in Nat /\ Due(InHand)' \in Nat
        /\ Worth(worker[p].type) \in Nat
        /\ Due(InHand)' + Worth(worker[p].type) = Due(InHand)
    BY StormHandles
  <1>2. IsFiniteSet(net') /\ total \in Nat /\ Due(net) \in Nat /\ Due(net)' = Due(net)
    BY DueOne DEF UdpInv, Udp!TypeOK, StormInv
  <1>3. IsFiniteSet(Left') /\ Due(Left) \in Nat /\ Due(Left)' = Due(Left)
    BY StormLeaves
  <1>4. total' + Due(net)' + Due(Left)' + Due(InHand)'
            <= total + Due(net) + Due(Left) + Due(InHand)
    BY <1>1, <1>2, <1>3
  <1> QED
    BY <1>1, <1>2, <1>3, <1>4, StormSpends

(* A request that is started pays for four datagrams.                      *)
LEMMA StormAsks ==
    ASSUME Udp!ConstantsOK, UdpInv, StormInv, NEW p \in Peer, NEW q \in Peer,
           NEW v \in Major \X Sub, Udp!DoVerNegoReq(p, q, v)
    PROVE  StormInv'
  <1> PICK m : m = Udp!Data("VER_NEGO_REQ", p, q, v)
    OBVIOUS
  <1> PICK a : a = <<p, asks[p] + 1>>
    OBVIOUS
  <1>0. Udp!TypeOK /\ asks[p] \in Nat /\ MaxAsks \in Nat
    BY DEF UdpInv, Udp!TypeOK, Udp!ConstantsOK
  <1>1. Started' = Started \cup {a} /\ a \notin Started
    <2>1. \A r \in Peer : asks[r] \in Nat /\ asks'[r] = asks[r] + (IF r = p THEN 1 ELSE 0)
      BY <1>0 DEF Udp!DoVerNegoReq, Udp!TypeOK, Udp!ConstantsOK
    <2>2. a \in Peer \X (1..MaxAsks) /\ a[1] = p /\ a[2] = asks[p] + 1
      BY <1>0 DEF Udp!DoVerNegoReq
    <2>3. a \notin Started
      BY <1>0, <2>2 DEF Started
    <2>4. ASSUME NEW r \in Peer, NEW n \in 1..MaxAsks
          PROVE  n <= asks'[r] <=> n <= asks[r] \/ <<r, n>> = a
      BY <2>1, <2>4
    <2>5. ASSUME NEW x \in Peer \X (1..MaxAsks)
          PROVE  x[2] <= asks'[x[1]] <=> x[2] <= asks[x[1]] \/ x = a
      BY <2>4, <2>5
    <2> QED
      BY <2>2, <2>3, <2>5 DEF Started
  <1>2. /\ IsFiniteSet(Started \cup {a}) /\ Cardinality(Started) \in Nat
        /\ Cardinality(Started \cup {a}) = Cardinality(Started) + 1
    BY <1>1, FS_AddElement, FS_CardinalityType, Zenon DEF StormInv
  <1>3. IsFiniteSet(Started') /\ Cardinality(Started)' = Cardinality(Started) + 1
    BY <1>1, <1>2
  <1>4. /\ IsFiniteSet(net') /\ total' \in Nat /\ Due(net)' \in Nat
        /\ Repeat \/ total' + Due(net)' <= total + Due(net) + Worth(m.type) + 1
    BY <1>0, StormSends DEF Udp!DoVerNegoReq
  <1>5. Worth(m.type) = 3
    BY DEF Worth, Udp!Data
  <1>6. InHand' = InHand /\ Due(InHand)' = Due(InHand) /\ Due(InHand) \in Nat
    BY DueOne DEF Udp!DoVerNegoReq, InHand, StormInv
  <1>7. total \in Nat /\ Due(net) \in Nat
    BY <1>0, DueOne DEF Udp!TypeOK, StormInv
  <1>8. IsFiniteSet(Left') /\ Due(Left) \in Nat /\ Due(Left)' = Due(Left)
    BY StormLeaves DEF Udp!DoVerNegoReq
  <1>9. IsFiniteSet(net)' /\ IsFiniteSet(Left)' /\ IsFiniteSet(InHand)' /\ IsFiniteSet(Started)'
    BY <1>3, <1>4, <1>6, <1>8 DEF StormInv
  <1>10. Repeat \/ total' + Due(net)' + Due(Left)' + Due(InHand)' <= 4 * Cardinality(Started)'
    BY <1>2, <1>3, <1>4, <1>5, <1>6, <1>7, <1>8 DEF StormInv
  <1> QED
    BY <1>9, <1>10 DEF StormInv

(* What comes is left, but the one that goes into the worker's hand.       *)
LEMMA StormReads ==
    ASSUME UdpInv, StormInv, NEW p \in Peer, Udp!Read(p) \/ Udp!ReadLeft(p)
    PROVE  StormInv'
  <1>1. PICK came, x :
            /\ came \subseteq {m \in net : m.to = p} /\ x \in left[p] \cup came
            /\ worker' = [worker EXCEPT ![p] = x]
            /\ left' = [left EXCEPT ![p] = (left[p] \cup came) \ {x}]
            /\ net' = net \ came \/ (Repeat /\ net' = net)
    BY UdpReads
  <1>2. /\ worker[p] = Udp!None /\ total' = total /\ asks' = asks
        /\ total \in Nat /\ came \subseteq net /\ x # Udp!None
    <2>1. x \in Udp!Message
      BY <1>1 DEF UdpInv, Udp!TypeOK
    <2>2. worker[p] = Udp!None /\ total' = total /\ asks' = asks
      BY UdpReads
    <2> QED
      BY <1>1, <2>1, <2>2, UdpMessages DEF UdpInv, Udp!TypeOK
  <1>3. InHand' = InHand \cup {x}
    BY <1>1, <1>2, HandGets
  <1>4. Left' = (Left \cup came) \ {x} /\ x \in Left \cup came
    <2>1. \A q \in Peer : left'[q] = IF q = p THEN (left[p] \cup came) \ {x} ELSE left[q]
      BY <1>1 DEF UdpInv, Udp!TypeOK
    <2>2. x.to = p
      BY <1>1 DEF UdpInv
    <2>3. \A q \in Peer : q # p => x \notin left[q]
      BY <2>2 DEF UdpInv
    <2>4. \A m : m \in Left' <=> \E q \in Peer : m \in left'[q]
      BY DEF Left
    <2>5. \A m : m \in Left <=> \E q \in Peer : m \in left[q]
      BY DEF Left
    <2>6. \A m : m \in Left' <=> m \in Left \cup came /\ m # x
      BY <2>1, <2>3, <2>4, <2>5
    <2>7. x \in Left \cup came
      BY <1>1, <2>5
    <2> QED
      BY <2>6, <2>7
  <1>5. IsFiniteSet(came)
    BY <1>2, FS_Subset, Zenon DEF StormInv
  <1>6. /\ IsFiniteSet(net \ came) /\ Due(net) \in Nat /\ Due(came) \in Nat
        /\ Due(net \ came) \in Nat /\ Due(net \ came) + Due(came) = Due(net)
    BY <1>2, <1>5, DueTwo, Zenon DEF StormInv
  <1>7. /\ IsFiniteSet(Left \cup came) /\ Due(Left) \in Nat /\ Due(Left \cup came) \in Nat
        /\ Due(Left \cup came) <= Due(Left) + Due(came)
    BY <1>5, DueTwo, Zenon DEF StormInv
  <1> PICK all : all = Left \cup came
    OBVIOUS
  <1>8. /\ IsFiniteSet(all \ {x}) /\ Worth(x.type) \in Nat /\ Due(all \ {x}) \in Nat
        /\ Due(all \ {x}) + Worth(x.type) = Due(all)
    BY <1>4, <1>7, DueOne, Zenon
  <1>9. /\ IsFiniteSet(InHand \cup {x}) /\ Due(InHand) \in Nat /\ Due(InHand \cup {x}) \in Nat
        /\ Due(InHand \cup {x}) <= Due(InHand) + Worth(x.type)
    BY DueOne, Zenon DEF StormInv
  <1>10. /\ IsFiniteSet(Left') /\ Due(Left)' = Due(all \ {x})
         /\ IsFiniteSet(InHand') /\ Due(InHand)' = Due(InHand \cup {x})
    BY <1>3, <1>4, <1>8, <1>9
  <1>11. IsFiniteSet(net') /\ (Repeat \/ Due(net)' = Due(net \ came))
    BY <1>1, <1>6 DEF StormInv
  <1>12. Repeat \/ total' + Due(net)' + Due(Left)' + Due(InHand)'
                        <= total + Due(net) + Due(Left) + Due(InHand)
    BY <1>2, <1>6, <1>7, <1>8, <1>9, <1>10, <1>11
  <1> QED
    BY <1>2, <1>10, <1>11, <1>12, StormSpends

(* What is lost no longer counts.                                          *)
LEMMA StormLoses ==
    ASSUME UdpInv, StormInv, NEW m \in net, Udp!Lose(m)
    PROVE  StormInv'
  <1>1. /\ IsFiniteSet(net \ {m}) /\ Due(net) \in Nat /\ Worth(m.type) \in Nat
        /\ Due(net \ {m}) \in Nat /\ Due(net \ {m}) + Worth(m.type) = Due(net)
    BY DueOne, Zenon DEF StormInv
  <1>2. net' = net \ {m} /\ InHand' = InHand /\ total' = total /\ asks' = asks
    BY DEF Udp!Lose, InHand
  <1>3. IsFiniteSet(Left') /\ Due(Left) \in Nat /\ Due(Left)' = Due(Left)
    BY StormLeaves DEF Udp!Lose
  <1>4. Due(net)' = Due(net \ {m}) /\ Due(InHand)' = Due(InHand)
    BY <1>2
  <1>5. IsFiniteSet(net') /\ IsFiniteSet(InHand') /\ total \in Nat /\ Due(InHand) \in Nat
    BY <1>1, <1>2, DueOne DEF StormInv, UdpInv, Udp!TypeOK
  <1>6. total' + Due(net)' + Due(Left)' + Due(InHand)'
            <= total + Due(net) + Due(Left) + Due(InHand)
    BY <1>1, <1>2, <1>4, <1>5, <1>3
  <1> QED
    BY <1>2, <1>5, <1>6, <1>3, StormSpends

(* No datagram is on its way at first.                                     *)
LEMMA StormInit == Udp!ConstantsOK /\ Udp!Init => StormInv
  <1> SUFFICES ASSUME Udp!ConstantsOK, Udp!Init PROVE StormInv
    OBVIOUS
  <1>1. net = {} /\ Left = {} /\ InHand = {} /\ total = 0
    BY DEF Udp!Init, InHand, Left
  <1>2. Started = {}
    BY DEF Udp!Init, Started, Udp!ConstantsOK
  <1>3. \A x : Of({}, x) = {}
    BY DEF Of
  <1>4. Due({}) = 0
    BY <1>3, FS_EmptySet DEF Due, Weighed, Kinds
  <1> QED
    BY <1>1, <1>2, <1>4, FS_EmptySet DEF StormInv

(* Each step spends no more than it earns.                                 *)
LEMMA StormStep ==
    ASSUME Udp!ConstantsOK, UdpInv, StormInv, Udp!Next \/ UNCHANGED udpVars
    PROVE  StormInv'
  <1>1. ASSUME UNCHANGED <<net, left, worker, asks, total>> PROVE StormInv'
    BY <1>1 DEF StormInv, InHand, Left, Started
  <1>2. ASSUME NEW p \in Peer, Udp!Watch(p) \/ Udp!OnUdpCreated(p)
                               \/ Udp!Uninit(p) \/ Udp!OnUdpClosed(p)
        PROVE  StormInv'
    BY <1>1, <1>2
    DEF Udp!Watch, Udp!OnUdpCreated, Udp!Uninit, Udp!OnUdpClosed, Udp!traffic
  <1>3. ASSUME NEW p \in Peer, Udp!Ignore(p) PROVE StormInv'
    BY <1>3, StormDrops DEF Udp!Ignore
  <1>4. ASSUME NEW p \in Peer, Udp!OnRecvVerNegoReq(p) PROVE StormInv'
    <2> PICK m : m = Udp!Reply(worker[p], "VER_NEGO_RESP", Udp!Ret(worker[p].value))
      OBVIOUS
    <2>1. Udp!Takes(p, "VER_NEGO_REQ") /\ Udp!Send(p, m) /\ left' = left /\ asks' = asks
      BY <1>4 DEF Udp!OnRecvVerNegoReq
    <2>2. Worth(m.type) = 2 /\ Worth("VER_NEGO_REQ") = 3
      BY DEF Worth, Udp!Reply, Udp!Data
    <2> QED
      BY <2>1, <2>2, StormAnswers
  <1>5. ASSUME NEW p \in Peer, Udp!OnRecvVerNegoResp(p) PROVE StormInv'
    <2> PICK m : m = Udp!Reply(worker[p], "LINK_AUTH_REQ", 0)
      OBVIOUS
    <2>1. Udp!Takes(p, "VER_NEGO_RESP") /\ left' = left /\ asks' = asks
      BY <1>5 DEF Udp!OnRecvVerNegoResp
    <2>2. Worth(m.type) = 1 /\ Worth("VER_NEGO_RESP") = 2
      BY DEF Worth, Udp!Reply, Udp!Data
    <2>3. CASE worker[p].value = 0
      BY <1>5, <2>1, <2>2, <2>3, StormAnswers DEF Udp!OnRecvVerNegoResp
    <2>4. CASE worker[p].value # 0
      <3>1. net' = net /\ total' = total
        BY <1>5, <2>4 DEF Udp!OnRecvVerNegoResp
      <3>2. worker[p] # Udp!None /\ worker' = [worker EXCEPT ![p] = Udp!None]
        BY <2>1 DEF Udp!Takes, Udp!None
      <3> QED
        BY <2>1, <3>1, <3>2, StormDrops
    <2> QED
      BY <2>3, <2>4
  <1>6. ASSUME NEW p \in Peer, Udp!OnRecvLinkAuthReq(p) PROVE StormInv'
    <2> PICK m : m = Udp!Reply(worker[p], "LINK_AUTH_RESP", 0)
      OBVIOUS
    <2>1. Udp!Takes(p, "LINK_AUTH_REQ") /\ Udp!Send(p, m) /\ left' = left /\ asks' = asks
      BY <1>6 DEF Udp!OnRecvLinkAuthReq
    <2>2. Worth(m.type) = 0 /\ Worth("LINK_AUTH_REQ") = 1
      BY DEF Worth, Udp!Reply, Udp!Data
    <2> QED
      BY <2>1, <2>2, StormAnswers
  <1>7. ASSUME NEW p \in Peer, Udp!OnRecvLinkAuthResp(p) PROVE StormInv'
    <2>1. worker[p] # Udp!None /\ worker' = [worker EXCEPT ![p] = Udp!None]
      BY <1>7 DEF Udp!OnRecvLinkAuthResp, Udp!Takes, Udp!None
    <2> QED
      BY <1>7, <2>1, StormDrops DEF Udp!OnRecvLinkAuthResp
  <1>8. UNCHANGED udpVars => UNCHANGED <<net, left, worker, asks, total>>
    BY DEF udpVars
  <1> QED
    BY <1>1, <1>2, <1>3, <1>4, <1>5, <1>6, <1>7, <1>8, StormReads, StormAsks, StormLoses
    DEF Udp!Next, Udp!Handle

-----------------------------------------------------------------------------
(* The theorems: each part of the sum, whether it runs or waits.           *)

(* The invariants of Nego and UdpClient hold in the sum.                   *)
LEMMA PartsInv == Spec => [](NegoInv /\ UdpInv /\ StormInv)
  <1>1. Client!ConstantsOK /\ Udp!ConstantsOK
    BY PartsAssumption
  <1>2. Init => NegoInv /\ UdpInv /\ StormInv
    BY <1>1, NegoInit, UdpInit, StormInit DEF Init, PartsInit
  <1>3. NegoInv /\ UdpInv /\ StormInv /\ [Next]_vars => (NegoInv /\ UdpInv /\ StormInv)'
    <2> SUFFICES ASSUME NegoInv, UdpInv, StormInv, [Next]_vars
                 PROVE  NegoInv' /\ UdpInv' /\ StormInv'
      OBVIOUS
    <2>1. (Client!Next \/ UNCHANGED negoVars) /\ (Udp!Next \/ UNCHANGED udpVars)
      BY DEF Next, MgrNext, NegoNext, UdpNext, PoolNext, FramesNext, vars
    <2>2. NegoInv'
      BY <1>1, <2>1, NegoPlainStep, NegoBufStep, NegoPhaseStep, NegoHandleStep,
         NegoAuthStep DEF NegoInv
    <2> QED
      BY <1>1, <2>1, <2>2, UdpStep, StormStep
  <1> QED
    BY <1>2, <1>3, PTL DEF Spec

(* Over TCP a client that has an id has agreed on the version first, the   *)
(* handle of a link that is gone is explained and no answer is refused;    *)
(* over UDP authentication follows agreement, who holds a handle has a     *)
(* link, and a request costs four datagrams at most if none is repeated    *)
(* (test-client.cpp, test-client-handle.cpp, udp-client-test.cpp).         *)
THEOREM HandshakeCorrect == Spec => []HandshakeIsSound
  <1>1. NegoInv => Client!StaleHandleExplained
    BY DEF NegoInv, PlainTypes, HandleInv, Client!StaleHandleExplained, Client!Link,
           Client!Invalid
  <1>2. UdpInv /\ StormInv => Udp!NoStorm
    <2> SUFFICES ASSUME UdpInv, StormInv, ~Repeat PROVE total <= 4 * Udp!AllAsks
      BY DEF Udp!NoStorm
    <2>1. Udp!AllAsks = Cardinality(Started)
      BY DEF Udp!AllAsks, Started, Udp!Cardinality, Cardinality
    <2>2. Cardinality(Started) \in Nat
      BY FS_CardinalityType DEF StormInv
    <2>3. total \in Nat /\ Due(net) \in Nat /\ Due(Left) \in Nat /\ Due(InHand) \in Nat
      BY DueOne DEF UdpInv, Udp!TypeOK, StormInv
    <2> QED
      BY <2>1, <2>2, <2>3 DEF StormInv
  <1>3. NegoInv /\ UdpInv /\ StormInv => HandshakeIsSound
    BY <1>1, <1>2, NegoTypes, PartsAssumption
    DEF NegoInv, UdpInv, HandshakeIsSound, Udp!AuthFollowsAgreement, Lawful
  <1> QED
    BY <1>3, PartsInv, PTL

(* On whatever network, who is authenticated over UDP has agreed on the    *)
(* version with that very peer: for any peers, versions and number of      *)
(* requests (udp-client-test.cpp, udp-nethandler.h).                       *)
THEOREM AgreementFirst == Spec => []AuthFollowsAgreement
  <1>1. UdpInv => AuthFollowsAgreement
    BY DEF UdpInv, AuthFollowsAgreement, Udp!AuthFollowsAgreement, Lawful
  <1> QED
    BY <1>1, PartsInv, PTL

(* The server's table of clients, for any clients: who is served has a     *)
(* HANDLE, who is gone is taken out, and UnInit leaves nothing, but for    *)
(* those whose CLOSED came before their insertion (link-mgr.h, link-hdr.h);*)
(* the invariants are those of LinkMgrProofs.                              *)
THEOREM TableCorrect == Spec => []TableIsTrue
  <1>1. Spec => MgrProofs!ConstantsOK /\ MgrProofs!Spec
    BY MgrBehaves, PTL DEF Spec, MgrProofs!Spec
  <1> QED
    BY <1>1, MgrPredicates, MgrProofs!TypeCorrect, MgrProofs!NoZombies,
       MgrProofs!ServedIsKnown, MgrProofs!UnInitIsComplete, PTL

(* The task threads are those of TaskThreadProofs.                         *)
LEMMA QueueSpec == Spec => QueueProofs!ConstantsOK /\ QueueProofs!Spec
  BY QueueBehaves, PTL DEF Spec, QueueProofs!Spec

(* No task waits while a thread sleeps on, none runs twice, and a sleeping *)
(* thread wakes when the first timer is due, late by no more than the clock*)
(* went back while it was reading it: for any threads, callers and tasks   *)
(* (thread-queue.h, task-thread.h).                                        *)
THEOREM TasksCorrect == Spec => []NoTaskForgotten
  <1>1. Spec => [](QueueProofs!TypeOK /\ QueueProofs!NoTaskForgotten
                   /\ QueueProofs!EachTaskOnce /\ QueueProofs!TimerIsCovered)
    BY QueueSpec, QueueProofs!TypeCorrect, QueueProofs!NoWakeupLost,
       QueueProofs!TasksRunOnce, QueueProofs!TimersAreTrue, PTL
  <1>2. QueueProofs!TypeOK /\ QueueProofs!NoTaskForgotten
        /\ QueueProofs!EachTaskOnce /\ QueueProofs!TimerIsCovered => NoTaskForgotten
    BY QueuePredicates DEF NoTaskForgotten
  <1> QED
    BY <1>1, <1>2, PTL

(* No timer fires before it is due or after it is killed, and a sleeper    *)
(* covers the first, though the clock is set on or back, also between the  *)
(* two readings of it (thread-queue.h, timer-queue.cpp).                   *)
THEOREM TimersCorrect == Spec => []TimersAreKept
  <1>1. Spec => [](QueueProofs!TypeOK /\ QueueProofs!TimerIsCovered
                   /\ QueueProofs!NoEarlyFiring /\ QueueProofs!KilledIsGone)
    BY QueueSpec, QueueProofs!TypeCorrect, QueueProofs!TimersAreTrue, PTL
  <1>2. QueueProofs!TypeOK /\ QueueProofs!TimerIsCovered
        /\ QueueProofs!NoEarlyFiring /\ QueueProofs!KilledIsGone => TimersAreKept
    BY QueuePredicates DEF TimersAreKept
  <1> QED
    BY <1>1, <1>2, PTL

(* For any links, packets and chunks, what is cut out of the bytes is what *)
(* was sent, whole, in order and once, as long as no chunk meets what      *)
(* another link has left and the loop keeps its place; what is lost is     *)
(* torn or was refused (net-handler.h, on_tcp_recv_data; comm-func.h,      *)
(* parse_packet).                                                          *)
THEOREM PacketsCorrect == Spec => []PacketsAreIntact
  <1>1. Spec => FrameProofs!ConstantsOK /\ FrameProofs!Spec
    BY FramesBehaves, PTL DEF Spec, FrameProofs!Spec
  <1> QED
    BY <1>1, FramesPredicates, FrameProofs!FramingCorrect, PTL
=============================================================================
