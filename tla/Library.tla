------------------------------ MODULE Library -------------------------------
(***************************************************************************)
(* The library's smaller components in one state space that is their sum,  *)
(* built as Samples is.  EpollLife is there for both epoll classes, and    *)
(* Singleton for both ways in which the first calls may come.              *)
(***************************************************************************)
EXTENDS Integers

CONSTANTS
    Bytes, Cap, LinkTypes, Resets,              \* RecvPath
    Links, Limit, Jumps,                        \* AliveTimeout
    Own, Guest, Fds, NameFails,                 \* Descriptors
    MaxInits,                                   \* EpollLife
    Half, MaxMade, MaxLive,                     \* Handles
    Thread, Main, WarmObjects, ColdObjects,     \* Singleton
    Sharer, PtrsOf, Table, MaxObjects           \* RefCountPtr, its threads and their pointers

VARIABLES
    part,
    sent, ended, queue, events, m_link_type, recv_live, recv_pc, buffer, i_recv_size, told, heard, closed,
    table, stamp, silent, looping, st_time, began, fresh, waiting, mb_send_flag, expired,
    verdict, clock,
    mi_socket, stage, descr_open, owner, connector, destroyer, pending, edge, accepting, struck,
    mi_epoll_fd, mi_exit_event, m_pthread_id, m_pthread_timeout, mb_timeout_thread_flag,
    life_made, life_open, written, worker, waits, timer, life_pc, links, stranded,
    i_link, m_maplink, mh_link, handles_made, handles_open,
    m_pInstance, m_Lock, sleeping, once_made, alive, built, once_pc, releases, got, wiped,
    live, m_pObj, m_pRef, count, made, deleted, pc, to, from, misused

Parts == {"recv", "alive", "descr", "tcpLife", "udpLife", "handles", "warm", "cold", "count"}

Recv == INSTANCE RecvPath WITH live <- recv_live, pc <- recv_pc
Alive == INSTANCE AliveTimeout
Descr == INSTANCE Descriptors WITH open <- descr_open
TcpLife == INSTANCE EpollLife WITH made <- life_made, open <- life_open, pc <- life_pc,
            HasTimer <- TRUE
UdpLife == INSTANCE EpollLife WITH made <- life_made, open <- life_open, pc <- life_pc,
            HasTimer <- FALSE
Hand == INSTANCE Handles WITH made <- handles_made, open <- handles_open
Warm == INSTANCE Singleton WITH made <- once_made, pc <- once_pc,
            Cold <- FALSE, MaxObjects <- WarmObjects
Cold == INSTANCE Singleton WITH made <- once_made, pc <- once_pc,
            Cold <- TRUE, MaxObjects <- ColdObjects
Count == INSTANCE RefCountPtr WITH Thread <- Sharer, Own <- PtrsOf

ASSUME PartsAssumption ==
    /\ Recv!ConstantsOK /\ Alive!ConstantsOK /\ Descr!ConstantsOK /\ TcpLife!ConstantsOK
    /\ UdpLife!ConstantsOK /\ Hand!ConstantsOK /\ Warm!ConstantsOK /\ Cold!ConstantsOK
    /\ Count!ConstantsOK

recvVars == <<sent, ended, queue, events, m_link_type, recv_live, recv_pc, buffer,
    i_recv_size, told, heard, closed>>
aliveVars == <<table, stamp, silent, looping, st_time, began, fresh, waiting, mb_send_flag,
    expired, verdict, clock>>
descrVars == <<mi_socket, stage, descr_open, owner, connector, destroyer, pending, edge,
    accepting, struck>>
lifeVars == <<mi_epoll_fd, mi_exit_event, m_pthread_id, m_pthread_timeout,
    mb_timeout_thread_flag, life_made, life_open, written, worker, waits, timer,
    life_pc, links, stranded>>
handVars == <<i_link, m_maplink, mh_link, handles_made, handles_open>>
onceVars == <<m_pInstance, m_Lock, sleeping, once_made, alive, built, once_pc, releases,
    got, wiped>>
countVars == <<live, m_pObj, m_pRef, count, made, deleted, pc, to, from, misused>>
vars == <<part, recvVars, aliveVars, descrVars, lifeVars, handVars, onceVars, countVars>>

Init ==
    /\ part \in Parts
    /\ Recv!Init /\ (part # "recv" => m_link_type = CHOOSE t \in LinkTypes : TRUE)
    /\ Alive!Init /\ Descr!Init /\ TcpLife!Init /\ Hand!Init /\ Warm!Init /\ Count!Init

-----------------------------------------------------------------------------
RecvNext == /\ part = "recv" /\ Recv!Next
            /\ UNCHANGED <<part, aliveVars, descrVars, lifeVars, handVars, onceVars, countVars>>
AliveNext == /\ part = "alive" /\ Alive!Next
             /\ UNCHANGED <<part, recvVars, descrVars, lifeVars, handVars, onceVars, countVars>>
DescrNext == /\ part = "descr" /\ Descr!Next
             /\ UNCHANGED <<part, recvVars, aliveVars, lifeVars, handVars, onceVars, countVars>>
TcpLifeNext == /\ part = "tcpLife" /\ TcpLife!Next
               /\ UNCHANGED <<part, recvVars, aliveVars, descrVars, handVars, onceVars, countVars>>
UdpLifeNext == /\ part = "udpLife" /\ UdpLife!Next
               /\ UNCHANGED <<part, recvVars, aliveVars, descrVars, handVars, onceVars, countVars>>
HandNext == /\ part = "handles" /\ Hand!Next
            /\ UNCHANGED <<part, recvVars, aliveVars, descrVars, lifeVars, onceVars, countVars>>
WarmNext == /\ part = "warm" /\ Warm!Next
            /\ UNCHANGED <<part, recvVars, aliveVars, descrVars, lifeVars, handVars, countVars>>
ColdNext == /\ part = "cold" /\ Cold!Next
            /\ UNCHANGED <<part, recvVars, aliveVars, descrVars, lifeVars, handVars, countVars>>
CountNext == /\ part = "count" /\ Count!Next
             /\ UNCHANGED <<part, recvVars, aliveVars, descrVars, lifeVars, handVars, onceVars>>

Next == \/ RecvNext \/ AliveNext \/ DescrNext \/ TcpLifeNext \/ UdpLifeNext
        \/ HandNext \/ WarmNext \/ ColdNext \/ CountNext

Spec == Init /\ [][Next]_vars

(* The fairness that each component states for itself.                     *)
FairSpec ==
    /\ Spec
    /\ WF_recvVars(part = "recv" /\ Recv!WorkerStep) /\ WF_recvVars(part = "recv" /\ Recv!Establish)
    /\ WF_aliveVars(part = "alive" /\ Alive!Tick)
    /\ WF_aliveVars(part = "alive" /\ Alive!CheckLinkTimeout)
    /\ \A l \in Links : WF_aliveVars(part = "alive" /\ Alive!LinkDestroy(l))
    /\ WF_descrVars(part = "descr" /\ Descr!Worker)
    /\ WF_lifeVars(part = "tcpLife" /\ TcpLife!End) /\ WF_lifeVars(part = "udpLife" /\ UdpLife!End)
    /\ \A n \in 1..MaxInits :
        /\ WF_lifeVars(part \in {"tcpLife", "udpLife"} /\ TcpLife!EnterWait(n))
        /\ WF_lifeVars(part \in {"tcpLife", "udpLife"} /\ TcpLife!WorkerExits(n))
        /\ WF_lifeVars(part = "tcpLife" /\ TcpLife!TimerStep(n))
    /\ \A t \in Thread : WF_onceVars(part = "warm" /\ Warm!Step(t))

-----------------------------------------------------------------------------
(* What the callback hears of the stream, which bytes are lost and what    *)
(* the end means (RecvPath).                                               *)
StreamIsHeard ==
    /\ Recv!TypeOK /\ Recv!HeardIsPrefix /\ Recv!LossIsExplained /\ Recv!EndIsExplained
    /\ Recv!SizeIsBufSize

(* No link that data comes from is found expired (AliveTimeout).           *)
ExpiredWasSilent == Alive!TypeOK /\ Alive!ExpiredWasSilent

(* Whose descriptor is open, and that a call which hits another link's was *)
(* raced (Descriptors).                                                    *)
DescriptorsAreOwn ==
    [](Descr!TypeOK /\ Descr!LeaksAreEnds /\ Descr!OwnDescriptor) /\ Descr!StrikesAreRaced

(* The threads init has started and those end joins (EpollLife).           *)
ThreadsAreKnown ==
    /\ TcpLife!TypeOK /\ TcpLife!ThreadsAreKnown
    /\ TcpLife!NoneWhenFreed /\ TcpLife!WaitsForOpen

(* A handle finds its link (Handles).                                      *)
HandlesFind == Hand!TypeOK /\ Hand!FoundUnlessLapped /\ Hand!InvalidIsRare

(* One object, used while it is there, and no sleep without end            *)
(* (Singleton); counters that are true, and objects that are there as long *)
(* as something points to them (RefCountPtr).                              *)
ObjectsAreThere ==
    /\ IF part = "cold" THEN Cold!TypeOK ELSE Warm!TypeOK /\ Warm!OneObject /\ Warm!UsesWhatIs
    /\ Warm!SleepersAreWoken
    /\ Count!TypeOK /\ Count!CountIsTrue /\ Count!HeldIsThere /\ Count!UnheldIsGone

(* What peers may rely on: what they send is read (RecvPath), they are     *)
(* accepted (Descriptors) and, when silent, dropped (AliveTimeout).        *)
PeersAreServed == Recv!ArrivedIsRead /\ Descr!ReportedIsTaken /\ Alive!SilentIsDropped

(* Calls return: end (EpollLife), Instance and Release (Singleton).        *)
CallsReturn ==
    /\ TcpLife!EndReturns
    /\ \A t \in Thread :
        (part = "warm" /\ once_pc[t] = "test") ~> once_pc[t] \in {"use", "out"}

(* A link that has ended has no descriptor open (Descriptors).             *)
EndedIsClosed == Descr!EndedIsClosed
=============================================================================
