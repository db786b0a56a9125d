------------------------------ MODULE Samples -------------------------------
(***************************************************************************)
(* The components of the samples in one state space that is their sum: a   *)
(* behaviour is one of the component named by part, the variables of the   *)
(* others stay as Init has them.  A name that two components use has the   *)
(* component's as a prefix here.                                           *)
(***************************************************************************)
EXTENDS Integers

CONSTANTS
    Parts,                                              \* the components taken
    Clients, Listener, NoLink, NoOne,                   \* LinkMgr
    Versions,                                           \* Nego
    Peer, Major, Sub, MaxAsks, Loss, Repeat, Stops,     \* UdpClient
    Pool, Callers, Tasks,                               \* TaskThread
    TimerIds, Elapse, Hour, MaxTime, Jumps,
    Conns, Traffic                                      \* Framing

VARIABLES
    part,
    status, told, hasty, open, m_link_map, mh_tcp_link, hlinkvec,
    mo_link_map_lock, m_link_lock, mgr_pc, at, ret, destroyed, unheard,
    overtaken,
    version, nego_pc, nego_link, path, mh_tcpLink, mui_client_id,
    handle, toServer, toClient, unsent, held, spins, nego_told, early, refused,
    asked,
    link, mh_link, net, left, worker, asks, sent, total, ignored, authed,
    m_task_queue, ms_timers, m_exit_flag, now, pc, st_now, deadline, back,
    posted, begun, armed, fired, latest,
    lens, coming, stage, h_link, ui_size, mv_recv_buf, ui_data_offset,
    out, short, torn, passed, mixed, astray

Mgr == INSTANCE LinkMgr WITH pc <- mgr_pc
Client == INSTANCE Nego WITH pc <- nego_pc, link <- nego_link, told <- nego_told
Udp == INSTANCE UdpClient
Queue == INSTANCE TaskThread
Frames == INSTANCE Framing

ASSUME PartsAssumption ==
    /\ Parts \subseteq {"mgr", "nego", "udp", "pool", "frames"}
    /\ Mgr!ConstantsOK /\ Client!ConstantsOK /\ Udp!ConstantsOK /\ Queue!ConstantsOK
    /\ Frames!ConstantsOK

mgrVars == <<status, told, hasty, open, m_link_map, mh_tcp_link, hlinkvec,
    mo_link_map_lock, m_link_lock, mgr_pc, at, ret, destroyed, unheard,
    overtaken>>
negoVars == <<version, nego_pc, nego_link, path, mh_tcpLink, mui_client_id,
    handle, toServer, toClient, unsent, held, spins, nego_told, early, refused,
    asked>>
udpVars == <<link, mh_link, net, left, worker, asks, sent, total, ignored,
    authed>>
poolVars == <<m_task_queue, ms_timers, m_exit_flag, now, pc, st_now, deadline, back,
    posted, begun, armed, fired, latest>>
frameVars == <<lens, coming, stage, h_link, ui_size, mv_recv_buf,
    ui_data_offset, out, short, torn, passed, mixed, astray>>
vars == <<part, mgrVars, negoVars, udpVars, poolVars, frameVars>>

PartsInit ==
    /\ Mgr!Init
    /\ Client!Init /\ (part # "nego" => version = CHOOSE v \in Versions : TRUE)
    /\ Udp!Init /\ Queue!Init
    /\ Frames!Init /\ (part # "frames" => lens = CHOOSE t \in Traffic : TRUE)
Init == part \in Parts /\ PartsInit

-----------------------------------------------------------------------------
MgrNext ==
    part = "mgr" /\ Mgr!Next /\ UNCHANGED <<part, negoVars, udpVars, poolVars, frameVars>>
NegoNext ==
    part = "nego" /\ Client!Next /\ UNCHANGED <<part, mgrVars, udpVars, poolVars, frameVars>>
UdpNext ==
    part = "udp" /\ Udp!Next /\ UNCHANGED <<part, mgrVars, negoVars, poolVars, frameVars>>
PoolNext ==
    part = "pool" /\ Queue!Next /\ UNCHANGED <<part, mgrVars, negoVars, udpVars, frameVars>>
FramesNext ==
    part = "frames" /\ Frames!Next /\ UNCHANGED <<part, mgrVars, negoVars, udpVars, poolVars>>

Next == MgrNext \/ NegoNext \/ UdpNext \/ PoolNext \/ FramesNext

Spec == Init /\ [][Next]_vars

(* The fairness that each component states for itself.                     *)
FairSpec ==
    /\ Spec
    /\ \A t \in Mgr!Threads :
        /\ SF_mgrVars(part = "mgr" /\ Mgr!Destroying(t))
        /\ SF_mgrVars(part = "mgr" /\ Mgr!Exit(t))
    /\ SF_mgrVars(part = "mgr" /\ Mgr!WorkerStep) /\ SF_mgrVars(part = "mgr" /\ Mgr!MainStep)
    /\ WF_negoVars(part = "nego" /\ Client!MainStep)
    /\ WF_negoVars(part = "nego" /\ Client!ClientStep)
    /\ WF_negoVars(part = "nego" /\ Client!ServerStep)
    /\ \A p \in Peer : /\ WF_udpVars(part = "udp" /\ Udp!Read(p))
                       /\ WF_udpVars(part = "udp" /\ Udp!Handle(p))
                       /\ WF_udpVars(part = "udp" /\ Udp!OnUdpCreated(p))
    /\ \A t \in Pool : /\ WF_poolVars(part = "pool" /\ Queue!ThreadStep(t))
                       /\ WF_poolVars(part = "pool" /\ Queue!TimesOut(t))
    /\ \A c \in Callers : WF_poolVars(part = "pool" /\ Queue!Return(c))
    /\ WF_poolVars(part = "pool" /\ Queue!Clock)

-----------------------------------------------------------------------------
(* Each speaks of the part that runs: the others are as Init has them.     *)

(* A client over TCP that has an id has agreed on the version, holds a     *)
(* handle that is explained, and no answer is refused (Nego); over UDP     *)
(* too authentication follows agreement, who holds a handle has a link,    *)
(* and the answers do not breed answers without end (UdpClient).           *)
HandshakeIsSound ==
    /\ part = "nego" =>
        /\ Client!TypeOK /\ Client!AuthFollowsAgreement
        /\ Client!StaleHandleExplained /\ Client!AnswersAreHeard
    /\ part = "udp" => Udp!TypeOK /\ Udp!AuthFollowsAgreement /\ Udp!NoStorm

(* On whatever network, who is authenticated over UDP has agreed on the    *)
(* version with that very peer (UdpClient).                                *)
AuthFollowsAgreement == part = "udp" => Udp!TypeOK /\ Udp!AuthFollowsAgreement

(* The server's table: who is served has a HANDLE, data that found none    *)
(* came from one who is gone, and who is gone is taken out, all of them    *)
(* when the server ends, but for those closed before they were put in      *)
(* (LinkMgr).                                                              *)
TableIsTrue ==
    part = "mgr" =>
        /\ Mgr!TypeOK /\ Mgr!ClientIsKnown /\ Mgr!UnheardIsGone
        /\ Mgr!NoZombie /\ Mgr!SnapshotIsRemoved /\ Mgr!UnInitLeavesNothing

(* No task waits while a thread sleeps, none runs twice, and a thread      *)
(* wakes for the first timer (TaskThread).                                 *)
NoTaskForgotten ==
    part = "pool" =>
        Queue!TypeOK /\ Queue!NoTaskForgotten /\ Queue!EachTaskOnce /\ Queue!TimerIsCovered

(* A thread wakes when a timer is due, late by no more than the clock went *)
(* back while it was reading it; timers do not fire early, nor when killed *)
(* (TaskThread).                                                           *)
TimersAreKept ==
    part = "pool" =>
        Queue!TypeOK /\ Queue!TimerIsCovered /\ Queue!NoEarlyFiring /\ Queue!KilledIsGone

(* The packets cut out of the bytes that come over TCP are those that were *)
(* sent, whole, in order and for their sender, but one whose magic number  *)
(* is cut in two or that is refused, and what waits is less than one, as   *)
(* long as bytes of two links do not meet (Framing).                       *)
PacketsAreIntact ==
    part = "frames" =>
        /\ Frames!TypeOK /\ Frames!IntactAndInOrder
        /\ Frames!LostForCause /\ Frames!BufferIsShort

(* What is asked for comes: an id (Nego, UdpClient), the run of a task,    *)
(* the firing of a timer (TaskThread), unless the connection or the pool   *)
(* ends first, and that is noticed.                                        *)
AskedIsAnswered ==
    /\ Client!HandshakeEnds /\ Client!BothNotice
    /\ Udp!ExchangeEnds
    /\ Queue!TaskRuns /\ Queue!TimerFires

(* The server's callbacks return, a client that is gone is forgotten, and  *)
(* the ends of server (LinkMgr) and pool (TaskThread) return.              *)
EndReturns ==
    /\ Mgr!DeadIsForgotten /\ Mgr!CallbackReturns /\ Mgr!UnInitReturns
    /\ Queue!EndReturns
=============================================================================
