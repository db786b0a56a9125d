------------------------------ MODULE UdpLink -------------------------------
(***************************************************************************)
(* The UDP wrapper (udp-link.cpp, udp-ms-epoll.cpp, ms-epoll-udp.cpp):     *)
(* links, the calls that send, receive and destroy, and the events the     *)
(* callback gets, from ms_udp_create to ms_udp_uninit.  It has the table   *)
(* of the TCP wrapper, but                                                 *)
(*   - no timeout thread and no hang-up: a link goes when it is destroyed; *)
(*   - epoll watches a new link before the application is told of it;      *)
(*   - one datagram is read per event;                                     *)
(*   - its socket is blocking (link_create sets no O_NONBLOCK), so a       *)
(*     sender waits in sendto() while the kernel's buffer is full.         *)
(* sendto() therefore never fails with EAGAIN: link_send_to puts nothing   *)
(* on m_send_buff_list and never raises mb_send_flag, del_send_buff finds  *)
(* nothing, and do_send_buff, which the worker calls after every batch,    *)
(* returns at its first test.  None of the four is a variable here.        *)
(*                                                                         *)
(* One action is one access to shared state; pc[t] is where thread t is,   *)
(* arg[t] the link it holds a counted pointer to.  A call made from inside *)
(* the callback is an App thread's call here, made while the worker is     *)
(* between two steps.  Of a datagram only that it waits is modelled; it is *)
(* not empty (one that is, is read and dropped).  A call that fails        *)
(* without leaving a trace is left out: link_create, a handle not found, a *)
(* missing address.                                                        *)
(*                                                                         *)
(* A definition named ...Faulty is the one after it with a bug seeded; it  *)
(* is in no behaviour, and serves to test that the properties notice.      *)
(***************************************************************************)
EXTENDS Naturals

CONSTANTS
    Links,      \* the MsUdpLink objects, which are also their handles
    App,        \* the application's threads
    Worker,     \* MsUdpEpoll::worker_thread
    None,       \* no thread, no link
    SndRoom,    \* datagrams a kernel send buffer holds
    RcvRoom,    \* datagrams a kernel receive buffer holds
    Traffic,    \* TRUE: datagrams keep arriving on every link
    Errors      \* TRUE: EPOLL_CTL_ADD may fail (ENOSPC, ENOMEM)

ASSUME NameAssumption == /\ Worker \notin App
                         /\ None \notin App \cup {Worker} \cup Links
ASSUME SizeAssumption == SndRoom \in Nat \ {0} /\ RcvRoom \in Nat \ {0}
ASSUME SwitchAssumption == Traffic \in BOOLEAN /\ Errors \in BOOLEAN

Threads == App \cup {Worker}

VARIABLES
    m_maplink,              \* the links in the table
    mi_socket,              \* "new" before link_create, "open", "none" for -1
    shut,                   \* the sockets shut down
    queued,                 \* queued[l]: datagrams in the kernel's send buffer
    unread,                 \* unread[l]: datagrams in the kernel's receive buffer
    registered, ready,      \* epoll: the sockets it watches, those with an edge
    exitEvent,              \* the eventfd mi_exit_event has been written
    ender,                  \* the thread that called ms_udp_uninit
    told,                   \* history: told[l], the kinds of event the callback got
    refused,                \* history: links whose EPOLL_CTL_ADD failed
    pc, arg,                \* per thread: position, link
    batch, batchExit,       \* worker: events returned and not yet handled
    todo                    \* ender: links free_all_link_map has still to destroy

kernelVars == <<shut, queued, unread, registered, ready>>
endVars    == <<exitEvent, ender>>
histVars   == <<told, refused>>
workVars   == <<batch, batchExit, todo>>
vars == <<m_maplink, mi_socket, kernelVars, endVars, histVars, pc, arg, workVars>>

Event == {"CREATED", "CLOSED", "RECEIVEDATA"}

DestroyPC == {"destLink", "destCheck", "destShut", "destSet", "destTell"}
CallPC    == {"attach", "tellCreated", "sendTo", "sending"}
AppPC     == DestroyPC \cup CallPC \cup {"idle", "joinWorker", "freeAll", "freeing", "ended"}
WorkerPC  == {"wait", "batch", "read", "tellData", "done"}

(* A thread inside a call or at an event works on a link.                  *)
Busy(t) == pc[t] \in DestroyPC \cup CallPC \cup {"read", "tellData"}

(* The last conjunct: what a thread works on is never the empty pointer    *)
(* that a find_link in vain leaves.                                        *)
TypeOK ==
    /\ m_maplink \subseteq Links
    /\ mi_socket \in [Links -> {"new", "open", "none"}]
    /\ shut \subseteq Links
    /\ queued \in [Links -> 0..SndRoom]
    /\ unread \in [Links -> 0..RcvRoom]
    /\ registered \subseteq Links /\ ready \subseteq Links
    /\ exitEvent \in BOOLEAN /\ ender \in App \cup {None}
    /\ told \in [Links -> SUBSET Event] /\ refused \subseteq Links
    /\ pc \in [Threads -> AppPC \cup WorkerPC]
    /\ \A t \in App : pc[t] \in AppPC
    /\ pc[Worker] \in WorkerPC
    /\ arg \in [Threads -> Links \cup {None}]
    /\ batch \subseteq Links /\ batchExit \in BOOLEAN
    /\ todo \subseteq Links
    /\ \A t \in Threads : Busy(t) => arg[t] \in Links

Init ==
    /\ m_maplink = {}
    /\ mi_socket = [l \in Links |-> "new"]
    /\ shut = {}
    /\ queued = [l \in Links |-> 0] /\ unread = [l \in Links |-> 0]
    /\ registered = {} /\ ready = {}
    /\ exitEvent = FALSE /\ ender = None
    /\ told = [l \in Links |-> {}] /\ refused = {}
    /\ pc = [t \in Threads |-> IF t = Worker THEN "wait" ELSE "idle"]
    /\ arg = [t \in Threads |-> None]
    /\ batch = {} /\ batchExit = FALSE
    /\ todo = {}

Goto(t, label) == pc' = [pc EXCEPT ![t] = label]
Enter(t, label, l) == Goto(t, label) /\ arg' = [arg EXCEPT ![t] = l]

Tell(l, e) == told' = [told EXCEPT ![l] = @ \cup {e}]

(* An edge is noticed if the socket is registered.                         *)
Edge(l) == ready \cup ({l} \cap registered)

-----------------------------------------------------------------------------
(* The network and the kernel.                                             *)

(* A datagram arrives; one for a full buffer is dropped.                   *)
Arrives(l) ==
    /\ mi_socket[l] = "open" /\ unread[l] < RcvRoom
    /\ unread' = [unread EXCEPT ![l] = @ + 1]
    /\ ready' = Edge(l)
    /\ UNCHANGED <<m_maplink, mi_socket, shut, queued, registered, endVars, histVars, pc, arg,
                   workVars>>

(* A datagram leaves the send buffer; where epoll sees an EPOLLOUT edge,   *)
(* the event only takes the worker once round its loop.                    *)
Transmit(l) ==
    /\ queued[l] > 0
    /\ queued' = [queued EXCEPT ![l] = @ - 1]
    /\ ready' \in {ready, Edge(l)}
    /\ UNCHANGED <<m_maplink, mi_socket, shut, unread, registered, endVars, histVars, pc, arg,
                   workVars>>

-----------------------------------------------------------------------------
(* The application's calls: while nobody has called ms_udp_uninit, and on  *)
(* handles that the callback has told it of, be it by RECEIVEDATA.         *)
MayCall(t) == pc[t] = "idle" /\ ender = None
Knows(l) == l \in m_maplink /\ told[l] # {}

(* ms_udp_create: link_create opens and binds the socket (or leaves        *)
(* nothing behind), add_tcp_link publishes the link; ...                   *)
Create(t, l) ==
    /\ MayCall(t) /\ mi_socket[l] = "new"
    /\ mi_socket' = [mi_socket EXCEPT ![l] = "open"]
    /\ m_maplink' = m_maplink \cup {l}
    /\ Enter(t, "attach", l)
    /\ UNCHANGED <<kernelVars, endVars, histVars, workVars>>

(* ... attach_to_epoll, whose result is not looked at (EPOLL_CTL_ADD, if   *)
(* it succeeds, reports the writable socket at once); ...                  *)
Attach(t) ==
    LET l == arg[t]
    IN  /\ pc[t] = "attach"
        /\ \/ /\ registered' = registered \cup {l} /\ ready' = ready \cup {l}
              /\ UNCHANGED refused
           \/ /\ Errors /\ refused' = refused \cup {l}
              /\ UNCHANGED <<registered, ready>>
        /\ Goto(t, "tellCreated")
        /\ UNCHANGED <<m_maplink, mi_socket, shut, queued, unread, endVars, told, arg, workVars>>

TellCreatedFaulty(t) ==
    /\ pc[t] = "tellCreated"
    /\ IF mi_socket[arg[t]] = "open" THEN Tell(arg[t], "CREATED") ELSE UNCHANGED told
    /\ Enter(t, "idle", None)
    /\ UNCHANGED <<m_maplink, mi_socket, kernelVars, endVars, refused, workVars>>

(* ... and the callback.                                                   *)
TellCreated(t) ==
    /\ pc[t] = "tellCreated"
    /\ Tell(arg[t], "CREATED")
    /\ Enter(t, "idle", None)
    /\ UNCHANGED <<m_maplink, mi_socket, kernelVars, endVars, refused, workVars>>

(* ms_udp_send_to: find_link, ...                                          *)
SendFind(t, l) ==
    /\ MayCall(t) /\ Knows(l)
    /\ Enter(t, "sendTo", l)
    /\ UNCHANGED <<m_maplink, mi_socket, kernelVars, endVars, histVars, workVars>>

(* ... and link_send_to: mi_socket is read under no lock; sendto() refuses *)
(* -1, ...                                                                 *)
SendTo(t) ==
    /\ pc[t] = "sendTo"
    /\ IF mi_socket[arg[t]] = "open" THEN Goto(t, "sending") /\ UNCHANGED arg
                                     ELSE Enter(t, "idle", None)
    /\ UNCHANGED <<m_maplink, mi_socket, kernelVars, endVars, histVars, workVars>>

(* ... fails on a socket that is shut down, or takes the datagram as soon  *)
(* as there is room: until then the thread waits, with no lock held.       *)
SendDone(t) ==
    LET l == arg[t]
    IN  /\ pc[t] = "sending"
        /\ \/ l \in shut /\ UNCHANGED queued
           \/ /\ l \notin shut /\ queued[l] < SndRoom
              /\ queued' = [queued EXCEPT ![l] = @ + 1]
        /\ Enter(t, "idle", None)
        /\ UNCHANGED <<m_maplink, mi_socket, shut, unread, registered, ready, endVars, histVars,
                       workVars>>

(* It may also fail: a network that cannot be reached, a datagram that is  *)
(* too long, a signal.                                                     *)
SendFails(t) ==
    /\ pc[t] = "sending"
    /\ Enter(t, "idle", None)
    /\ UNCHANGED <<m_maplink, mi_socket, kernelVars, endVars, histVars, workVars>>

-----------------------------------------------------------------------------
(* link_destroy, by ms_udp_destroy and by free_all_link_map.               *)

Destroy(t, l) ==
    /\ MayCall(t) /\ Knows(l)
    /\ Enter(t, "destLink", l)
    /\ UNCHANGED <<m_maplink, mi_socket, kernelVars, endVars, histVars, workVars>>

ErasedFaulty(l) == m_maplink
Erased(l) == m_maplink \ {l}

(* del_link: out of epoll and out of the table, if it is there.            *)
DelLink(t) ==
    LET l == arg[t]
    IN  /\ pc[t] = "destLink"
        /\ m_maplink' = Erased(l)
        /\ IF l \in m_maplink
           THEN registered' = registered \ {l} /\ ready' = ready \ {l}
           ELSE UNCHANGED <<registered, ready>>
        /\ Goto(t, "destCheck")
        /\ UNCHANGED <<mi_socket, shut, queued, unread, endVars, histVars, arg, workVars>>

DestroyReturn(t) == Enter(t, IF t = ender THEN "freeing" ELSE "idle", None)

(* if( mi_socket != -1 )                                                   *)
DestroyCheck(t) ==
    /\ pc[t] = "destCheck"
    /\ IF mi_socket[arg[t]] = "open" THEN Goto(t, "destShut") /\ UNCHANGED arg
                                     ELSE DestroyReturn(t)
    /\ UNCHANGED <<m_maplink, mi_socket, kernelVars, endVars, histVars, workVars>>

(* ::shutdown( mi_socket ): no call on the socket waits any longer.        *)
DestroyShutFaulty(t) ==
    /\ pc[t] = "destShut"
    /\ Goto(t, "destSet")
    /\ UNCHANGED <<m_maplink, mi_socket, kernelVars, endVars, histVars, arg, workVars>>

DestroyShut(t) ==
    /\ pc[t] = "destShut"
    /\ shut' = IF mi_socket[arg[t]] = "open" THEN shut \cup {arg[t]} ELSE shut
    /\ Goto(t, "destSet")
    /\ UNCHANGED <<m_maplink, mi_socket, queued, unread, registered, ready, endVars, histVars,
                   arg, workVars>>

(* mi_socket = -1                                                          *)
DestroySet(t) ==
    /\ pc[t] = "destSet"
    /\ mi_socket' = [mi_socket EXCEPT ![arg[t]] = "none"]
    /\ Goto(t, "destTell")
    /\ UNCHANGED <<m_maplink, kernelVars, endVars, histVars, arg, workVars>>

DestroyTell(t) ==
    /\ pc[t] = "destTell"
    /\ Tell(arg[t], "CLOSED")
    /\ DestroyReturn(t)
    /\ UNCHANGED <<m_maplink, mi_socket, kernelVars, endVars, refused, workVars>>

-----------------------------------------------------------------------------
(* The worker.                                                             *)

(* Of the events returned only those with EPOLLIN matter to the loop.      *)
EpollWait ==
    /\ pc[Worker] = "wait" /\ (ready # {} \/ exitEvent)
    /\ batch' = {l \in ready : unread[l] > 0} /\ batchExit' = exitEvent
    /\ ready' = {}
    /\ Goto(Worker, "batch")
    /\ UNCHANGED <<m_maplink, mi_socket, shut, queued, unread, registered, endVars, histVars,
                   arg, todo>>

TakeExitFaulty ==
    /\ pc[Worker] = "batch" /\ batchExit
    /\ batchExit' = FALSE
    /\ UNCHANGED <<m_maplink, mi_socket, kernelVars, endVars, histVars, pc, arg, batch, todo>>

(* The exit event ends the thread, whatever else the batch still holds.    *)
TakeExit ==
    /\ pc[Worker] = "batch" /\ batchExit
    /\ Goto(Worker, "done")
    /\ UNCHANGED <<m_maplink, mi_socket, kernelVars, endVars, histVars, arg, workVars>>

TakeReadFaulty(l) ==
    /\ pc[Worker] = "batch" /\ l \in batch
    /\ batch' = batch \ {l}
    /\ Enter(Worker, "read", IF l \in m_maplink THEN l ELSE None)
    /\ UNCHANGED <<m_maplink, mi_socket, kernelVars, endVars, histVars, batchExit, todo>>

(* An event with EPOLLIN: find_link, and on_event_read if it is found.     *)
TakeRead(l) ==
    /\ pc[Worker] = "batch" /\ l \in batch
    /\ batch' = batch \ {l}
    /\ IF l \in m_maplink THEN Enter(Worker, "read", l) ELSE UNCHANGED <<pc, arg>>
    /\ UNCHANGED <<m_maplink, mi_socket, kernelVars, endVars, histVars, batchExit, todo>>

(* recvfrom(), once; nothing is delivered if it fails.  It does not wait:  *)
(* the datagram of the event is there, or the socket is shut down or -1.   *)
Read ==
    LET l == arg[Worker]
    IN  /\ pc[Worker] = "read"
        /\ IF mi_socket[l] = "open" /\ unread[l] > 0
           THEN /\ unread' = [unread EXCEPT ![l] = @ - 1]
                /\ Goto(Worker, "tellData") /\ UNCHANGED arg
           ELSE Enter(Worker, "batch", None) /\ UNCHANGED unread
        /\ UNCHANGED <<m_maplink, mi_socket, shut, queued, registered, ready, endVars, histVars,
                       workVars>>

TellData ==
    /\ pc[Worker] = "tellData"
    /\ Tell(arg[Worker], "RECEIVEDATA")
    /\ Enter(Worker, "batch", None)
    /\ UNCHANGED <<m_maplink, mi_socket, kernelVars, endVars, refused, workVars>>

(* do_send_buff, which has nothing to do, and the next epoll_wait.         *)
BatchDone ==
    /\ pc[Worker] = "batch" /\ ~batchExit /\ batch = {}
    /\ Goto(Worker, "wait")
    /\ UNCHANGED <<m_maplink, mi_socket, kernelVars, endVars, histVars, arg, workVars>>

-----------------------------------------------------------------------------
(* ms_udp_uninit, once, when no other call is under way: the exit event,   *)
(* the worker is joined, epoll closed, and the links left are destroyed.   *)
Uninit(t) ==
    /\ MayCall(t) /\ \A u \in App : pc[u] = "idle"
    /\ ender' = t
    /\ exitEvent' = TRUE
    /\ Goto(t, "joinWorker")
    /\ UNCHANGED <<m_maplink, mi_socket, kernelVars, histVars, arg, workVars>>

JoinWorker(t) ==
    /\ pc[t] = "joinWorker" /\ pc[Worker] = "done"
    /\ registered' = {} /\ ready' = {}
    /\ Goto(t, "freeAll")
    /\ UNCHANGED <<m_maplink, mi_socket, shut, queued, unread, endVars, histVars, arg, workVars>>

FreeAll(t) ==
    /\ pc[t] = "freeAll"
    /\ todo' = m_maplink
    /\ Goto(t, "freeing")
    /\ UNCHANGED <<m_maplink, mi_socket, kernelVars, endVars, histVars, arg, batch, batchExit>>

NextDestroy(t, l) ==
    /\ pc[t] = "freeing" /\ l \in todo
    /\ todo' = todo \ {l}
    /\ Enter(t, "destLink", l)
    /\ UNCHANGED <<m_maplink, mi_socket, kernelVars, endVars, histVars, batch, batchExit>>

Ended(t) ==
    /\ pc[t] = "freeing" /\ todo = {}
    /\ Goto(t, "ended")
    /\ UNCHANGED <<m_maplink, mi_socket, kernelVars, endVars, histVars, arg, workVars>>

-----------------------------------------------------------------------------
LinkDestroy(t) == \/ DelLink(t) \/ DestroyCheck(t)
                  \/ DestroyShut(t) \/ DestroySet(t) \/ DestroyTell(t)

(* What a thread does once it is inside a call.                            *)
InCall(t) == \/ Attach(t) \/ TellCreated(t)
             \/ SendTo(t) \/ SendDone(t)
             \/ LinkDestroy(t)
             \/ JoinWorker(t) \/ FreeAll(t) \/ Ended(t)
             \/ \E l \in Links : NextDestroy(t, l)

WorkerStep == \/ EpollWait \/ TakeExit \/ Read \/ TellData \/ BatchDone
              \/ \E l \in Links : TakeRead(l)

Call(t) == \/ \E l \in Links : Create(t, l) \/ SendFind(t, l) \/ Destroy(t, l)
           \/ Uninit(t)

Environment == \/ \E l \in Links : Arrives(l) \/ Transmit(l)
               \/ \E t \in App : SendFails(t)

Next == \/ \E t \in App : Call(t) \/ InCall(t)
        \/ WorkerStep
        \/ Environment

Spec == Init /\ [][Next]_vars

(* Threads keep running and callbacks return; with Traffic, datagrams keep *)
(* arriving.  Nobody is obliged to call, and the network card may stop.    *)
Fairness == /\ WF_vars(WorkerStep)
            /\ \A t \in App : WF_vars(InCall(t))
            /\ Traffic => \A l \in Links : WF_vars(Arrives(l))

FairSpec == Spec /\ Fairness

-----------------------------------------------------------------------------
(* Correctness.                                                            *)

(* The callback may hear of a link before CREATED, as epoll watches it     *)
(* already, and even the application's reaction may overtake CREATED: but  *)
(* only while ms_udp_create is still running.                              *)
EarlyOnlyWhileCreating ==
    \A l \in Links : told[l] # {} /\ "CREATED" \notin told[l] =>
        \E t \in App : arg[t] = l /\ pc[t] = "tellCreated"

(* When ms_udp_uninit returns the table is empty, the worker gone, and     *)
(* every link there was has been reported CLOSED.                          *)
UninitLeavesNothing ==
    \A t \in App : pc[t] = "ended" =>
        /\ m_maplink = {} /\ pc[Worker] = "done"
        /\ \A l \in Links : mi_socket[l] # "new" => "CLOSED" \in told[l]

(* A thread that waits in sendto() (udp-link.cpp:243) is not left behind   *)
(* by a link_destroy on another thread (274-283): it does not see mi_socket*)
(* become -1, but the shutdown before that sends it home, though the       *)
(* network card never makes room.                                          *)
DestroyFreesSender ==
    \A t \in App : (pc[t] = "sending" /\ mi_socket[arg[t]] = "none") ~> (pc[t] # "sending")

(* The safety half: such a thread need not wait for room.                  *)
NoSenderStranded ==
    \A t \in App : (pc[t] = "sending" /\ mi_socket[arg[t]] = "none") => arg[t] \in shut

Reading(l) == pc[Worker] = "tellData" /\ arg[Worker] = l

(* While datagrams wait on a link of the table, the worker does not stop   *)
(* to read them, one after the other (recvfrom takes the oldest).          *)
WaitingIsRead ==
    \A l \in Links : (l \in m_maplink /\ unread[l] > 0) ~> (l \notin m_maplink \/ Reading(l))

(* What the worker owes the others while data keeps coming: what waits on  *)
(* a link is read, unless epoll refused to watch the link, which the       *)
(* application is not told (ms-epoll-udp.cpp:54); and a thread that waits  *)
(* in ms_udp_uninit is not kept waiting.                                   *)
WorkerServes ==
    /\ \A l \in Links :
        (l \in m_maplink /\ unread[l] > 0)
            ~> (l \notin m_maplink \/ Reading(l) \/ l \in refused)
    /\ \A t \in App : (ender = t) ~> (pc[t] = "ended")
=============================================================================
