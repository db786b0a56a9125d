------------------------------ MODULE TcpLink -------------------------------
(***************************************************************************)
(* The life of a TCP link: how it enters and leaves the table m_maplink    *)
(* and epoll's interest list, and which events the application's callback  *)
(* gets on the way.  Links are driven by four kinds of threads:            *)
(*   - application threads: ms_tcp_create, _connect, _listen, _destroy and,*)
(*     once, ms_tcp_uninit;                                                *)
(*   - the epoll worker, which accepts, reads and drops links;             *)
(*   - the timeout thread, which destroys links that are not alive.        *)
(* All of them may be at work on one link at once: they hold a counted     *)
(* pointer to it, m_link_lock guards the table only, and the callback runs *)
(* under no lock.  A call made from inside the callback is an application  *)
(* thread's call here, made while the worker is between two steps.         *)
(*                                                                         *)
(* Sending is in SendBuff; here the worker may hold m_link_lock in         *)
(* do_send_buff, for as long as it likes.  A link is also its handle:      *)
(* handles count up.                                                       *)
(* A definition named ...Faulty is the one after it with a bug seeded; it  *)
(* is in no behaviour, and serves to test that the properties notice.      *)
(***************************************************************************)
EXTENDS Naturals, FiniteSets

CONSTANTS
    Links,      \* the MsTcpLink objects, one per ms_tcp_create or accepted connection
    App,        \* the application's threads
    Worker,     \* MsEpoll::worker_thread
    Timer,      \* MsEpoll::timeoutThreadProc
    None,       \* no thread, no link
    Created,    \* those of Links that ms_tcp_create makes; the others come by accept
    Calm,       \* connections that carry no data, stay up and are destroyed by calls only
    Errors      \* whether accept() may fail with connections waiting (EMFILE, ECONNABORTED)
                \* and epoll_ctl() may refuse a socket (ENOMEM, ENOSPC)

ASSUME NameAssumption == /\ Worker \notin App /\ Timer \notin App /\ Worker # Timer
                         /\ None \notin App \cup {Worker, Timer} \cup Links
ASSUME BoundsAssumption == Created \cup Calm \subseteq Links /\ Errors \in BOOLEAN

Threads == App \cup {Worker, Timer}

VARIABLES
    m_maplink,      \* the links in the table
    mi_socket,      \* "new": no object yet, "queued" in a listener's backlog, "open", "none" (-1)
    m_link_type,    \* link_TypeNull, _Listen, _Connect, _Accept, _Connected
    listening,      \* the sockets that listen
    backlog,        \* backlog[l]: connections waiting to be accepted on l
    fin,            \* links whose connection has ended
    registered,     \* the sockets in epoll's interest list
    ready,          \* links with a pending edge
    exitEvent,      \* the eventfd mi_exit_event has been written
    stop,           \* mb_timeout_thread_flag is false
    told,           \* history: told[l], the kinds of event the callback got about l
    closes, raced,  \* history: CLOSED events per link; link_destroy overlapped itself
    hasty,          \* history: links link_destroy was at before the application knew them
    refused,        \* history: links whose socket epoll_ctl() refused
    ender,          \* the thread that called ms_tcp_uninit
    pc, arg,        \* per thread: position, link
    todo,           \* per thread: the links of its snapshot still to destroy
    listener,       \* worker: the link it accepts on
    batchHup, batchIn, batchExit    \* worker: events returned and not yet handled

osVars    == <<listening, backlog, fin, registered, ready>>
histVars  == <<told, closes, raced, hasty, refused>>
endVars   == <<exitEvent, stop, ender>>
batchVars == <<batchHup, batchIn, batchExit>>
workVars  == <<todo, listener, batchVars>>
vars == <<m_maplink, mi_socket, m_link_type, osVars, histVars, endVars, pc, arg, workVars>>

DestroyPC == {"destLink", "destCheck", "destSet", "destTell"}
AttachPC  == {"attachGet", "attachCtl"}
AppPC     == DestroyPC \cup AttachPC \cup
             {"idle", "destFound", "tellCreated", "connect", "tellConnected", "tellFailed", "listen",
              "joinWorker", "joinTimer", "freeAll", "freeing", "ended"}
WorkerPC  == DestroyPC \cup AttachPC \cup
             {"wait", "batch", "flush", "tellDisc", "discLink", "accept", "setLink",
              "tellAccepted", "read", "readEnd", "done"}
TimerPC   == DestroyPC \cup {"check", "expiring", "done"}

Event == {"CREATED", "CLOSED", "ACCEPTED", "CONNECTED", "DISCONNECTED", "RECEIVEDATA"}
LinkType == {"Null", "Listen", "Connect", "Accept", "Connected"}

TypeOK ==
    /\ m_maplink \subseteq Links
    /\ mi_socket \in [Links -> {"new", "queued", "open", "none"}]
    /\ m_link_type \in [Links -> LinkType]
    /\ listening \subseteq Links
    /\ backlog \in [Links -> SUBSET Links]
    /\ fin \subseteq Links /\ registered \subseteq Links /\ ready \subseteq Links
    /\ exitEvent \in BOOLEAN /\ stop \in BOOLEAN
    /\ told \in [Links -> SUBSET Event]
    /\ closes \in [Links -> Nat]
    /\ raced \subseteq Links /\ hasty \subseteq Links /\ refused \subseteq Links
    /\ ender \in App \cup {None}
    /\ pc \in [Threads -> AppPC \cup WorkerPC \cup TimerPC]
    /\ \A t \in App : pc[t] \in AppPC
    /\ pc[Worker] \in WorkerPC /\ pc[Timer] \in TimerPC
    /\ arg \in [Threads -> Links \cup {None}]
    /\ todo \in [Threads -> SUBSET Links]
    /\ listener \in Links \cup {None}
    /\ batchHup \subseteq Links /\ batchIn \subseteq Links /\ batchExit \in BOOLEAN

Init ==
    /\ m_maplink = {}
    /\ mi_socket = [l \in Links |-> "new"]
    /\ m_link_type = [l \in Links |-> "Null"]
    /\ listening = {}
    /\ backlog = [l \in Links |-> {}]
    /\ fin = {} /\ registered = {} /\ ready = {}
    /\ exitEvent = FALSE /\ stop = FALSE /\ ender = None
    /\ told = [l \in Links |-> {}]
    /\ closes = [l \in Links |-> 0] /\ raced = {} /\ hasty = {} /\ refused = {}
    /\ pc = [t \in Threads |-> IF t = Worker THEN "wait"
                               ELSE IF t = Timer THEN "check" ELSE "idle"]
    /\ arg = [t \in Threads |-> None]
    /\ todo = [t \in Threads |-> {}]
    /\ listener = None
    /\ batchHup = {} /\ batchIn = {} /\ batchExit = FALSE

Goto(t, label) == pc' = [pc EXCEPT ![t] = label]
Enter(t, label, l) == Goto(t, label) /\ arg' = [arg EXCEPT ![t] = l]

(* The callback of link l gets event e; for an accepted link, the event is *)
(* the one the listener's callback gets with that link as parameter.       *)
Tell(l, e) == told' = [told EXCEPT ![l] = @ \cup {e}]

Announced(l) == told[l] \cap {"CREATED", "ACCEPTED"} # {}

(* do_send_buff holds m_link_lock while it writes.                         *)
TableFree == pc[Worker] # "flush"

(* mh_link: a link accepted is in the table before it is told its handle.  *)
Nameless(l) == pc[Worker] = "setLink" /\ arg[Worker] = l
MhLink(l) == IF Nameless(l) THEN None ELSE l

(* Links that can carry data.                                              *)
Carries(l) == m_link_type[l] \in {"Connect", "Connected", "Accept"}

(* An edge is noticed if the socket is registered.                         *)
Edge(l) == ready \cup ({l} \cap registered)

-----------------------------------------------------------------------------
(* The network and the kernel.                                             *)

(* Data arrives, or the socket becomes writable.                           *)
Arrives(l) ==
    /\ l \in registered \ (fin \cup ready \cup Calm) /\ m_link_type[l] # "Listen"
    /\ ready' = ready \cup {l}
    /\ UNCHANGED <<m_maplink, mi_socket, m_link_type, listening, backlog, fin, registered,
                   histVars, endVars, pc, arg, workVars>>

(* A peer connects to listener l; the connection will be link n.           *)
PeerConnects(l, n) ==
    /\ l \in listening /\ mi_socket[n] = "new"
    /\ mi_socket' = [mi_socket EXCEPT ![n] = "queued"]
    /\ backlog' = [backlog EXCEPT ![l] = @ \cup {n}]
    /\ ready' = Edge(l)
    /\ UNCHANGED <<m_maplink, m_link_type, listening, fin, registered, histVars, endVars, pc,
                   arg, workVars>>

(* A connection ends, or a connect in progress fails.                      *)
PeerCloses(l) ==
    /\ mi_socket[l] = "open" /\ l \notin fin \cup Calm /\ Carries(l)
    /\ fin' = fin \cup {l}
    /\ ready' = Edge(l)
    /\ UNCHANGED <<m_maplink, mi_socket, m_link_type, listening, backlog, registered,
                   histVars, endVars, pc, arg, workVars>>

-----------------------------------------------------------------------------
(* The application's calls: while nobody has called ms_tcp_uninit, and on  *)
(* handles it has been told of.                                            *)
MayCall(t) == pc[t] = "idle" /\ ender = None
Knows(l) == l \in m_maplink /\ Announced(l)

(* ms_tcp_create: link_create opens a socket (or leaves nothing behind),   *)
(* add_tcp_link publishes the link; only then is the callback called.      *)
Create(t, l) ==
    /\ MayCall(t) /\ l \in Created /\ mi_socket[l] = "new" /\ TableFree
    /\ mi_socket' = [mi_socket EXCEPT ![l] = "open"]
    /\ m_maplink' = m_maplink \cup {l}
    /\ Enter(t, "tellCreated", l)
    /\ UNCHANGED <<m_link_type, osVars, histVars, endVars, workVars>>

(* The application connects or listens on a link at most once.             *)
Unused(l) == m_link_type[l] = "Null" /\ \A t \in App : arg[t] = l => pc[t] \in DestroyPC

FindUnused(t, l) ==
    /\ MayCall(t) /\ Knows(l) /\ Unused(l) /\ TableFree
    /\ \/ Enter(t, "connect", l)        \* ms_tcp_connect
       \/ Enter(t, "listen", l)         \* ms_tcp_listen
    /\ UNCHANGED <<m_maplink, mi_socket, m_link_type, osVars, histVars, endVars, workVars>>

(* link_connect: connect() is under way, or fails and closes the socket;   *)
(* or the name of the peer cannot be resolved.                             *)
Connect(t) ==
    LET l == arg[t]
    IN  /\ pc[t] = "connect"
        /\ \/ /\ mi_socket[l] = "open"
              /\ m_link_type' = [m_link_type EXCEPT ![l] = "Connect"]
              /\ Goto(t, "tellConnected")
              /\ UNCHANGED <<mi_socket, arg>>
           \/ /\ m_link_type' = [m_link_type EXCEPT ![l] = "Connect"]
              /\ mi_socket' = [mi_socket EXCEPT ![l] = "none"]
              /\ Goto(t, "tellFailed")
              /\ UNCHANGED arg
           \/ Enter(t, "idle", None) /\ UNCHANGED <<m_link_type, mi_socket>>
        /\ UNCHANGED <<m_maplink, osVars, histVars, endVars, workVars>>

(* link_listen; listen() fails on a link that is being destroyed, and may  *)
(* fail for reasons of its own.                                            *)
Listen(t) ==
    LET l == arg[t]
    IN  /\ pc[t] = "listen"
        /\ m_link_type' = [m_link_type EXCEPT ![l] = "Listen"]
        /\ \/ /\ mi_socket[l] = "open"
              /\ listening' = listening \cup {l}
              /\ Goto(t, "attachGet") /\ UNCHANGED arg
           \/ Enter(t, "idle", None) /\ UNCHANGED listening
        /\ UNCHANGED <<m_maplink, mi_socket, backlog, fin, registered, ready, histVars, endVars,
                       workVars>>

(* The callbacks of ms_tcp_create and link_connect.                        *)
TellApp(t) ==
    LET l == arg[t]
    IN  /\ \/ pc[t] = "tellCreated" /\ Tell(l, "CREATED") /\ Enter(t, "idle", None)
           \/ pc[t] = "tellFailed" /\ Tell(l, "DISCONNECTED") /\ Enter(t, "idle", None)
           \/ pc[t] = "tellConnected" /\ Tell(l, "CONNECTED") /\ Enter(t, "attachGet", l)
        /\ UNCHANGED <<m_maplink, mi_socket, m_link_type, osVars, closes, raced, hasty, refused,
                       endVars, workVars>>

AfterAttachFaulty(t) == "accept"
AfterAttachOnce(t) == IF t = Worker THEN "batch" ELSE "idle"
AfterAttach(t) == IF t = Worker THEN "accept" ELSE "idle"

(* attach_to_epoll( p_link->get_socket(), ... ): the socket is read, ...   *)
AttachGet(t) ==
    /\ pc[t] = "attachGet"
    /\ IF mi_socket[arg[t]] = "open" THEN Goto(t, "attachCtl") /\ UNCHANGED arg
                                     ELSE Enter(t, AfterAttach(t), None)
    /\ UNCHANGED <<m_maplink, mi_socket, m_link_type, osVars, histVars, endVars, workVars>>

AttachedFaulty(l) == registered
Attached(l) == registered \cup {l}

(* ... and EPOLL_CTL_ADD reports at once what is already pending; or it    *)
(* fails, which no caller of attach_to_epoll looks at.                     *)
AttachCtl(t) ==
    LET l == arg[t]
    IN  /\ pc[t] = "attachCtl"
        /\ \/ /\ registered' = Attached(l)
              /\ ready' = IF l \in fin \/ backlog[l] # {} THEN ready \cup {l} ELSE ready
              /\ UNCHANGED refused
           \/ /\ Errors /\ refused' = refused \cup {l}
              /\ UNCHANGED <<registered, ready>>
        /\ Enter(t, AfterAttach(t), None)
        /\ UNCHANGED <<m_maplink, mi_socket, m_link_type, listening, backlog, fin, told, closes,
                       raced, hasty, endVars, workVars>>

-----------------------------------------------------------------------------
(* link_destroy, by whichever thread.                                      *)

(* Entering it; the history notes two threads in it on the same link.      *)
EnterDestroy(t, l) ==
    /\ Enter(t, "destLink", l)
    /\ raced' = IF \E u \in Threads \ {t} : pc[u] \in DestroyPC /\ arg[u] = l
                THEN raced \cup {l} ELSE raced

(* ms_tcp_destroy: find_link.                                              *)
Destroy(t, l) ==
    /\ MayCall(t) /\ Knows(l) /\ TableFree
    /\ Enter(t, "destFound", l)
    /\ UNCHANGED <<m_maplink, mi_socket, m_link_type, osVars, histVars, endVars, workVars>>

(* ... and then p_link->link_destroy().                                    *)
DestroyFound(t) ==
    /\ pc[t] = "destFound"
    /\ EnterDestroy(t, arg[t])
    /\ UNCHANGED <<m_maplink, mi_socket, m_link_type, osVars, told, closes, hasty, refused,
                   endVars, workVars>>

ErasedFaulty(l) == m_maplink
Erased(l) == m_maplink \ {l}

(* del_link, here and in the worker's hang-up branch: it finds nothing to  *)
(* erase for a link that has no handle yet.                                *)
DelLink(t) ==
    LET l == arg[t]
    IN  /\ pc[t] \in {"destLink", "discLink"} /\ TableFree
        /\ m_maplink' = Erased(MhLink(l))
        /\ IF MhLink(l) \in m_maplink
           THEN registered' = registered \ {l} /\ ready' = ready \ {l}
           ELSE UNCHANGED <<registered, ready>>
        /\ hasty' = IF Announced(l) THEN hasty ELSE hasty \cup {l}
        /\ IF pc[t] = "destLink" THEN Goto(t, "destCheck") /\ UNCHANGED arg
                                 ELSE Enter(t, "batch", None)
        /\ UNCHANGED <<mi_socket, m_link_type, listening, backlog, fin, told, closes, raced,
                       refused, endVars, workVars>>

(* Where a thread goes on after link_destroy; the worker came from a read. *)
DestroyReturn(t) ==
    IF t = Worker THEN Goto(t, "readEnd") /\ UNCHANGED arg
    ELSE Enter(t, IF t = Timer THEN "expiring" ELSE IF t = ender THEN "freeing" ELSE "idle",
               None)

(* if( mi_socket != -1 )                                                   *)
DestroyCheck(t) ==
    /\ pc[t] = "destCheck"
    /\ IF mi_socket[arg[t]] = "open" THEN Goto(t, "destSet") /\ UNCHANGED arg
                                     ELSE DestroyReturn(t)
    /\ UNCHANGED <<m_maplink, mi_socket, m_link_type, osVars, histVars, endVars, workVars>>

SocketGoneFaulty(l) == mi_socket
SocketGone(l) == [mi_socket EXCEPT ![l] = "none"]

(* shutdown(), mi_socket = -1                                              *)
DestroySet(t) ==
    LET l == arg[t]
    IN  /\ pc[t] = "destSet"
        /\ fin' = fin \cup {l}
        /\ listening' = listening \ {l}
        /\ ready' = Edge(l)
        /\ mi_socket' = SocketGone(l)
        /\ Goto(t, "destTell")
        /\ UNCHANGED <<m_maplink, m_link_type, backlog, registered, histVars, endVars, arg,
                       workVars>>

(* The event carries mh_link: without a handle it is about no link.        *)
DestroyTell(t) ==
    LET l == arg[t]
    IN  /\ pc[t] = "destTell"
        /\ IF Nameless(l) THEN UNCHANGED told ELSE Tell(l, "CLOSED")
        /\ closes' = [closes EXCEPT ![l] = @ + 1]
        /\ DestroyReturn(t)
        /\ UNCHANGED <<m_maplink, mi_socket, m_link_type, osVars, raced, hasty, refused, endVars,
                       workVars>>

-----------------------------------------------------------------------------
(* The worker.                                                             *)

(* An event carries the socket's whole state: one that has ended is hung up.*)
EpollWait ==
    /\ pc[Worker] = "wait" /\ (ready # {} \/ exitEvent)
    /\ batchHup' = ready \cap fin /\ batchIn' = ready \ fin /\ batchExit' = exitEvent
    /\ ready' = {}
    /\ Goto(Worker, "batch")
    /\ UNCHANGED <<m_maplink, mi_socket, m_link_type, listening, backlog, fin, registered,
                   histVars, endVars, arg, todo, listener>>

TakeExitFaulty ==
    /\ pc[Worker] = "batch" /\ batchExit
    /\ batchExit' = FALSE
    /\ UNCHANGED <<m_maplink, mi_socket, m_link_type, osVars, histVars, endVars, pc, arg,
                   todo, listener, batchHup, batchIn>>

(* The exit event ends the thread, whatever else the batch still holds.    *)
TakeExit ==
    /\ pc[Worker] = "batch" /\ batchExit
    /\ Goto(Worker, "done")
    /\ UNCHANGED <<m_maplink, mi_socket, m_link_type, osVars, histVars, endVars, arg, workVars>>

(* Some event of the batch that is about link l: find_link and dispatch.   *)
Take(l) ==
    /\ pc[Worker] = "batch"
    /\ l \in batchHup \cup batchIn
    /\ batchHup' = batchHup \ {l} /\ batchIn' = batchIn \ {l}
    /\ UNCHANGED <<m_maplink, mi_socket, osVars, histVars, endVars, todo, batchExit>>

TakeStale(l) ==
    /\ Take(l) /\ l \notin m_maplink
    /\ UNCHANGED <<m_link_type, pc, arg, listener>>

TakeHupFaulty(l) ==
    /\ Take(l) /\ l \in m_maplink /\ l \in batchHup
    /\ Enter(Worker, "discLink", l)
    /\ UNCHANGED <<m_link_type, listener>>

TakeHup(l) ==
    /\ Take(l) /\ l \in m_maplink /\ l \in batchHup
    /\ Enter(Worker, "tellDisc", l)
    /\ UNCHANGED <<m_link_type, listener>>

TakeListen(l) ==
    /\ Take(l) /\ l \in m_maplink \ batchHup /\ m_link_type[l] = "Listen"
    /\ Enter(Worker, "accept", None) /\ listener' = l
    /\ UNCHANGED m_link_type

(* on_event_connected; readable data is left for a later edge.             *)
TakeConnected(l) ==
    /\ Take(l) /\ l \in m_maplink \ batchHup /\ m_link_type[l] = "Connect"
    /\ m_link_type' = [m_link_type EXCEPT ![l] = "Connected"]
    /\ UNCHANGED <<pc, arg, listener>>

TakeRead(l) ==
    /\ Take(l) /\ l \in m_maplink \ batchHup /\ m_link_type[l] \in {"Connected", "Accept"}
    /\ Enter(Worker, "read", l)
    /\ UNCHANGED <<m_link_type, listener>>

TellDiscFaulty ==
    /\ pc[Worker] = "tellDisc"
    /\ Tell(arg[Worker], "DISCONNECTED")
    /\ Enter(Worker, "batch", None)
    /\ UNCHANGED <<m_maplink, mi_socket, m_link_type, osVars, closes, raced, hasty, refused,
                   endVars, workVars>>

(* The hang-up branch tells the application first, then forgets the link:  *)
(* the socket is neither shut down nor closed.                             *)
TellDisc ==
    /\ pc[Worker] = "tellDisc"
    /\ Tell(arg[Worker], "DISCONNECTED")
    /\ Goto(Worker, "discLink")
    /\ UNCHANGED <<m_maplink, mi_socket, m_link_type, osVars, closes, raced, hasty, refused,
                   endVars, arg, workVars>>

(* on_event_accept, until the backlog is empty: a link for the connection, *)
(* published before it has its handle; set_link; ACCEPTED; attach_to_epoll.*)
Accept(n) ==
    /\ pc[Worker] = "accept" /\ mi_socket[listener] = "open" /\ n \in backlog[listener]
    /\ backlog' = [backlog EXCEPT ![listener] = @ \ {n}]
    /\ mi_socket' = [mi_socket EXCEPT ![n] = "open"]
    /\ m_link_type' = [m_link_type EXCEPT ![n] = "Accept"]
    /\ m_maplink' = m_maplink \cup {n}
    /\ Enter(Worker, "setLink", n)
    /\ UNCHANGED <<listening, fin, registered, ready, histVars, endVars, workVars>>

SetLink ==
    /\ pc[Worker] = "setLink"
    /\ Goto(Worker, "tellAccepted")
    /\ UNCHANGED <<m_maplink, mi_socket, m_link_type, osVars, histVars, endVars, arg, workVars>>

TellAccepted ==
    /\ pc[Worker] = "tellAccepted"
    /\ Tell(arg[Worker], "ACCEPTED")
    /\ Goto(Worker, "attachGet")
    /\ UNCHANGED <<m_maplink, mi_socket, m_link_type, osVars, closes, raced, hasty, refused,
                   endVars, arg, workVars>>

(* accept() returns no connection: none waits, or it fails.                *)
AcceptDone ==
    /\ pc[Worker] = "accept"
    /\ mi_socket[listener] = "none" \/ backlog[listener] = {} \/ Errors
    /\ Goto(Worker, "batch") /\ listener' = None
    /\ UNCHANGED <<m_maplink, mi_socket, m_link_type, osVars, histVars, endVars, arg, todo,
                   batchVars>>

(* on_event_read: RECV_BEGIN, then the socket is read until it would block,*)
(* or to the end of the stream, which destroys the link.                   *)
Read ==
    LET l == arg[Worker]
    IN  /\ pc[Worker] = "read"
        /\ Tell(l, "RECEIVEDATA")
        /\ IF mi_socket[l] = "open" /\ l \in fin
           THEN /\ registered' = registered \ {l} /\ ready' = ready \ {l}
                /\ EnterDestroy(Worker, l)
           ELSE Goto(Worker, "readEnd") /\ UNCHANGED <<registered, ready, arg, raced>>
        /\ UNCHANGED <<m_maplink, mi_socket, m_link_type, listening, backlog, fin, closes, hasty,
                       refused, endVars, workVars>>

(* RECV_END, whatever became of the link.                                  *)
ReadEnd ==
    /\ pc[Worker] = "readEnd"
    /\ Tell(arg[Worker], "RECEIVEDATA")
    /\ Enter(Worker, "batch", None)
    /\ UNCHANGED <<m_maplink, mi_socket, m_link_type, osVars, closes, raced, hasty, refused,
                   endVars, workVars>>

Handled == pc[Worker] = "batch" /\ ~batchExit /\ batchHup \cup batchIn = {}

(* do_send_buff with nothing to send: mb_send_flag is not set.             *)
BatchDone ==
    /\ Handled
    /\ Goto(Worker, "wait")
    /\ UNCHANGED <<m_maplink, mi_socket, m_link_type, osVars, histVars, endVars, arg, workVars>>

(* do_send_buff with something to send, after a batch or when epoll_wait   *)
(* was interrupted; a link that can carry data may have some.              *)
Flush ==
    /\ Handled \/ (pc[Worker] = "wait" /\ ready = {} /\ ~exitEvent)
    /\ \E l \in m_maplink \ Calm : Carries(l)
    /\ Goto(Worker, "flush")
    /\ UNCHANGED <<m_maplink, mi_socket, m_link_type, osVars, histVars, endVars, arg, workVars>>

(* When it ends is up to the peers; after a reset it does not (SendBuff).  *)
FlushEnds ==
    /\ pc[Worker] = "flush"
    /\ Goto(Worker, "wait")
    /\ UNCHANGED <<m_maplink, mi_socket, m_link_type, osVars, histVars, endVars, arg, workVars>>

-----------------------------------------------------------------------------
(* The timeout thread and ms_tcp_uninit: a snapshot of the table under the *)
(* lock, then link_destroy on each of its links.                           *)

(* is_alive can only be false of an accepted link (mb_need_check_alive).   *)
(* When it is depends on clocks: the link's stamp may be as old as the     *)
(* accept loop and the clock may be set, so any such link may expire, also *)
(* one the application has not been told of.                               *)
CheckAlive(l) == m_link_type[l] = "Accept"

Expirable == {l \in m_maplink : CheckAlive(l) /\ m_link_type[l] # "Listen"}

TimerCheck ==
    /\ pc[Timer] = "check" /\ ~stop /\ TableFree
    /\ \E expired \in (SUBSET (Expirable \ Calm)) \ {{}} : todo' = [todo EXCEPT ![Timer] = expired]
    /\ Goto(Timer, "expiring")
    /\ UNCHANGED <<m_maplink, mi_socket, m_link_type, osVars, histVars, endVars, arg,
                   listener, batchVars>>

TimerStop ==
    /\ pc[Timer] = "check" /\ stop
    /\ Goto(Timer, "done")
    /\ UNCHANGED <<m_maplink, mi_socket, m_link_type, osVars, histVars, endVars, arg, workVars>>

NextDestroy(t, l) ==
    /\ pc[t] \in {"expiring", "freeing"} /\ l \in todo[t]
    /\ todo' = [todo EXCEPT ![t] = @ \ {l}]
    /\ EnterDestroy(t, l)
    /\ UNCHANGED <<m_maplink, mi_socket, m_link_type, osVars, told, closes, hasty, refused,
                   endVars, listener, batchVars>>

AllDestroyed(t) ==
    /\ pc[t] \in {"expiring", "freeing"} /\ todo[t] = {}
    /\ Goto(t, IF t = Timer THEN "check" ELSE "ended")
    /\ UNCHANGED <<m_maplink, mi_socket, m_link_type, osVars, histVars, endVars, arg, workVars>>

(* ms_tcp_uninit, once, when no other call is under way.                   *)
Uninit(t) ==
    /\ MayCall(t) /\ \A u \in App : pc[u] = "idle"
    /\ ender' = t
    /\ exitEvent' = TRUE
    /\ Goto(t, "joinWorker")
    /\ UNCHANGED <<m_maplink, mi_socket, m_link_type, osVars, histVars, stop, arg, workVars>>

JoinWorker(t) ==
    /\ pc[t] = "joinWorker" /\ pc[Worker] = "done"
    /\ stop' = TRUE
    /\ Goto(t, "joinTimer")
    /\ UNCHANGED <<m_maplink, mi_socket, m_link_type, osVars, histVars, exitEvent, ender, arg,
                   workVars>>

(* Both threads are gone: the epoll descriptor is closed.                  *)
JoinTimer(t) ==
    /\ pc[t] = "joinTimer" /\ pc[Timer] = "done"
    /\ registered' = {} /\ ready' = {}
    /\ Goto(t, "freeAll")
    /\ UNCHANGED <<m_maplink, mi_socket, m_link_type, listening, backlog, fin, histVars,
                   endVars, arg, workVars>>

LinksToFreeFaulty == {l \in m_maplink : m_link_type[l] # "Listen"}
LinksToFree == m_maplink

(* free_all_link_map                                                       *)
FreeAll(t) ==
    /\ pc[t] = "freeAll"
    /\ todo' = [todo EXCEPT ![t] = LinksToFree]
    /\ Goto(t, "freeing")
    /\ UNCHANGED <<m_maplink, mi_socket, m_link_type, osVars, histVars, endVars, arg, listener,
                   batchVars>>

-----------------------------------------------------------------------------
LinkDestroy(t) == DelLink(t) \/ DestroyCheck(t) \/ DestroySet(t) \/ DestroyTell(t)
Attach(t) == AttachGet(t) \/ AttachCtl(t)
DestroyEach(t) == (\E l \in Links : NextDestroy(t, l)) \/ AllDestroyed(t)
End(t) == JoinWorker(t) \/ JoinTimer(t) \/ FreeAll(t)

AppStep(t) == \/ Connect(t) \/ Listen(t) \/ TellApp(t) \/ Attach(t)
              \/ DestroyFound(t) \/ LinkDestroy(t)
              \/ End(t) \/ DestroyEach(t)

TimerStep == TimerStop \/ TimerCheck \/ DestroyEach(Timer) \/ LinkDestroy(Timer)

WorkerStep == \/ EpollWait \/ TakeExit \/ BatchDone \/ Flush
              \/ \E l \in Links : \/ TakeStale(l) \/ TakeHup(l) \/ TakeListen(l)
                                  \/ TakeConnected(l) \/ TakeRead(l) \/ Accept(l)
              \/ TellDisc \/ SetLink \/ TellAccepted \/ AcceptDone \/ Attach(Worker)
              \/ Read \/ ReadEnd \/ LinkDestroy(Worker)

Call(t) == \/ \E l \in Links : Create(t, l) \/ FindUnused(t, l) \/ Destroy(t, l)
           \/ Uninit(t)

Environment == \E l \in Links : \/ Arrives(l) \/ PeerCloses(l)
                                \/ \E n \in Links : PeerConnects(l, n)

Next == \/ \E t \in App : Call(t) \/ AppStep(t)
        \/ WorkerStep \/ FlushEnds
        \/ TimerStep
        \/ Environment

Spec == Init /\ [][Next]_vars

(* Every thread keeps running and callbacks return.  Nobody is obliged to  *)
(* call the API, the network may stay silent, and do_send_buff need not    *)
(* return.                                                                 *)
Fairness == WF_vars(WorkerStep) /\ WF_vars(TimerStep) /\ \A t \in App : WF_vars(AppStep(t))

FairSpec == Spec /\ Fairness

-----------------------------------------------------------------------------
(* Correctness.                                                            *)

Published(l) == mi_socket[l] \in {"open", "none"}
Goodbye(l) == told[l] \cap {"CLOSED", "DISCONNECTED"} # {}
At(l, labels) == \E t \in Threads : arg[t] = l /\ pc[t] \in labels

(* The callback hears of a link for the first time by CREATED or ACCEPTED, *)
(* unless the timeout thread was at the link in the moment between its     *)
(* entering the table and ACCEPTED: epoll cannot produce an event yet.     *)
AnnouncedFirst == \A l \in Links \ hasty : told[l] # {} => Announced(l)

(* After CLOSED the handle is dead: no call can find the link any more.    *)
ClosedMeansGone == \A l \in Links \ hasty : "CLOSED" \in told[l] => l \notin m_maplink

(* A link does not leave the table behind the application's back: once it  *)
(* is out, CLOSED or DISCONNECTED has been delivered or a thread is on its *)
(* way to deliver it - whichever of the racing threads took it out, and    *)
(* also for a link whose socket a failed connect had already taken to -1.  *)
(* The exception are links destroyed before they were announced: one with  *)
(* no handle yet stays in the table without a socket and leaves it later   *)
(* without a word.                                                         *)
RemovedIsTold ==
    \A l \in Links \ hasty : (Published(l) /\ l \notin m_maplink) =>
        Goodbye(l) \/ At(l, {"destCheck", "destSet", "destTell", "tellFailed"})

(* Nor does it stay in the table unheard: the socket of a link that        *)
(* listens, connects or is connected is watched by epoll, or a thread is   *)
(* about to have it watched or to take the link down - unless epoll_ctl()  *)
(* refused it, which ms_tcp_connect, ms_tcp_listen and on_event_accept     *)
(* pass over in silence.                                                   *)
NoDeafLink ==
    \A l \in m_maplink \ refused :
        /\ l \in listening \/ Carries(l)
        /\ mi_socket[l] = "open" /\ pc[Worker] # "done"
        => l \in registered
           \/ At(l, {"tellConnected", "setLink", "tellAccepted", "destLink"} \cup AttachPC)

(* mi_socket is tested and reset under no lock, so two threads may each    *)
(* deliver CLOSED - but only when their runs of link_destroy overlap.      *)
OneClosedUnlessRaced == \A l \in Links \ raced : closes[l] <= 1

(* When ms_tcp_uninit returns the table is empty, both threads are gone    *)
(* and the application has heard the end of every link there ever was,     *)
(* including those whose events the exiting worker left unhandled - but    *)
(* for those destroyed before they were announced.                         *)
UninitLeavesNothing ==
    \A t \in App : pc[t] = "ended" =>
        /\ m_maplink = {}
        /\ pc[Worker] = "done" /\ pc[Timer] = "done"
        /\ \A l \in Links \ hasty : Published(l) => Goodbye(l)

(* What follows holds as long as do_send_buff returns whenever it is       *)
(* called.  After a reset with data on the list it does not (SendBuff);    *)
(* then no call that looks a link up returns, and nothing below happens.   *)
FlushesEnd == []<>TableFree

(* A connection that ends, and whose socket epoll watches, is taken out of *)
(* the table: by the worker, or by ms_tcp_uninit if the worker has exited. *)
HangupIsHandled ==
    FlushesEnd =>
        \A l \in Links : (l \in m_maplink \cap registered \cap fin) ~> (l \notin m_maplink)

(* A connection that waits on a watched listener is accepted, alone or     *)
(* behind others, or the listener is taken down - unless accept() fails    *)
(* (Errors), after which it waits for the next connection to bring an edge.*)
Waiting(n) == \E l \in m_maplink \cap registered : n \in backlog[l]
ConnectionIsAccepted == FlushesEnd => \A n \in Links : Waiting(n) ~> ~Waiting(n)

(* The contract a caller can build on.  A link is dead once it has been in *)
(* the table and has left it.                                              *)
Status == [l \in Links |-> IF l \in m_maplink THEN "live"
                           ELSE IF Published(l) THEN "dead" ELSE "none"]

Contract == INSTANCE LinkContract WITH status <- Status

(* Every step of every thread is a step of the contract, or none of its    *)
(* business: a link enters the table once and leaves it once, after it was *)
(* announced; and what the callback gets fits the moment it gets it.  The  *)
(* contract lets go of a link only if it is destroyed unannounced.         *)
KeepsContract == Contract!Spec

(* Once a link has left the table, CLOSED or DISCONNECTED does come, from  *)
(* whichever of the threads that were racing to remove it.                 *)
FarewellComes == FlushesEnd => Contract!Farewell

(* ms_tcp_uninit returns: the worker notices the exit event in whatever it *)
(* is doing, the timeout thread its flag.                                  *)
UninitReturns == FlushesEnd => \A t \in App : (ender = t) ~> (pc[t] = "ended")
=============================================================================
