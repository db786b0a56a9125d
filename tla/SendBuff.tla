------------------------------ MODULE SendBuff ------------------------------
(***************************************************************************)
(* The send path of the TCP wrapper (tcp-link.cpp): ms_tcp_send on the     *)
(* application's threads, do_send_buff on the epoll worker, and the two    *)
(* ways a link leaves the table, link_destroy and the worker's handling of *)
(* a hang-up.  They share                                                  *)
(*   - the table m_maplink, under the mutex m_link_lock;                   *)
(*   - one list of unsent data per link, under that link's own mutex;      *)
(*   - one boolean for the whole process, mb_send_flag, under no mutex;    *)
(*   - each link's socket, whose kernel buffer holds Room bytes and is     *)
(*     drained by the peer.                                                *)
(*                                                                         *)
(* One action is one access to shared state.  Every message is MsgSize     *)
(* bytes long; a write sends a prefix of what it is given, so what is left *)
(* of a message is always a suffix: a chunk [msg, from] stands for the     *)
(* bytes from..MsgSize of message msg, and a buffer of the C++ list is a   *)
(* chunk.                                                                  *)
(*                                                                         *)
(* A send or destroy that the application makes from inside its callback   *)
(* runs on the worker's (or timeout) thread; it is an App thread's call    *)
(* here, made while the worker is between two steps of its batch.  Links   *)
(* are connected when they enter: link_connect, whose failure closes the   *)
(* socket, is in TcpLink.  Left out are do_send_buff's branch for a chunk  *)
(* that is null or empty, which link_send never makes, and the refresh of  *)
(* mt_last_alive_time.                                                     *)
(*                                                                         *)
(* A definition named ...Faulty is the one after it with a bug seeded; it  *)
(* is in no behaviour, and serves to test that the properties notice.      *)
(***************************************************************************)
EXTENDS Naturals, Sequences, FiniteSets

CONSTANTS
    Links,      \* the MsTcpLink objects, which are also their handles
    App,        \* the threads that call the API (or run link_destroy)
    Worker,     \* the thread of MsEpoll::worker_thread
    None,       \* no thread, no link
    MsgSize,    \* bytes per ms_tcp_send
    Room,       \* bytes a kernel send buffer holds
    MaxSends,   \* bound on the messages of a behaviour
    Resets,     \* TRUE: a peer may reset, so that write() fails for good
    Traffic     \* TRUE: the peers also send data, which wakes the worker

ASSUME NameAssumption == /\ Worker \notin App
                         /\ None \notin App \cup {Worker} \cup Links
ASSUME SizeAssumption == /\ MsgSize \in Nat \ {0}
                         /\ Room \in Nat \ {0}
                         /\ MaxSends \in Nat \ {0}
ASSUME SwitchAssumption == Resets \in BOOLEAN /\ Traffic \in BOOLEAN

Threads == App \cup {Worker}

VARIABLES
    m_maplink,              \* the links in the table
    m_link_lock,            \* who holds the table's mutex
    mb_send_flag,           \* "some list may be non-empty"
    m_send_buff_list,       \* m_send_buff_list[l]: the chunks l still has to send
    mo_send_buff_list_lock, \* mo_send_buff_list_lock[l]: who holds that list's mutex
    mi_socket,              \* "new" before the link is published, "open", "none" for -1
    room,                   \* free bytes in the kernel's send buffer
    nospace,                \* links whose last write met a full kernel buffer
    wire,                   \* wire[l]: the bytes written so far, <<message, position>>
    broken,                 \* links on which write() fails with a hard error
    fin,                    \* links whose stream has ended: FIN, reset or shutdown()
    ready,                  \* links with a pending epoll edge
    pc, arg, rest,          \* per thread: position, link, unsent chunk of link_send
    batchHup, batchIn,      \* worker: events epoll_wait returned and not yet handled
    todo,                   \* worker: links do_send_buff has still to visit
    sent,                   \* worker: i_send_size # 0 for the chunk at the head
    log,                    \* history: log[m] is the link message m was sent on
    overtaken               \* history: links on which a send overtook an earlier one

tableVars  == <<m_maplink, m_link_lock>>
listVars   == <<m_send_buff_list, mo_send_buff_list_lock>>
kernelVars == <<room, nospace, wire>>
peerVars   == <<broken, fin>>
batchVars  == <<batchHup, batchIn>>
flushVars  == <<todo, sent>>
histVars   == <<log, overtaken>>
sharedVars == <<tableVars, mb_send_flag, listVars, mi_socket>>
osVars     == <<kernelVars, peerVars, ready>>
workVars   == <<batchVars, flushVars>>
vars == <<sharedVars, osVars, pc, arg, rest, workVars, histVars>>

Chunk   == [msg : Nat \ {0}, from : 1..MsgSize]
NoChunk == [msg |-> 0, from |-> 0]

CallPC    == {"idle", "write", "push", "flag"}              \* link_send
DestroyPC == {"destBuf", "destLink", "destSock"}            \* link_destroy
WorkerPC  == {"wait", "batch", "discBuf", "discLink",       \* worker_thread
              "check", "clear", "lock", "scan", "chunk"}    \* do_send_buff

TypeOK ==
    /\ m_maplink \subseteq Links
    /\ m_link_lock \in {Worker, None}
    /\ mb_send_flag \in BOOLEAN
    /\ m_send_buff_list \in [Links -> Seq(Chunk)]
    /\ mo_send_buff_list_lock \in [Links -> Threads \cup {None}]
    /\ mi_socket \in [Links -> {"new", "open", "none"}]
    /\ room \in [Links -> 0..Room]
    /\ wire \in [Links -> Seq(Nat \X Nat)]
    /\ nospace \subseteq Links
    /\ broken \subseteq Links /\ fin \subseteq Links /\ ready \subseteq Links
    /\ pc \in [Threads -> CallPC \cup DestroyPC \cup WorkerPC]
    /\ \A t \in App : pc[t] \in CallPC \cup DestroyPC
    /\ pc[Worker] \in DestroyPC \cup WorkerPC
    /\ arg \in [Threads -> Links \cup {None}]
    /\ rest \in [App -> Chunk \cup {NoChunk}]
    /\ batchHup \subseteq Links /\ batchIn \subseteq Links /\ todo \subseteq Links
    /\ sent \in BOOLEAN
    /\ log \in Seq(Links)
    /\ overtaken \subseteq Links

Init ==
    /\ m_maplink = {} /\ m_link_lock = None
    /\ mb_send_flag = FALSE
    /\ m_send_buff_list = [l \in Links |-> <<>>]
    /\ mo_send_buff_list_lock = [l \in Links |-> None]
    /\ mi_socket = [l \in Links |-> "new"]
    /\ room = [l \in Links |-> Room] /\ nospace = {}
    /\ wire = [l \in Links |-> <<>>]
    /\ broken = {} /\ fin = {} /\ ready = {}
    /\ pc = [t \in Threads |-> IF t = Worker THEN "wait" ELSE "idle"]
    /\ arg = [t \in Threads |-> None]
    /\ rest = [t \in App |-> NoChunk]
    /\ batchHup = {} /\ batchIn = {}
    /\ todo = {} /\ sent = FALSE
    /\ log = <<>> /\ overtaken = {}

TableFreeFaulty == TRUE
(* Taking m_link_lock for a critical section that is a single action.      *)
TableFree == m_link_lock = None

ListUnlockedFaulty(l) == mo_send_buff_list_lock
ListUnlocked(l) == [mo_send_buff_list_lock EXCEPT ![l] = None]

Goto(t, label) == pc' = [pc EXCEPT ![t] = label]
Enter(t, label, l) == Goto(t, label) /\ arg' = [arg EXCEPT ![t] = l]

-----------------------------------------------------------------------------
(* The kernel's side of a socket.                                          *)

FittingFaulty(l, c) == MsgSize + 1 - c.from
(* send_data: a non-blocking write takes what fits of chunk c.             *)
Fitting(l, c) == IF room[l] < MsgSize + 1 - c.from
                 THEN room[l] ELSE MsgSize + 1 - c.from

WriteFails(l) == mi_socket[l] = "none" \/ l \in broken

(* The first n bytes of chunk c go to the kernel.                          *)
Write(l, c, n) ==
    /\ wire' = [wire EXCEPT ![l] = @ \o [i \in 1..n |-> <<c.msg, c.from + i - 1>>]]
    /\ room' = [room EXCEPT ![l] = @ - n]
    /\ nospace' = IF c.from + n <= MsgSize THEN nospace \cup {l} ELSE nospace

AfterFaulty(c, n) == [msg |-> c.msg, from |-> c.from + n - 1]
After(c, n) == [msg |-> c.msg, from |-> c.from + n]

(* epoll reports an edge of l only while l is registered, that is mapped.  *)
Edge(l) == ready \cup ({l} \cap m_maplink)

(* The peer takes the data; a writer that had met a full buffer gets       *)
(* EPOLLOUT.                                                               *)
Drain(l) ==
    /\ l \notin broken /\ room[l] < Room
    /\ room' = [room EXCEPT ![l] = Room]
    /\ nospace' = nospace \ {l}
    /\ ready' = IF l \in nospace THEN Edge(l) ELSE ready
    /\ UNCHANGED <<sharedVars, wire, peerVars, pc, arg, rest, workVars,
                   histVars>>

(* The peer sends something (any event that makes epoll_wait return).      *)
Arrives(l) ==
    /\ Traffic /\ l \in m_maplink \ (fin \cup ready)
    /\ ready' = ready \cup {l}
    /\ UNCHANGED <<sharedVars, kernelVars, peerVars, pc, arg, rest,
                   workVars, histVars>>

(* The peer closes or resets.                                              *)
PeerCloses(l) ==
    /\ mi_socket[l] = "open" /\ l \notin fin
    /\ fin' = fin \cup {l}
    /\ \/ broken' = broken
       \/ Resets /\ broken' = broken \cup {l}
    /\ ready' = Edge(l)
    /\ UNCHANGED <<sharedVars, kernelVars, pc, arg, rest, workVars, histVars>>

-----------------------------------------------------------------------------
(* add_tcp_link, by ms_tcp_create or on_event_accept; the link is taken to *)
(* be registered with epoll from here on.                                  *)
AddTcpLink(l) ==
    /\ TableFree /\ mi_socket[l] = "new"
    /\ m_maplink' = m_maplink \cup {l}
    /\ mi_socket' = [mi_socket EXCEPT ![l] = "open"]
    /\ UNCHANGED <<m_link_lock, mb_send_flag, listVars, osVars, pc, arg,
                   rest, workVars, histVars>>

(* ms_tcp_send: find_link.  (A handle that is not found returns false.)    *)
SendFind(t, l) ==
    /\ pc[t] = "idle" /\ TableFree /\ l \in m_maplink
    /\ Len(log) + Cardinality({u \in App : pc[u] = "write"}) < MaxSends
    /\ Enter(t, "write", l)
    /\ UNCHANGED <<sharedVars, osVars, rest, workVars, histVars>>

(* The chunks of l that a sender other than t has in its hands.            *)
InHand(l) == {rest[u] : u \in {u \in App : pc[u] = "push" /\ arg[u] = l}}

(* link_send's write(): whatever the list holds, the new message is tried  *)
(* first.  A full write returns; a short one (0 for EAGAIN) is buffered.   *)
SendWrite(t) ==
    LET l == arg[t]
        c == [msg |-> Len(log) + 1, from |-> 1]
        n == Fitting(l, c)
    IN  /\ pc[t] = "write" /\ ~WriteFails(l)
        /\ log' = Append(log, l)
        /\ Write(l, c, n)
        /\ IF n = MsgSize
           THEN Enter(t, "idle", None) /\ UNCHANGED rest
           ELSE Goto(t, "push") /\ rest' = [rest EXCEPT ![t] = After(c, n)]
                /\ UNCHANGED arg
        /\ overtaken' = IF n > 0 /\ (m_send_buff_list[l] # <<>> \/ InHand(l) # {})
                        THEN overtaken \cup {l} ELSE overtaken
        /\ UNCHANGED <<sharedVars, peerVars, ready, workVars>>

(* A hard error shuts the socket down and returns false.                   *)
SendError(t) ==
    LET l == arg[t]
    IN  /\ pc[t] = "write" /\ WriteFails(l)
        /\ Enter(t, "idle", None)
        /\ IF mi_socket[l] = "open" THEN fin' = fin \cup {l} /\ ready' = Edge(l)
                                    ELSE UNCHANGED <<fin, ready>>
        /\ UNCHANGED <<sharedVars, kernelVars, broken, rest, workVars,
                       histVars>>

(* The remainder goes to the end of the list, under the list's mutex ...   *)
SendPush(t) ==
    LET l == arg[t]
    IN  /\ pc[t] = "push" /\ mo_send_buff_list_lock[l] = None
        /\ mo_send_buff_list_lock' = [mo_send_buff_list_lock EXCEPT ![l] = t]
        /\ m_send_buff_list' = [m_send_buff_list EXCEPT ![l] = Append(@, rest[t])]
        /\ rest' = [rest EXCEPT ![t] = NoChunk]
        /\ Goto(t, "flag")
        /\ overtaken' = IF \E c \in InHand(l) : c.msg < rest[t].msg
                        THEN overtaken \cup {l} ELSE overtaken
        /\ UNCHANGED <<tableVars, mb_send_flag, mi_socket, osVars, arg,
                       workVars, log>>

(* ... which is held until the flag is set.                                *)
SendFlag(t) ==
    /\ pc[t] = "flag"
    /\ mb_send_flag' = TRUE
    /\ mo_send_buff_list_lock' = ListUnlocked(arg[t])
    /\ Enter(t, "idle", None)
    /\ UNCHANGED <<tableVars, m_send_buff_list, mi_socket, osVars, rest,
                   workVars, histVars>>

-----------------------------------------------------------------------------
(* ms_tcp_destroy, or check_link_timeout's call of link_destroy.           *)
DestroyFind(t, l) ==
    /\ pc[t] = "idle" /\ TableFree /\ l \in m_maplink
    /\ Enter(t, "destBuf", l)
    /\ UNCHANGED <<sharedVars, osVars, rest, workVars, histVars>>

(* del_send_buff, in link_destroy and in the worker's hang-up branch.      *)
DelSendBuff(t) ==
    LET l == arg[t]
    IN  /\ pc[t] \in {"destBuf", "discBuf"} /\ mo_send_buff_list_lock[l] = None
        /\ m_send_buff_list' = [m_send_buff_list EXCEPT ![l] = <<>>]
        /\ Goto(t, IF pc[t] = "destBuf" THEN "destLink" ELSE "discLink")
        /\ UNCHANGED <<tableVars, mb_send_flag, mo_send_buff_list_lock,
                       mi_socket, osVars, arg, rest, workVars, histVars>>

(* del_link: out of epoll and out of the table.                            *)
DelLink(t) ==
    LET l == arg[t]
    IN  /\ pc[t] \in {"destLink", "discLink"} /\ TableFree
        /\ m_maplink' = m_maplink \ {l}
        /\ ready' = ready \ {l}
        /\ IF pc[t] = "destLink" THEN Goto(t, "destSock") /\ UNCHANGED arg
                                 ELSE Enter(t, "batch", None)
        /\ UNCHANGED <<m_link_lock, mb_send_flag, listVars, mi_socket,
                       kernelVars, peerVars, rest, workVars, histVars>>

(* The end of link_destroy: shutdown() and mi_socket = -1.                 *)
DestroySocket(t) ==
    LET l == arg[t]
    IN  /\ pc[t] = "destSock"
        /\ mi_socket' = [mi_socket EXCEPT ![l] = "none"]
        /\ fin' = fin \cup {l}
        /\ Enter(t, IF t = Worker THEN "batch" ELSE "idle", None)
        /\ UNCHANGED <<tableVars, mb_send_flag, listVars, kernelVars,
                       broken, ready, rest, workVars, histVars>>

-----------------------------------------------------------------------------
(* worker_thread: epoll_wait returns the pending edges; an event carries   *)
(* the link's whole state, so one that has ended is reported as hung up.   *)
EpollWait ==
    /\ pc[Worker] = "wait" /\ ready # {}
    /\ batchHup' = ready \cap fin /\ batchIn' = ready \ fin
    /\ ready' = {}
    /\ Goto(Worker, "batch")
    /\ UNCHANGED <<sharedVars, kernelVars, peerVars, arg, rest, flushVars,
                   histVars>>

(* One event of the batch: nothing when the link has gone; a hang-up       *)
(* drops the link; a read that meets the end of the stream destroys it.    *)
HandleEvent(l) ==
    /\ pc[Worker] = "batch" /\ TableFree /\ l \in batchHup \cup batchIn
    /\ batchHup' = batchHup \ {l} /\ batchIn' = batchIn \ {l}
    /\ IF l \notin m_maplink \/ (l \notin batchHup /\ l \notin fin)
       THEN UNCHANGED <<pc, arg>>
       ELSE Enter(Worker, IF l \in batchHup THEN "discBuf" ELSE "destBuf", l)
    /\ UNCHANGED <<sharedVars, osVars, rest, flushVars, histVars>>

BatchDone ==
    /\ pc[Worker] = "batch" /\ batchHup \cup batchIn = {}
    /\ Goto(Worker, "check")
    /\ UNCHANGED <<sharedVars, osVars, arg, rest, workVars, histVars>>

(* A signal interrupts epoll_wait: do_send_buff is called all the same.    *)
Interrupted ==
    /\ pc[Worker] = "wait" /\ ready = {}
    /\ Goto(Worker, "check")
    /\ UNCHANGED <<sharedVars, osVars, arg, rest, workVars, histVars>>

-----------------------------------------------------------------------------
(* do_send_buff: nothing to do while the flag is down.                     *)
FlushCheck ==
    /\ pc[Worker] = "check"
    /\ Goto(Worker, IF mb_send_flag THEN "clear" ELSE "wait")
    /\ UNCHANGED <<sharedVars, osVars, arg, rest, workVars, histVars>>

(* The flag is cleared first, before the table is locked.                  *)
FlushClear ==
    /\ pc[Worker] = "clear"
    /\ mb_send_flag' = FALSE
    /\ Goto(Worker, "lock")
    /\ UNCHANGED <<tableVars, listVars, mi_socket, osVars, arg, rest,
                   workVars, histVars>>

FlushLock ==
    /\ pc[Worker] = "lock" /\ TableFree
    /\ m_link_lock' = Worker
    /\ todo' = m_maplink
    /\ Goto(Worker, "scan")
    /\ UNCHANGED <<m_maplink, mb_send_flag, listVars, mi_socket, osVars,
                   arg, rest, batchVars, sent, histVars>>

FlushVisit(l) ==
    /\ pc[Worker] = "scan" /\ l \in todo /\ mo_send_buff_list_lock[l] = None
    /\ mo_send_buff_list_lock' = [mo_send_buff_list_lock EXCEPT ![l] = Worker]
    /\ sent' = FALSE
    /\ Enter(Worker, "chunk", l)
    /\ UNCHANGED <<tableVars, mb_send_flag, m_send_buff_list, mi_socket,
                   osVars, rest, batchVars, todo, histVars>>

(* The list once n bytes of its first chunk are sent: a chunk that is all  *)
(* sent is erased, the rest of one takes its place at the front.           *)
ListAfterFaulty(list, n) ==
    Tail(list) \o IF Head(list).from + n > MsgSize THEN <<>> ELSE <<After(Head(list), n)>>
ListAfter(list, n) ==
    IF Head(list).from + n > MsgSize THEN Tail(list)
                                     ELSE <<After(Head(list), n)>> \o Tail(list)

(* One write() of the chunk at the head.                                   *)
FlushWrite ==
    LET l == arg[Worker]
        list == m_send_buff_list[l]
        c == Head(list)
        n == Fitting(l, c)
    IN  /\ pc[Worker] = "chunk" /\ list # <<>>
        /\ ~WriteFails(l) /\ n > 0
        /\ Write(l, c, n)
        /\ m_send_buff_list' = [m_send_buff_list EXCEPT ![l] = ListAfter(list, n)]
        /\ sent' = (c.from + n <= MsgSize)
        /\ UNCHANGED <<tableVars, mb_send_flag, mo_send_buff_list_lock,
                       mi_socket, peerVars, ready, pc, arg, rest, batchVars,
                       todo, histVars>>

Blocked(l) == WriteFails(l) \/ room[l] = 0

(* write() fails, be it EAGAIN or for good, before a byte of the chunk was *)
(* sent: i_send_size is 0, so there is neither a break nor an erase, and   *)
(* the loop tries the same chunk again, both mutexes held.                 *)
FlushSpin ==
    LET l == arg[Worker]
    IN  /\ pc[Worker] = "chunk" /\ m_send_buff_list[l] # <<>>
        /\ Blocked(l) /\ ~sent
        /\ nospace' = IF WriteFails(l) THEN nospace ELSE nospace \cup {l}
        /\ UNCHANGED <<sharedVars, room, wire, peerVars, ready, pc, arg,
                       rest, workVars, histVars>>

FlagAfterFaulty(l) == mb_send_flag
FlagAfter(l) == mb_send_flag \/ m_send_buff_list[l] # <<>>

(* The link's list is empty, or its head could be sent only in part: on to *)
(* the next link, with the flag up again if something is left.             *)
FlushLeave ==
    LET l == arg[Worker]
    IN  /\ pc[Worker] = "chunk"
        /\ m_send_buff_list[l] = <<>> \/ (Blocked(l) /\ sent)
        /\ mb_send_flag' = FlagAfter(l)
        /\ mo_send_buff_list_lock' = ListUnlocked(l)
        /\ todo' = todo \ {l}
        /\ sent' = FALSE
        /\ Enter(Worker, "scan", None)
        /\ nospace' = IF m_send_buff_list[l] = <<>> \/ WriteFails(l)
                      THEN nospace ELSE nospace \cup {l}
        /\ UNCHANGED <<tableVars, m_send_buff_list, mi_socket, room, wire,
                       peerVars, ready, rest, batchVars, histVars>>

FlushDone ==
    /\ pc[Worker] = "scan" /\ todo = {}
    /\ m_link_lock' = None
    /\ Goto(Worker, "wait")
    /\ UNCHANGED <<m_maplink, mb_send_flag, listVars, mi_socket, osVars,
                   arg, rest, workVars, histVars>>

-----------------------------------------------------------------------------
LinkDestroy(t) == DelSendBuff(t) \/ DelLink(t) \/ DestroySocket(t)

(* What a thread does once it is inside a call.                            *)
InCall(t) == SendWrite(t) \/ SendError(t) \/ SendPush(t) \/ SendFlag(t) \/ LinkDestroy(t)

Flush == \/ FlushCheck \/ FlushClear \/ FlushLock
         \/ \E l \in Links : FlushVisit(l)
         \/ FlushWrite \/ FlushSpin \/ FlushLeave \/ FlushDone

WorkerStep == \/ EpollWait \/ BatchDone
              \/ \E l \in Links : HandleEvent(l)
              \/ LinkDestroy(Worker)
              \/ Flush

Environment == \/ \E l \in Links : AddTcpLink(l) \/ Drain(l) \/ Arrives(l) \/ PeerCloses(l)
               \/ Interrupted

Next == \/ \E t \in App, l \in Links : SendFind(t, l) \/ DestroyFind(t, l)
        \/ \E t \in App : InCall(t)
        \/ WorkerStep
        \/ Environment

Spec == Init /\ [][Next]_vars

(* Threads keep running, peers keep reading; nothing obliges anyone to     *)
(* call the API, nor a signal to come.  With Traffic, data keeps arriving  *)
(* on every link.                                                          *)
Fairness == /\ WF_vars(WorkerStep)
            /\ \A t \in App : WF_vars(InCall(t))
            /\ \A l \in Links : WF_vars(Drain(l)) /\ WF_vars(Arrives(l))

FairSpec == Spec /\ Fairness

-----------------------------------------------------------------------------
(* Correctness.                                                            *)

FlushWillVisit(l) == pc[Worker] = "lock" \/ l \in todo

AboutToFlag(l) == \E t \in App : pc[t] = "flag" /\ arg[t] = l

(* No unsent data of a link in the table is forgotten: the flag is up, or  *)
(* the sender that buffered it is about to raise it, or the flush that     *)
(* took the flag down has still to visit the link.  (mb_send_flag is       *)
(* cleared under no lock, tcp-link.cpp:147, and raised in two places.)     *)
NoLostSend ==
    \A l \in m_maplink : m_send_buff_list[l] # <<>> =>
        mb_send_flag \/ AboutToFlag(l) \/ FlushWillVisit(l)

(* do_send_buff writes only to sockets that are still open: a link it      *)
(* visits cannot be taken to mi_socket = -1 before the flush leaves it,    *)
(* whichever thread is destroying it.                                      *)
FlushWritesOpenSocket ==
    pc[Worker] = "chunk" => /\ arg[Worker] \in m_maplink
                            /\ mi_socket[arg[Worker]] = "open"

(* link_destroy or the hang-up branch has emptied, or is beyond emptying,  *)
(* the list of l.                                                          *)
Dropped(l) == \/ mi_socket[l] # "open" \/ l \notin m_maplink
              \/ \E t \in Threads : arg[t] = l /\ pc[t] \in {"destLink", "discLink"}

(* Where the bytes of message m are in the stream of link l.               *)
OnWire(m, l) == {i \in DOMAIN wire[l] : wire[l][i][1] = m}

ChunksOf(m, l) ==
    {<<"list", i, m_send_buff_list[l][i]>> :
        i \in {j \in DOMAIN m_send_buff_list[l] : m_send_buff_list[l][j].msg = m}}
    \cup
    {<<"hand", t, rest[t]>> : t \in {u \in App : pc[u] = "push" /\ rest[u].msg = m}}

(* As long as a link is not being taken down, every message that link_send *)
(* has begun is on the wire in order and without a gap up to some byte k,  *)
(* and the bytes from there on are in one place only: no byte is lost or   *)
(* sent twice, by short writes of link_send and do_send_buff together.     *)
EveryByteOnce ==
    \A m \in DOMAIN log : LET l == log[m] IN  ~Dropped(l) =>
        /\ \A i, j \in OnWire(m, l) : i < j => wire[l][i][2] < wire[l][j][2]
        /\ \E k \in 0..MsgSize :
              /\ {wire[l][i][2] : i \in OnWire(m, l)} = 1..k
              /\ k = MsgSize => ChunksOf(m, l) = {}
              /\ k < MsgSize =>
                    \E p \in {"list", "hand"}, x \in App \cup DOMAIN m_send_buff_list[l] :
                       ChunksOf(m, l) = {<<p, x, [msg |-> m, from |-> k + 1]>>}

Precedes(b, c) == b[1] < c[1] \/ (b[1] = c[1] /\ b[2] < c[2])

(* The stream a peer receives is in the order of the sends, unless a send  *)
(* overtook an earlier one: link_send writes at once although older data   *)
(* is still unsent, or two threads' remainders are pushed in the other     *)
(* order.  do_send_buff itself, its short writes included, never reorders. *)
StreamInOrder ==
    \A l \in Links \ overtaken : \A i, j \in DOMAIN wire[l] :
        i < j => Precedes(wire[l][i], wire[l][j])

(* Both: what the peer reads is every byte once, in the order of the sends *)
(* as far as link_send keeps it.                                           *)
StreamIsIntact == EveryByteOnce /\ StreamInOrder

(* A call of link_destroy comes back (ms_tcp_destroy, check_link_timeout). *)
DestroyReturns ==
    \A t \in App : pc[t] \in DestroyPC ~> pc[t] = "idle"

(* What ms_tcp_send reported as sent, but had to buffer, is handed to the  *)
(* kernel, unless the link goes.                                           *)
BufferedIsSent ==
    \A l \in Links : (l \in m_maplink /\ m_send_buff_list[l] # <<>>)
                        ~> (l \notin m_maplink \/ m_send_buff_list[l] = <<>>)

(* Both as long as no peer resets: the flush, which waits for a full       *)
(* kernel buffer with both mutexes held, comes past every link, and the    *)
(* calls that want a mutex get it.                                         *)
FlushMovesOn ==
    /\ \A t \in App : pc[t] \in DestroyPC ~> (pc[t] = "idle" \/ broken # {})
    /\ \A l \in Links :
        (l \in m_maplink /\ m_send_buff_list[l] # <<>>)
            ~> (l \notin m_maplink \/ m_send_buff_list[l] = <<>> \/ broken # {})
=============================================================================
