------------------------------ MODULE LinkMgr ------------------------------
(***************************************************************************)
(* The sample server's table of clients (LinkMgr, under TestServer) on top *)
(* of the wrapper.  Of the wrapper only LinkContract is used: its steps    *)
(* occur below as Wrapper!Publish, Deliver and Remove, made by the three   *)
(* threads of the server: the worker, the timeout thread and main.  What   *)
(* the threads add is which of them is in which callback, and the locks:   *)
(* mo_link_map_lock of the table and m_link_lock of the wrapper.           *)
(* The timeout thread may take any client at any time, also one that the   *)
(* worker is just creating: the clock may be set, and the time a client is *)
(* stamped with is from before the accept loop (tcp-link.cpp:403).  If its *)
(* CLOSED comes before link_create, or to a link that has no handle yet,   *)
(* it is overtaken, and its HANDLE stays in the table: that is excepted    *)
(* below, by name.                                                         *)
(* A definition named ...Faulty is the one after it with a bug seeded.     *)
(***************************************************************************)
EXTENDS Naturals

CONSTANTS
    Clients,        \* the connections that may be accepted
    Listener,       \* the link Init creates
    NoLink, NoOne   \* INVALID_HTCPLINK; no thread

ConstantsOK ==
    /\ Listener \notin Clients /\ NoLink \notin Clients \cup {Listener}
    /\ NoOne \notin {"worker", "timer", "main"}

Links == Clients \cup {Listener}
Threads == {"worker", "timer", "main"}

VARIABLES
    status, told, hasty,    \* the wrapper: see LinkContract
    open,               \* the links whose mi_socket is not yet -1
    m_link_map,         \* the clients that have a HANDLE
    mh_tcp_link,        \* the listener, once tcp_create has returned
    hlinkvec,           \* link_remove_all: the snapshot that is left to do
    mo_link_map_lock, m_link_lock,      \* holders
    pc, at, ret,        \* of each thread: position, link in hand, where to go on
    destroyed,          \* history: the clients UnInit has destroyed
    unheard,            \* history: the clients whose data found no HANDLE
    overtaken           \* history: those closed before they had a HANDLE

contractVars == <<status, told, hasty>>
locks == <<mo_link_map_lock, m_link_lock>>
history == <<destroyed, unheard, overtaken>>
vars == <<contractVars, open, m_link_map, mh_tcp_link, hlinkvec, locks, pc, at, ret, history>>

Wrapper == INSTANCE LinkContract

WorkerPC == {"idle", "accepted", "link_create", "get_addr", "insert", "found", "hungup",
             "read", "recv_end", "link_recv_data", "recv_data", "flush", "done"}
ClosingPC == {"del_link", "test", "closed", "link_remove"}
SetupPC == {"Init", "created", "addr", "listen"}
MainPC == SetupPC \cup {"serving", "destroy_next", "uninit", "free", "ended"}

TypeOK ==
    /\ status \in [Links -> {"none", "live", "dead"}]
    /\ told \in [Links -> SUBSET Wrapper!Kinds]
    /\ open \subseteq Links
    /\ m_link_map \subseteq Clients
    /\ mh_tcp_link \in {Listener, NoLink}
    /\ hlinkvec \subseteq Clients
    /\ mo_link_map_lock \in Threads \cup {NoOne} /\ m_link_lock \in Threads \cup {NoOne}
    /\ pc \in [Threads -> WorkerPC \cup ClosingPC \cup MainPC]
    /\ pc["worker"] \in WorkerPC \cup ClosingPC
    /\ pc["timer"] \in ClosingPC \cup {"idle", "done"}
    /\ pc["main"] \in ClosingPC \cup MainPC
    /\ at \in [Threads -> Links \cup {NoLink}]
    /\ ret \in [Threads -> WorkerPC \cup MainPC]
    /\ destroyed \subseteq Clients /\ unheard \subseteq Clients
    /\ hasty \subseteq Links /\ overtaken \subseteq Links

Init ==
    /\ Wrapper!Init
    /\ open = Links /\ m_link_map = {} /\ mh_tcp_link = NoLink /\ hlinkvec = {}
    /\ mo_link_map_lock = NoOne /\ m_link_lock = NoOne
    /\ pc = [t \in Threads |-> IF t = "main" THEN "Init" ELSE "idle"]
    /\ at = [t \in Threads |-> NoLink]
    /\ ret = [t \in Threads |-> IF t = "main" THEN "Init" ELSE "idle"]
    /\ destroyed = {} /\ unheard = {} /\ overtaken = {}

Goto(t, label) == pc' = [pc EXCEPT ![t] = label]
Take(t, l, label) == Goto(t, label) /\ at' = [at EXCEPT ![t] = l] /\ UNCHANGED ret
Call(t, l, label, back) ==
    Goto(t, label) /\ at' = [at EXCEPT ![t] = l] /\ ret' = [ret EXCEPT ![t] = back]
Stay == UNCHANGED <<at, ret>>

(* The worker has accepted l and has yet to put it into the table.         *)
Creating == {"accepted", "link_create", "get_addr", "insert"}
IsCreating(l) == at["worker"] = l /\ pc["worker"] \in Creating

-----------------------------------------------------------------------------
(* link_destroy of the wrapper, and the CLOSED callback.                   *)

(* del_link, under m_link_lock; another thread may have been faster.  What *)
(* the callback has not been told of may have no handle to be found by.    *)
DelLink(t) ==
    /\ pc[t] = "del_link" /\ m_link_lock = NoOne
    /\ \/ status[at[t]] = "live" /\ (Wrapper!Remove(at[t]) \/ Wrapper!Hurry(at[t]))
       \/ status[at[t]] # "live" /\ UNCHANGED contractVars
    /\ Goto(t, "test") /\ Stay
    /\ UNCHANGED <<open, m_link_map, mh_tcp_link, hlinkvec, locks, history>>

(* if( mi_socket != -1 )                                                   *)
TestSocket(t) ==
    /\ pc[t] = "test" /\ Goto(t, IF at[t] \in open THEN "closed" ELSE ret[t]) /\ Stay
    /\ UNCHANGED <<contractVars, open, m_link_map, mh_tcp_link, hlinkvec, locks, history>>

TellClosedFaulty(t) ==
    /\ pc[t] = "closed"
    /\ open' = open \ {at[t]}
    /\ Wrapper!Deliver(at[t], "CLOSED")
    /\ Goto(t, ret[t]) /\ Stay
    /\ UNCHANGED <<m_link_map, mh_tcp_link, hlinkvec, locks, history>>
(* mi_socket = -1, then on_tcp_closed; about a link that has no handle yet *)
(* it says nothing to anybody.                                             *)
TellClosed(t) ==
    /\ pc[t] = "closed"
    /\ open' = open \ {at[t]} /\ Stay
    /\ \/ /\ Wrapper!Deliver(at[t], "CLOSED")
          /\ Goto(t, IF at[t] = mh_tcp_link THEN ret[t] ELSE "link_remove")
          /\ UNCHANGED overtaken
       \/ /\ status[at[t]] = "live" /\ ~Wrapper!Announced(at[t])
          /\ overtaken' = overtaken \cup {at[t]}
          /\ Goto(t, ret[t]) /\ UNCHANGED contractVars
    /\ UNCHANGED <<m_link_map, mh_tcp_link, hlinkvec, locks, destroyed, unheard>>

LinkRemoveFaulty(t) ==
    /\ pc[t] = "link_remove" /\ mo_link_map_lock = NoOne
    /\ m_link_map' = IF status[at[t]] = "live" THEN m_link_map ELSE m_link_map \ {at[t]}
    /\ Goto(t, ret[t]) /\ Stay
    /\ UNCHANGED <<contractVars, open, mh_tcp_link, hlinkvec, locks, history>>
(* link_remove: nothing happens if the link is not in the table, as one    *)
(* that is yet to be created.                                              *)
LinkRemove(t) ==
    /\ pc[t] = "link_remove" /\ mo_link_map_lock = NoOne
    /\ m_link_map' = m_link_map \ {at[t]}
    /\ overtaken' = IF IsCreating(at[t]) THEN overtaken \cup {at[t]} ELSE overtaken
    /\ Goto(t, ret[t]) /\ Stay
    /\ UNCHANGED <<contractVars, open, mh_tcp_link, hlinkvec, locks, destroyed, unheard>>

Destroying(t) == DelLink(t) \/ TestSocket(t) \/ TellClosed(t) \/ LinkRemove(t)

-----------------------------------------------------------------------------
(* The worker.                                                             *)

Listening == status[Listener] = "live" /\ ret["main"] \notin SetupPC
(* The client was accepted, registered, and can be found.                  *)
Served(l) == l \in Clients /\ status[l] = "live" /\ Wrapper!Announced(l)

Accept(l) ==
    /\ pc["worker"] = "idle" /\ Listening /\ l \in Clients
    /\ Wrapper!Publish(l)
    /\ Take("worker", l, "accepted")
    /\ UNCHANGED <<open, m_link_map, mh_tcp_link, hlinkvec, locks, history>>
TellAccepted ==
    /\ pc["worker"] = "accepted"
    /\ Wrapper!Deliver(at["worker"], "ACCEPTED")
    /\ Goto("worker", "link_create") /\ Stay
    /\ UNCHANGED <<open, m_link_map, mh_tcp_link, hlinkvec, locks, history>>
(* link_create: takes mo_link_map_lock; a duplicate is refused.            *)
LinkCreate ==
    /\ pc["worker"] = "link_create" /\ mo_link_map_lock = NoOne
    /\ IF at["worker"] \in m_link_map
       THEN Goto("worker", "idle") /\ UNCHANGED mo_link_map_lock
       ELSE Goto("worker", "get_addr") /\ mo_link_map_lock' = "worker"
    /\ Stay
    /\ UNCHANGED <<contractVars, open, m_link_map, mh_tcp_link, hlinkvec, m_link_lock, history>>
GetLinkAddrFaulty ==
    /\ pc["worker"] = "get_addr" /\ m_link_lock = NoOne
    /\ m_link_lock' = "worker"
    /\ Goto("worker", "insert") /\ Stay
    /\ UNCHANGED <<contractVars, open, m_link_map, mh_tcp_link, hlinkvec, mo_link_map_lock, history>>
(* tcp_get_link_addr: m_link_lock is taken, and given back, in find_link.  *)
GetLinkAddr ==
    /\ pc["worker"] = "get_addr" /\ m_link_lock = NoOne
    /\ Goto("worker", "insert") /\ Stay
    /\ UNCHANGED <<contractVars, open, m_link_map, mh_tcp_link, hlinkvec, locks, history>>
InsertFaulty ==
    /\ pc["worker"] = "insert"
    /\ m_link_map' = {at["worker"]}
    /\ mo_link_map_lock' = NoOne
    /\ Goto("worker", "idle") /\ Stay
    /\ UNCHANGED <<contractVars, open, mh_tcp_link, hlinkvec, m_link_lock, history>>
Insert ==
    /\ pc["worker"] = "insert"
    /\ m_link_map' = m_link_map \cup {at["worker"]}
    /\ mo_link_map_lock' = NoOne
    /\ Goto("worker", "idle") /\ Stay
    /\ UNCHANGED <<contractVars, open, mh_tcp_link, hlinkvec, m_link_lock, history>>

(* find_link for an event of a client: hang-up, data or end of stream.     *)
FindLink(l) ==
    /\ pc["worker"] = "idle" /\ m_link_lock = NoOne /\ Served(l)
    /\ \/ Take("worker", l, "found")
       \/ l \in open /\ (Take("worker", l, "read") \/ Call("worker", l, "del_link", "recv_end"))
    /\ UNCHANGED <<contractVars, open, m_link_map, mh_tcp_link, hlinkvec, locks, history>>
(* on_tcp_disconnected, in its callback                                    *)
HangUp ==
    /\ pc["worker"] = "found"
    /\ Wrapper!Deliver(at["worker"], "DISCONNECTED")
    /\ Call("worker", at["worker"], "link_remove", "hungup")
    /\ UNCHANGED <<open, m_link_map, mh_tcp_link, hlinkvec, locks, history>>
(* After DISCONNECTED the worker removes the link and says no more.        *)
HungUp ==
    /\ pc["worker"] = "hungup" /\ m_link_lock = NoOne
    /\ IF status[at["worker"]] = "live" THEN Wrapper!Remove(at["worker"]) ELSE UNCHANGED contractVars
    /\ Goto("worker", "idle") /\ Stay
    /\ UNCHANGED <<open, m_link_map, mh_tcp_link, hlinkvec, locks, history>>

(* RECEIVEDATA, also after the end of the stream has closed the link.      *)
TellData ==
    /\ pc["worker"] \in {"read", "recv_end"}
    /\ Wrapper!Deliver(at["worker"], "RECEIVEDATA")
    /\ Goto("worker", "link_recv_data") /\ Stay
    /\ UNCHANGED <<open, m_link_map, mh_tcp_link, hlinkvec, locks, history>>
LinkRecvDataFaulty ==
    /\ pc["worker"] = "link_recv_data" /\ mo_link_map_lock = NoOne
    /\ IF at["worker"] \in m_link_map
       THEN Goto("worker", "recv_data") /\ UNCHANGED <<unheard, mo_link_map_lock>>
       ELSE /\ Goto("worker", "idle") /\ unheard' = unheard \cup {at["worker"]}
            /\ mo_link_map_lock' = "worker"
    /\ Stay
    /\ UNCHANGED <<contractVars, open, m_link_map, mh_tcp_link, hlinkvec, m_link_lock, destroyed, overtaken>>
(* link_recv_data: the table is looked up under the lock.                  *)
LinkRecvData ==
    /\ pc["worker"] = "link_recv_data" /\ mo_link_map_lock = NoOne
    /\ IF at["worker"] \in m_link_map
       THEN Goto("worker", "recv_data") /\ UNCHANGED unheard
       ELSE Goto("worker", "idle") /\ unheard' = unheard \cup {at["worker"]}
    /\ Stay
    /\ UNCHANGED <<contractVars, open, m_link_map, mh_tcp_link, hlinkvec, locks, destroyed, overtaken>>
(* recv_data, without the lock: the answer finds its link, or not.         *)
RecvData ==
    /\ pc["worker"] = "recv_data" /\ m_link_lock = NoOne
    /\ Goto("worker", "idle") /\ Stay
    /\ UNCHANGED <<contractVars, open, m_link_map, mh_tcp_link, hlinkvec, locks, history>>

(* do_send_buff holds m_link_lock from beginning to end, and if it has     *)
(* data for a connection that was reset it has no end (SendBuff).          *)
Flush ==
    /\ pc["worker"] = "idle" /\ m_link_lock = NoOne
    /\ m_link_lock' = "worker" /\ Goto("worker", "flush") /\ Stay
    /\ UNCHANGED <<contractVars, open, m_link_map, mh_tcp_link, hlinkvec, mo_link_map_lock, history>>
EndFlush ==
    /\ pc["worker"] = "flush"
    /\ m_link_lock' = NoOne /\ Goto("worker", "idle") /\ Stay
    /\ UNCHANGED <<contractVars, open, m_link_map, mh_tcp_link, hlinkvec, mo_link_map_lock, history>>

WorkerStep == \/ TellAccepted \/ LinkCreate \/ GetLinkAddr \/ Insert \/ HangUp \/ HungUp
              \/ TellData \/ LinkRecvData \/ RecvData

-----------------------------------------------------------------------------
(* The timeout thread: it destroys a client that the clock says is silent. *)

Expire(l) ==
    /\ pc["timer"] = "idle" /\ m_link_lock = NoOne /\ status[l] = "live"
    /\ Call("timer", l, "del_link", "idle")
    /\ UNCHANGED <<contractVars, open, m_link_map, mh_tcp_link, hlinkvec, locks, history>>

(* Both threads leave when main waits for them.                            *)
Exit(t) ==
    /\ t \in {"worker", "timer"} /\ pc[t] = "idle" /\ pc["main"] = "uninit"
    /\ Goto(t, "done") /\ Stay
    /\ UNCHANGED <<contractVars, open, m_link_map, mh_tcp_link, hlinkvec, locks, history>>

-----------------------------------------------------------------------------
(* main: Init, UnInit, ms_tcp_uninit.                                      *)

TcpCreate ==
    /\ pc["main"] = "Init" /\ m_link_lock = NoOne
    /\ Wrapper!Publish(Listener)
    /\ Take("main", Listener, "created")
    /\ UNCHANGED <<open, m_link_map, mh_tcp_link, hlinkvec, locks, history>>
TellCreated ==
    /\ pc["main"] = "created"
    /\ Wrapper!Deliver(Listener, "CREATED")
    /\ Goto("main", "addr") /\ Stay
    /\ UNCHANGED <<open, m_link_map, mh_tcp_link, hlinkvec, locks, history>>
(* on_tcp_created asks for the address; mh_tcp_link is set after it.       *)
Created ==
    /\ pc["main"] = "addr" /\ m_link_lock = NoOne
    /\ mh_tcp_link' = Listener
    /\ Goto("main", "listen") /\ Stay
    /\ UNCHANGED <<contractVars, open, m_link_map, hlinkvec, locks, history>>
Listen ==
    /\ pc["main"] = "listen" /\ m_link_lock = NoOne
    /\ Call("main", NoLink, "serving", "serving")
    /\ UNCHANGED <<contractVars, open, m_link_map, mh_tcp_link, hlinkvec, locks, history>>

UnInitFaulty ==
    /\ pc["main"] = "serving" /\ mo_link_map_lock = NoOne
    /\ hlinkvec' = {l \in Links : status[l] = "live"}
    /\ Goto("main", "destroy_next") /\ Stay
    /\ UNCHANGED <<contractVars, open, m_link_map, mh_tcp_link, locks, history>>
(* UnInit, link_remove_all: the snapshot, ...                              *)
UnInit ==
    /\ pc["main"] = "serving" /\ mo_link_map_lock = NoOne
    /\ hlinkvec' = m_link_map
    /\ Goto("main", "destroy_next") /\ Stay
    /\ UNCHANGED <<contractVars, open, m_link_map, mh_tcp_link, locks, history>>
DestroyNextFaulty ==
    /\ pc["main"] = "destroy_next" /\ m_link_lock = NoOne
    /\ IF hlinkvec = {}
       THEN /\ UNCHANGED <<hlinkvec, destroyed>>
            /\ IF status[Listener] = "live"
               THEN Call("main", mh_tcp_link, "del_link", "uninit")
               ELSE Call("main", NoLink, "uninit", "uninit")
       ELSE \E l \in hlinkvec :
            /\ hlinkvec' = {} /\ destroyed' = destroyed \cup hlinkvec
            /\ IF status[l] = "live" THEN Call("main", l, "del_link", "destroy_next")
               ELSE UNCHANGED <<pc, at, ret>>
    /\ UNCHANGED <<contractVars, open, m_link_map, mh_tcp_link, locks, unheard, overtaken>>
(* ... tcp_destroy of each, then of the listener.                          *)
DestroyNext ==
    /\ pc["main"] = "destroy_next" /\ m_link_lock = NoOne
    /\ IF hlinkvec = {}
       THEN /\ UNCHANGED <<hlinkvec, destroyed>>
            /\ IF status[Listener] = "live"
               THEN Call("main", mh_tcp_link, "del_link", "uninit")
               ELSE Call("main", NoLink, "uninit", "uninit")
       ELSE \E l \in hlinkvec :
            /\ hlinkvec' = hlinkvec \ {l} /\ destroyed' = destroyed \cup {l}
            /\ IF status[l] = "live" THEN Call("main", l, "del_link", "destroy_next")
               ELSE UNCHANGED <<pc, at, ret>>
    /\ UNCHANGED <<contractVars, open, m_link_map, mh_tcp_link, locks, unheard, overtaken>>

(* ms_tcp_uninit: the threads are joined, what is left is destroyed.       *)
TcpUninit ==
    /\ pc["main"] = "uninit" /\ pc["worker"] = "done" /\ pc["timer"] = "done"
    /\ Call("main", NoLink, "free", "free")
    /\ UNCHANGED <<contractVars, open, m_link_map, mh_tcp_link, hlinkvec, locks, history>>
FreeAllFaulty ==
    /\ pc["main"] = "free" /\ Goto("main", "ended") /\ Stay
    /\ UNCHANGED <<contractVars, open, m_link_map, mh_tcp_link, hlinkvec, locks, history>>
FreeAll ==
    /\ pc["main"] = "free"
    /\ LET left == {l \in Links : status[l] = "live"}
       IN  IF left = {} THEN Goto("main", "ended") /\ Stay
           ELSE \E l \in left : Call("main", l, "del_link", "free")
    /\ UNCHANGED <<contractVars, open, m_link_map, mh_tcp_link, hlinkvec, locks, history>>

MainStep == \/ TcpCreate \/ TellCreated \/ Created \/ Listen
            \/ DestroyNext \/ TcpUninit \/ FreeAll

(* The server has ended.                                                   *)
Ended == pc["main"] = "ended" /\ UNCHANGED vars

Next ==
    \/ \E l \in Clients : Accept(l) \/ FindLink(l) \/ Expire(l)
    \/ \E t \in Threads : Destroying(t) \/ Exit(t)
    \/ WorkerStep \/ Flush \/ EndFlush \/ MainStep \/ UnInit \/ Ended

Spec == Init /\ [][Next]_vars

(* The threads run, and callbacks are left; nothing makes clients come or  *)
(* go, or main end the server, and a flush need not end.  A lock that is   *)
(* contended and let go of again and again is had in the end.              *)
FairSpec ==
    /\ Spec
    /\ \A t \in Threads : SF_vars(Destroying(t)) /\ SF_vars(Exit(t))
    /\ SF_vars(WorkerStep) /\ SF_vars(MainStep)

-----------------------------------------------------------------------------
(* Safety.                                                                 *)

Gone(l) == told[l] \cap Wrapper!Farewells # {}
LeavingIt(t, l) == at[t] = l /\ pc[t] \in {"del_link", "test", "closed", "link_remove"}

(* No zombie: a client that the wrapper has removed is in the table only   *)
(* while a thread is about to take it out (link_create on the worker       *)
(* against on_tcp_closed on any thread), unless it was overtaken.          *)
NoZombie ==
    \A l \in m_link_map \ overtaken :
        status[l] = "dead" => \E t \in Threads : LeavingIt(t, l)

(* A client that is connected and was not reported gone has its HANDLE, as *)
(* soon as its ACCEPTED callback has returned: what one thread removes is  *)
(* never another's client (link_create, link_remove).                      *)
ClientIsKnown ==
    \A l \in Clients : Served(l) /\ ~Gone(l) /\ ~IsCreating(l) => l \in m_link_map

(* Data finds no HANDLE only when the client has been reported gone: no    *)
(* client that is served is ignored (link_recv_data).                      *)
UnheardIsGone == \A l \in unheard : Gone(l)

(* UnInit destroys a snapshot: of the clients in it none stays in the      *)
(* table, unless a thread has its removal in hand or it was overtaken; one *)
(* accepted meanwhile may stay (link_remove_all).                          *)
SnapshotIsRemoved ==
    \A l \in (m_link_map \cap destroyed) \ overtaken : \E t \in Threads : LeavingIt(t, l)

(* When main has called UnInit and ms_tcp_uninit no client is left but the *)
(* overtaken, those accepted after the snapshot included, no link can be   *)
(* found, and every one has been reported gone but one that was closed     *)
(* before it had a handle (main.cpp, UnInit, free_all_link_map).           *)
UnInitLeavesNothing ==
    pc["main"] = "ended" =>
        /\ m_link_map \subseteq overtaken
        /\ \A l \in Links : status[l] # "none" =>
               status[l] = "dead" /\ (Gone(l) \/ l \in overtaken \cap hasty)

-----------------------------------------------------------------------------
(* Liveness.                                                               *)

(* No flush holds m_link_lock for ever: it does over a connection that was *)
(* reset while data for it was waiting (SendBuff).                         *)
FlushEnds == []<>(pc["worker"] # "flush")

(* A client that is gone is taken out of the table in the end, but one     *)
(* that was overtaken.                                                     *)
DeadIsForgotten == FlushEnds =>
    \A l \in Clients : (status[l] = "dead") ~> (l \notin m_link_map \/ l \in overtaken)

(* No callback waits for ever: the two locks are never wanted crosswise.   *)
InCallback(t) == pc[t] \in {"link_remove", "link_create", "get_addr", "addr", "link_recv_data"}
CallbackReturns == FlushEnds => \A t \in Threads : InCallback(t) ~> ~InCallback(t)

(* UnInit and ms_tcp_uninit return, whatever the other threads are at.     *)
UnInitReturns == FlushEnds => (pc["main"] = "destroy_next") ~> (pc["main"] = "ended")
=============================================================================
