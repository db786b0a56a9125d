--------------------------- MODULE TcpLinkProofs ----------------------------
(***************************************************************************)
(* Proofs about TcpLink, for every value of its constants: any number of   *)
(* links and application threads.  All its safety properties follow from   *)
(* one inductive invariant, IInv, a conjunction of seven parts; each part  *)
(* has a lemma saying that it holds after a step if it, and the parts it   *)
(* leans on, hold before.                                                  *)
(***************************************************************************)
EXTENDS TcpLink, TLAPS

(* The names of sets of threads and of tuples of variables are expanded    *)
(* throughout.                                                             *)
USE DEF Threads, osVars, histVars, endVars, batchVars, workVars

-----------------------------------------------------------------------------
(* The inductive invariant.                                                *)

(* A thread at one of these labels works on the link arg.                  *)
ArgPC == DestroyPC \cup AttachPC \cup
         {"destFound", "tellCreated", "connect", "tellConnected", "tellFailed", "listen",
          "tellDisc", "discLink", "setLink", "tellAccepted", "read", "readEnd"}

(* ... and, but for these, the application knows the link.                 *)
NewPC   == {"tellCreated", "setLink", "tellAccepted"}
KnownPC == ArgPC \ NewPC

ArgInv ==
    /\ \A t \in Threads : pc[t] \in ArgPC => arg[t] \in Links
    /\ pc[Worker] \in AttachPC \cup {"accept", "setLink", "tellAccepted"} => listener \in Links

TypeInv == TypeOK /\ ArgInv

(* A link without an object is in nobody's hands; it waits on at most one  *)
(* listener.                                                               *)
FreshInv ==
    /\ \A l \in Links : ~Published(l) =>
          /\ told[l] = {} /\ l \notin m_maplink \cup listening /\ m_link_type[l] = "Null"
          /\ \A t \in Threads : l \notin todo[t] /\ (arg[t] = l => pc[t] \notin ArgPC)
    /\ \A l, n \in Links : n \in backlog[l] => mi_socket[n] = "queued"
    /\ \A k, l \in Links : backlog[k] \cap backlog[l] # {} => k = l

(* Whoever may come to work on a link, the application was told of it; but *)
(* the timeout thread may be at one before, which is then hasty.           *)
HandsKnown == \A t \in Threads : pc[t] \in KnownPC =>
                 \/ Announced(arg[t])
                 \/ t = Timer /\ (pc[t] = "destLink" \/ arg[t] \in hasty)
TodoKnown  == \A t \in Threads \ {Timer} : \A l \in todo[t] : Announced(l)
EpollKnown == \A l \in registered \cup ready \cup batchHup \cup batchIn : Announced(l)
TableKnown == \A l \in m_maplink : Announced(l) \/ At(l, NewPC)
UntoldYet  == pc[Worker] = "setLink" =>
                 /\ ~Announced(arg[Worker])
                 /\ \A t \in App : pc[t] = "tellCreated" => arg[t] # arg[Worker]

KnownInv == AnnouncedFirst /\ HandsKnown /\ TodoKnown /\ EpollKnown /\ TableKnown /\ UntoldYet

(* A link being closed is out of the table for good, and one whose socket  *)
(* is gone was reported, or is about to be; unless it is hasty.            *)
ClosingGone  == \A t \in Threads :
                    pc[t] \in {"destCheck", "destSet", "destTell"} =>
                        arg[t] \notin m_maplink \/ arg[t] \in hasty
SocketTold   == \A l \in Links \ hasty :
                    mi_socket[l] = "none" => Goodbye(l) \/ At(l, {"destTell",
                    "tellFailed"})
HangupTold   == pc[Worker] = "discLink" => Goodbye(arg[Worker])

GoneInv == ClosedMeansGone /\ ClosingGone /\ SocketTold /\ HangupTold /\ RemovedIsTold

(* CLOSED is delivered for sockets only that are gone; and while no two    *)
(* threads overlap in link_destroy, it was not yet when one is about to.   *)
TellingNone  == \A t \in Threads : pc[t] = "destTell" => mi_socket[arg[t]] = "none"
ClosedNone   == \A l \in Links : closes[l] > 0 => mi_socket[l] = "none"
OneDestroyer == \A l \in Links \ raced : \A t, u \in Threads :
                    /\ pc[t] \in DestroyPC /\ arg[t] = l
                    /\ pc[u] \in DestroyPC /\ arg[u] = l
                    => t = u
ClosingFirst == \A l \in Links \ raced : \A t \in Threads :
                    pc[t] \in {"destSet", "destTell"} /\ arg[t] = l => closes[l] = 0

CloseInv == TellingNone /\ ClosedNone /\ OneDestroyer /\ ClosingFirst /\ OneClosedUnlessRaced

(* ms_tcp_uninit runs alone, and outlives the other threads.               *)
EndPC == {"joinWorker", "joinTimer", "freeAll", "freeing", "ended"}
EndInv ==
    /\ \A t \in App : pc[t] \in EndPC => t = ender
    /\ ender # None =>
          /\ pc[ender] \in EndPC \cup DestroyPC
          /\ \A t \in App \ {ender} : pc[t] = "idle"
          /\ pc[ender] # "joinWorker" => pc[Worker] = "done"
          /\ pc[ender] \notin {"joinWorker", "joinTimer"} => pc[Timer] = "done"
          /\ pc[ender] \in DestroyPC \cup {"freeing", "ended"} =>
                \A l \in m_maplink : \/ l \in todo[ender]
                                     \/ pc[ender] = "destLink" /\ arg[ender] = l
          /\ pc[ender] = "ended" => todo[ender] = {}

IInv == TypeInv /\ FreshInv /\ KnownInv /\ GoneInv /\ NoDeafLink /\ CloseInv /\ EndInv

LEMMA Initially == Init => IInv
  <1> SUFFICES ASSUME Init PROVE IInv
    OBVIOUS
  <1> USE NameAssumption DEF Init
  <1>1. /\ \A t \in App : pc[t] = "idle"
        /\ pc[Worker] = "wait" /\ pc[Timer] = "check"
        /\ \A t \in Threads : pc[t] \in {"idle", "wait", "check"}
    OBVIOUS
  <1>2. TypeInv
    <2>1. TypeOK
      BY <1>1 DEF TypeOK, LinkType, AppPC, WorkerPC, TimerPC
    <2>2. ArgInv
      BY <1>1 DEF ArgInv, ArgPC, DestroyPC, AttachPC
    <2> QED
      BY <2>1, <2>2 DEF TypeInv
  <1>3. FreshInv
    BY <1>1 DEF FreshInv, ArgPC, DestroyPC, AttachPC
  <1>4. KnownInv
    BY <1>1 DEF KnownInv, AnnouncedFirst, HandsKnown, TodoKnown, EpollKnown, TableKnown,
                UntoldYet, KnownPC, NewPC, ArgPC, DestroyPC, AttachPC
  <1>5. GoneInv
    BY <1>1 DEF GoneInv, ClosedMeansGone, ClosingGone, SocketTold, HangupTold,
                RemovedIsTold, Published
  <1>6. NoDeafLink /\ CloseInv
    BY <1>1
    DEF NoDeafLink, CloseInv, TellingNone, ClosedNone, OneDestroyer, ClosingFirst,
                OneClosedUnlessRaced, DestroyPC
  <1>7. EndInv
    BY <1>1 DEF EndInv, EndPC
  <1> QED
    BY <1>2, <1>3, <1>4, <1>5, <1>6, <1>7 DEF IInv

(* Variables keep their types, and who needs a link has one.               *)
LEMMA TypeStep == TypeInv /\ [Next]_vars => TypeInv'
  <1> SUFFICES ASSUME TypeInv, [Next]_vars PROVE TypeInv'
    OBVIOUS
  <1> USE NameAssumption
         DEF Goto, Enter, Tell, Announced, AppPC, WorkerPC, TimerPC, DestroyPC,
             AttachPC,
             Event, LinkType, TypeInv, TypeOK, ArgInv, ArgPC
  <1>1. ASSUME NEW t \in App, NEW l \in Links, Create(t, l) PROVE TypeInv'
    BY <1>1 DEF Create, MayCall
  <1>2. ASSUME NEW t \in App, NEW l \in Links, FindUnused(t, l) PROVE TypeInv'
    BY <1>2 DEF FindUnused, MayCall, Knows, Unused
  <1>3. ASSUME NEW t \in App, NEW l \in Links, Destroy(t, l) PROVE TypeInv'
    BY <1>3 DEF Destroy, MayCall, Knows
  <1>4. ASSUME NEW t \in App, Uninit(t) PROVE TypeInv'
    BY <1>4 DEF Uninit, MayCall
  <1>5. ASSUME NEW t \in App, Connect(t) PROVE TypeInv'
    BY <1>5 DEF Connect
  <1>6. ASSUME NEW t \in App, Listen(t) PROVE TypeInv'
    BY <1>6 DEF Listen
  <1>7. ASSUME NEW t \in App, TellApp(t) PROVE TypeInv'
    BY <1>7 DEF TellApp
  <1>8. ASSUME NEW t \in Threads, AttachGet(t) PROVE TypeInv'
    BY <1>8 DEF AttachGet, AfterAttach
  <1>9. ASSUME NEW t \in Threads, AttachCtl(t) PROVE TypeInv'
    BY <1>9 DEF AttachCtl, AfterAttach, Attached
  <1>10. ASSUME NEW t \in App, DestroyFound(t) PROVE TypeInv'
    BY <1>10 DEF DestroyFound, EnterDestroy
  <1>11. ASSUME NEW t \in Threads, DelLink(t) PROVE TypeInv'
    BY <1>11 DEF DelLink, Erased, MhLink, Nameless
  <1>12. ASSUME NEW t \in Threads, DestroyCheck(t) PROVE TypeInv'
    BY <1>12 DEF DestroyCheck, DestroyReturn
  <1>13. ASSUME NEW t \in Threads, DestroySet(t) PROVE TypeInv'
    BY <1>13 DEF DestroySet, Edge, SocketGone
  <1>14. ASSUME NEW t \in Threads, DestroyTell(t) PROVE TypeInv'
    BY <1>14 DEF DestroyTell, DestroyReturn
  <1>15. ASSUME NEW t \in Threads, NEW l \in Links, NextDestroy(t, l) PROVE TypeInv'
    BY <1>15 DEF NextDestroy, EnterDestroy
  <1>16. ASSUME NEW t \in Threads, AllDestroyed(t) PROVE TypeInv'
    BY <1>16 DEF AllDestroyed
  <1>17. ASSUME NEW t \in App, JoinWorker(t) PROVE TypeInv'
    BY <1>17 DEF JoinWorker
  <1>18. ASSUME NEW t \in App, JoinTimer(t) PROVE TypeInv'
    BY <1>18 DEF JoinTimer
  <1>19. ASSUME NEW t \in App, FreeAll(t) PROVE TypeInv'
    BY <1>19 DEF FreeAll, LinksToFree
  <1>20. ASSUME EpollWait PROVE TypeInv'
    BY <1>20 DEF EpollWait
  <1>21. ASSUME TakeExit PROVE TypeInv'
    BY <1>21 DEF TakeExit
  <1>22. ASSUME BatchDone PROVE TypeInv'
    BY <1>22 DEF BatchDone, Handled
  <1>23. ASSUME NEW l \in Links, TakeStale(l) PROVE TypeInv'
    BY <1>23 DEF TakeStale, Take
  <1>24. ASSUME NEW l \in Links, TakeHup(l) PROVE TypeInv'
    BY <1>24 DEF TakeHup, Take
  <1>25. ASSUME NEW l \in Links, TakeListen(l) PROVE TypeInv'
    BY <1>25 DEF TakeListen, Take
  <1>26. ASSUME NEW l \in Links, TakeConnected(l) PROVE TypeInv'
    BY <1>26 DEF TakeConnected, Take
  <1>27. ASSUME NEW l \in Links, TakeRead(l) PROVE TypeInv'
    BY <1>27 DEF TakeRead, Take
  <1>28. ASSUME TellDisc PROVE TypeInv'
    BY <1>28 DEF TellDisc
  <1>29. ASSUME NEW l \in Links, Accept(l) PROVE TypeInv'
    BY <1>29 DEF Accept
  <1>30. ASSUME TellAccepted PROVE TypeInv'
    BY <1>30 DEF TellAccepted
  <1>31. ASSUME AcceptDone PROVE TypeInv'
    BY <1>31 DEF AcceptDone
  <1>32. ASSUME Read PROVE TypeInv'
    BY <1>32 DEF Read, EnterDestroy
  <1>33. ASSUME ReadEnd PROVE TypeInv'
    BY <1>33 DEF ReadEnd
  <1>34. ASSUME TimerCheck PROVE TypeInv'
    BY <1>34 DEF TimerCheck, Expirable, CheckAlive
  <1>35. ASSUME TimerStop PROVE TypeInv'
    BY <1>35 DEF TimerStop
  <1>36. ASSUME NEW l \in Links, Arrives(l) PROVE TypeInv'
    BY <1>36 DEF Arrives
  <1>37. ASSUME NEW l \in Links, PeerCloses(l) PROVE TypeInv'
    BY <1>37 DEF PeerCloses, Edge
  <1>38. ASSUME NEW l \in Links, NEW n \in Links, PeerConnects(l, n) PROVE TypeInv'
    BY <1>38 DEF PeerConnects, Edge
  <1>39. ASSUME SetLink PROVE TypeInv'
    BY <1>39 DEF SetLink
  <1>40. ASSUME Flush PROVE TypeInv'
    BY <1>40 DEF Flush, Handled
  <1>41. ASSUME FlushEnds PROVE TypeInv'
    BY <1>41 DEF FlushEnds
  <1>42. CASE UNCHANGED vars
    BY <1>42, SMTT(30) DEF vars
  <1> QED
    BY Zenon, <1>1, <1>2, <1>3, <1>4, <1>5, <1>6, <1>7, <1>8, <1>9, <1>10, <1>11, <1>12,
       <1>13, <1>14, <1>15, <1>16, <1>17, <1>18, <1>19, <1>20, <1>21, <1>22, <1>23,
       <1>24, <1>25, <1>26, <1>27, <1>28, <1>29, <1>30, <1>31, <1>32, <1>33, <1>34,
       <1>35, <1>36, <1>37, <1>38, <1>39, <1>40, <1>41, <1>42
       DEF Next, Call, AppStep, WorkerStep, TimerStep, Environment, LinkDestroy, Attach,
           DestroyEach, End

-----------------------------------------------------------------------------
(* What a step leaves alone: who writes the table, the sockets, the        *)
(* history, epoll's lists.                                                 *)

LEMMA ToldFrame ==
    ASSUME [Next]_vars
    PROVE  \/ UNCHANGED told
           \/ \E t \in App : TellApp(t)
           \/ \E t \in Threads : DestroyTell(t)
           \/ TellDisc \/ TellAccepted \/ Read \/ ReadEnd
  BY DEF vars, Next, Call, AppStep, WorkerStep, TimerStep, Environment, LinkDestroy,
         Attach,
         DestroyEach, End, Create, FindUnused, Connect, Listen, AttachGet, AttachCtl,
         Destroy,
         DestroyFound, DelLink, DestroyCheck, DestroySet, EpollWait, TakeExit, Take,
         TakeStale,
         TakeHup, TakeListen, TakeConnected, TakeRead, Accept, AcceptDone, BatchDone,
         Flush, FlushEnds, SetLink,
         TimerCheck, TimerStop, NextDestroy, AllDestroyed, Uninit, JoinWorker,
         JoinTimer,
         FreeAll, Arrives, PeerConnects, PeerCloses

LEMMA TableFrame ==
    ASSUME [Next]_vars
    PROVE  \/ UNCHANGED m_maplink
           \/ \E t \in App, l \in Links : Create(t, l)
           \/ \E l \in Links : Accept(l)
           \/ \E t \in Threads : DelLink(t)
  BY DEF vars, Next, Call, AppStep, WorkerStep, TimerStep, Environment, LinkDestroy,
         Attach,
         DestroyEach, End, FindUnused, Connect, Listen, TellApp, AttachGet, AttachCtl,
         Destroy,
         DestroyFound, DestroyCheck, DestroySet, DestroyTell, EpollWait, TakeExit, Take,
         TakeStale, TakeHup, TakeListen, TakeConnected, TakeRead, TellDisc,
         TellAccepted,
         AcceptDone, Read, ReadEnd, BatchDone, Flush, FlushEnds, SetLink, TimerCheck,
         TimerStop, NextDestroy,
         AllDestroyed, Uninit, JoinWorker, JoinTimer, FreeAll, Arrives, PeerConnects,
         PeerCloses

LEMMA SocketFrame ==
    ASSUME [Next]_vars
    PROVE  \/ UNCHANGED mi_socket
           \/ \E t \in App, l \in Links : Create(t, l)
           \/ \E t \in App : Connect(t)
           \/ \E l \in Links : Accept(l)
           \/ \E t \in Threads : DestroySet(t)
           \/ \E l, n \in Links : PeerConnects(l, n)
  BY DEF vars, Next, Call, AppStep, WorkerStep, TimerStep, Environment, LinkDestroy,
         Attach,
         DestroyEach, End, FindUnused, Listen, TellApp, AttachGet, AttachCtl, Destroy,
         DestroyFound, DelLink, DestroyCheck, DestroyTell, EpollWait, TakeExit, Take,
         TakeStale, TakeHup, TakeListen, TakeConnected, TakeRead, TellDisc,
         TellAccepted,
         AcceptDone, Read, ReadEnd, BatchDone, Flush, FlushEnds, SetLink, TimerCheck,
         TimerStop, NextDestroy,
         AllDestroyed, Uninit, JoinWorker, JoinTimer, FreeAll, Arrives, PeerCloses

LEMMA RoleFrame ==
    ASSUME [Next]_vars
    PROVE  \/ UNCHANGED <<m_link_type, listening>>
           \/ \E t \in App : Connect(t) \/ Listen(t)
           \/ \E t \in Threads : DestroySet(t)
           \/ \E l \in Links : Accept(l) \/ TakeConnected(l)
  BY DEF vars, Next, Call, AppStep, WorkerStep, TimerStep, Environment, LinkDestroy,
         Attach,
         DestroyEach, End, Create, FindUnused, TellApp, AttachGet, AttachCtl, Destroy,
         DestroyFound, DelLink, DestroyCheck, DestroyTell, EpollWait, TakeExit, Take,
         TakeStale, TakeHup, TakeListen, TakeRead, TellDisc, TellAccepted, AcceptDone,
         Read,
         ReadEnd, BatchDone, Flush, FlushEnds, SetLink, TimerCheck, TimerStop,
         NextDestroy, AllDestroyed, Uninit,
         JoinWorker, JoinTimer, FreeAll, Arrives, PeerConnects, PeerCloses

LEMMA TodoFrame ==
    ASSUME [Next]_vars
    PROVE  \/ UNCHANGED todo
           \/ \E t \in App \cup {Timer}, l \in Links : NextDestroy(t, l)
           \/ TimerCheck
           \/ \E t \in App : FreeAll(t)
  BY DEF vars, Next, Call, AppStep, WorkerStep, TimerStep, Environment, LinkDestroy,
         Attach,
         DestroyEach, End, Create, FindUnused, Connect, Listen, TellApp, AttachGet,
         AttachCtl,
         Destroy, DestroyFound, DelLink, DestroyCheck, DestroySet, DestroyTell,
         EpollWait,
         TakeExit, Take, TakeStale, TakeHup, TakeListen, TakeConnected, TakeRead,
         TellDisc,
         Accept, TellAccepted, AcceptDone, Read, ReadEnd, BatchDone, Flush, FlushEnds,
         SetLink, TimerStop, AllDestroyed,
         Uninit, JoinWorker, JoinTimer, Arrives, PeerConnects, PeerCloses

(* Only AttachCtl adds to the interest list, and only a socket in it gets  *)
(* an edge or an event.                                                    *)
LEMMA EpollFrame ==
    ASSUME [Next]_vars
    PROVE  \/ registered' \cup ready' \cup batchHup' \cup batchIn'
                 \subseteq registered \cup ready \cup batchHup \cup batchIn
           \/ \E t \in Threads : AttachCtl(t)
  BY DEF vars, Next, Call, AppStep, WorkerStep, TimerStep, Environment, LinkDestroy,
         Attach,
         DestroyEach, End, Create, FindUnused, Connect, Listen, TellApp, AttachGet,
         Destroy,
         DestroyFound, DelLink, DestroyCheck, DestroySet, DestroyTell, EpollWait,
         TakeExit,
         Take, TakeStale, TakeHup, TakeListen, TakeConnected, TakeRead, TellDisc,
         Accept,
         TellAccepted, AcceptDone, Read, ReadEnd, BatchDone, Flush, FlushEnds, SetLink,
         TimerCheck, TimerStop,
         NextDestroy, AllDestroyed, Uninit, JoinWorker, JoinTimer, FreeAll, Arrives,
         PeerConnects, PeerCloses, Edge

LEMMA WatchFrame ==
    ASSUME [Next]_vars
    PROVE  \/ registered \subseteq registered'
           \/ \E t \in Threads : DelLink(t)
           \/ Read
           \/ \E t \in App : JoinTimer(t)
  BY SMTT(30)
     DEF vars, Next, Call, AppStep, WorkerStep, TimerStep, Environment, LinkDestroy,
         Attach,
         DestroyEach, End, Create, FindUnused, Connect, Listen, TellApp, AttachGet,
         AttachCtl,
         Attached, Destroy, DestroyFound, DestroyCheck, DestroySet, DestroyTell,
         EpollWait,
         TakeExit, Take, TakeStale, TakeHup, TakeListen, TakeConnected, TakeRead,
         TellDisc,
         Accept, TellAccepted, AcceptDone, ReadEnd, BatchDone, Flush, FlushEnds,
         SetLink, TimerCheck, TimerStop,
         NextDestroy, AllDestroyed, Uninit, JoinWorker, FreeAll, Arrives, PeerConnects,
         PeerCloses

LEMMA CloseFrame ==
    ASSUME [Next]_vars
    PROVE  /\ raced \subseteq raced' /\ hasty \subseteq hasty' /\ refused \subseteq refused'
           /\ UNCHANGED closes \/ \E t \in Threads : DestroyTell(t)
           /\ UNCHANGED hasty \/ \E t \in Threads : DelLink(t)
  BY DEF vars, Next, Call, AppStep, WorkerStep, TimerStep, Environment, LinkDestroy,
         Attach,
         DestroyEach, End, Create, FindUnused, Connect, Listen, TellApp, AttachGet,
         AttachCtl,
         Destroy, DestroyFound, EnterDestroy, DelLink, DestroyCheck, DestroySet,
         DestroyTell,
         EpollWait, TakeExit, Take, TakeStale, TakeHup, TakeListen, TakeConnected,
         TakeRead,
         TellDisc, Accept, TellAccepted, AcceptDone, Read, ReadEnd, BatchDone, Flush,
         FlushEnds, SetLink, TimerCheck,
         TimerStop, NextDestroy, AllDestroyed, Uninit, JoinWorker, JoinTimer, FreeAll,
         Arrives, PeerConnects, PeerCloses

-----------------------------------------------------------------------------
(* The flow of control: a thread's position changes by a step of its own,  *)
(* and some positions can be left or entered by few actions.               *)

Shape ==
    /\ pc \in [Threads -> AppPC \cup WorkerPC \cup TimerPC]
    /\ \A t \in App : pc[t] \in AppPC
    /\ pc[Worker] \in WorkerPC /\ pc[Timer] \in TimerPC
    /\ arg \in [Threads -> Links \cup {None}]
    /\ \A t \in Threads : pc[t] \in ArgPC => arg[t] \in Links
    /\ pc[Worker] = "accept" => listener \in Links
    /\ told \in [Links -> SUBSET Event]
    /\ mi_socket \in [Links -> {"new", "queued", "open", "none"}]
    /\ m_maplink \subseteq Links
    /\ closes \in [Links -> Nat]

LEMMA ShapeOf == TypeInv => Shape
  BY DEF TypeInv, TypeOK, ArgInv, Shape

Stays(u) == pc'[u] = pc[u] /\ arg'[u] = arg[u]

Moves(u) == \/ u \in App /\ (AppStep(u) \/ Call(u))
            \/ u = Worker /\ (WorkerStep \/ FlushEnds)
            \/ u = Timer /\ TimerStep

LEMMA Control ==
    ASSUME Shape, [Next]_vars, NEW u \in Threads
    PROVE  Stays(u) \/ Moves(u)
  <1> USE NameAssumption DEF Shape, Goto, Enter, Stays
  <1>1. ASSUME NEW t \in App, AppStep(t) \/ Call(t), t # u PROVE Stays(u)
    BY <1>1
    DEF AppStep, Call, LinkDestroy, Attach, DestroyEach, End, Create, FindUnused,
                Connect, Listen, TellApp, AttachGet, AttachCtl, Destroy, DestroyFound,
                EnterDestroy, DelLink, DestroyCheck, DestroySet, DestroyTell,
                DestroyReturn,
                NextDestroy, AllDestroyed, Uninit, JoinWorker, JoinTimer, FreeAll
  <1>2. ASSUME WorkerStep \/ FlushEnds, u # Worker PROVE Stays(u)
    BY <1>2 DEF WorkerStep, LinkDestroy, Attach, EpollWait, TakeExit, Take, TakeStale,
                TakeHup, TakeListen, TakeConnected, TakeRead, Accept, AcceptDone,
                BatchDone, Flush, FlushEnds, SetLink,
                TellDisc, TellAccepted, Read, ReadEnd, DelLink, DestroyCheck,
                DestroySet,
                DestroyTell, DestroyReturn, AttachGet, AttachCtl, EnterDestroy
  <1>3. ASSUME TimerStep, u # Timer PROVE Stays(u)
    BY <1>3 DEF TimerStep, LinkDestroy, DestroyEach, TimerCheck, TimerStop, NextDestroy,
                AllDestroyed, DelLink, DestroyCheck, DestroySet, DestroyTell,
                DestroyReturn,
                EnterDestroy
  <1>4. CASE Environment
    BY <1>4 DEF Environment, Arrives, PeerConnects, PeerCloses
  <1>5. CASE UNCHANGED vars
    BY <1>5 DEF vars
  <1> QED
    BY <1>1, <1>2, <1>3, <1>4, <1>5 DEF Next, Moves

(* A thread at one of these labels leaves it by the action of that name.   *)
Settled == {"tellCreated", "setLink", "tellAccepted", "tellFailed", "tellConnected", "discLink"}
               \cup AttachPC \cup DestroyPC

LEMMA Leaves ==
    ASSUME Shape, [Next]_vars, NEW u \in Threads, pc[u] \in Settled
    PROVE  \/ Stays(u)
           \/ u \in App /\ TellApp(u)
           \/ u = Worker /\ (SetLink \/ TellAccepted)
           \/ AttachGet(u) \/ AttachCtl(u)
           \/ DelLink(u) \/ DestroyCheck(u) \/ DestroySet(u) \/ DestroyTell(u)
  <1> USE DEF Settled, AttachPC, DestroyPC
  <1>1. CASE u \in App /\ (AppStep(u) \/ Call(u))
    BY <1>1 DEF AppStep, Call, MayCall, LinkDestroy, Attach, DestroyEach, End, Create,
                FindUnused, Destroy, Uninit, Connect, Listen, DestroyFound, NextDestroy,
                AllDestroyed, JoinWorker, JoinTimer, FreeAll
  <1>2. CASE u = Worker /\ (WorkerStep \/ FlushEnds)
    BY <1>2 DEF WorkerStep, LinkDestroy, Attach, EpollWait, TakeExit, Take, TakeStale,
                TakeHup, TakeListen, TakeConnected, TakeRead, Accept, AcceptDone,
                BatchDone, Flush, FlushEnds, Handled,
                TellDisc, Read, ReadEnd
  <1>3. CASE u = Timer /\ TimerStep
    BY <1>3 DEF TimerStep, LinkDestroy, DestroyEach, TimerCheck, TimerStop, NextDestroy,
                AllDestroyed
  <1> QED
    BY <1>1, <1>2, <1>3, Control DEF Moves

(* A thread enters link_destroy at its first label, through EnterDestroy,  *)
(* and the hang-up branch's del_link after the callback.                   *)
LEMMA Enters ==
    ASSUME Shape, [Next]_vars, NEW u \in Threads, ~Stays(u)
    PROVE  /\ pc'[u] \in {"destCheck", "destSet", "destTell"} =>
                  DelLink(u) \/ DestroyCheck(u) \/ DestroySet(u)
           /\ pc'[u] = "destLink" => EnterDestroy(u, arg'[u])
           /\ pc'[u] = "discLink" => TellDisc
  <1> USE NameAssumption DEF Shape, Goto, Enter
  <1>1. CASE u \in App /\ (AppStep(u) \/ Call(u))
    BY <1>1
    DEF AppStep, Call, LinkDestroy, Attach, DestroyEach, End, Create, FindUnused,
                Connect, Listen, TellApp, AttachGet, AttachCtl, AfterAttach, Destroy,
                DestroyFound, EnterDestroy, DelLink, DestroyCheck, DestroySet,
                DestroyTell,
                DestroyReturn, NextDestroy, AllDestroyed, Uninit, JoinWorker, JoinTimer,
                FreeAll
  <1>2. CASE u = Worker /\ (WorkerStep \/ FlushEnds)
    BY <1>2 DEF WorkerStep, LinkDestroy, Attach, EpollWait, TakeExit, Take, TakeStale,
                TakeHup, TakeListen, TakeConnected, TakeRead, Accept, AcceptDone,
                BatchDone, Flush, FlushEnds, SetLink,
                TellDisc, TellAccepted, Read, ReadEnd, DelLink, DestroyCheck,
                DestroySet,
                DestroyTell, DestroyReturn, AttachGet, AttachCtl, AfterAttach,
                EnterDestroy,
                Stays
  <1>3. CASE u = Timer /\ TimerStep
    BY <1>3 DEF TimerStep, LinkDestroy, DestroyEach, TimerCheck, TimerStop, NextDestroy,
                AllDestroyed, DelLink, DestroyCheck, DestroySet, DestroyTell,
                DestroyReturn,
                EnterDestroy
  <1> QED
    BY <1>1, <1>2, <1>3, Control DEF Moves

(* Events already delivered stay delivered, and a link keeps its object.   *)
LEMMA Monotone ==
    ASSUME Shape, FreshInv, [Next]_vars, NEW l \in Links
    PROVE  /\ told[l] \subseteq told'[l]
           /\ mi_socket[l] = "none" => mi_socket'[l] = "none"
           /\ Published(l) => Published(l)'
  <1>1. told[l] \subseteq told'[l]
    BY ToldFrame, NameAssumption
       DEF TellApp, DestroyTell, TellDisc, TellAccepted, Read, ReadEnd, Tell, Shape
  <1>2. mi_socket[l] = "none" => mi_socket'[l] = "none"
    <2>1. ASSUME mi_socket[l] = "none", NEW n \in Links, Accept(n)
          PROVE  mi_socket'[l] = "none"
      <3>1. mi_socket[n] = "queued"
        BY <2>1 DEF Accept, FreshInv, Shape
      <3> QED
        BY <2>1, <3>1 DEF Accept, Shape
    <2>2. ASSUME mi_socket[l] = "none", NEW n \in Links, NEW k \in Links, PeerConnects(k, n)
          PROVE  mi_socket'[l] = "none"
      BY <2>2 DEF PeerConnects, Shape
    <2>3. ASSUME mi_socket[l] = "none", NEW t \in App, NEW n \in Links, Create(t, n)
          PROVE  mi_socket'[l] = "none"
      BY <2>3 DEF Create, Shape
    <2> QED
      BY <2>1, <2>2, <2>3, SocketFrame DEF Connect, DestroySet, SocketGone, Shape
  <1>3. Published(l) => Published(l)'
    BY SocketFrame
    DEF Create, Connect, Accept, DestroySet, SocketGone, PeerConnects, Shape,
                       Published
  <1> QED
    BY <1>1, <1>2, <1>3

(* A link reaches threads, table and history with its object only: whoever *)
(* works on a link is known to the application, hence has an object.       *)
LEMMA FreshStep == TypeInv /\ FreshInv /\ KnownInv /\ [Next]_vars => FreshInv'
  <1> SUFFICES ASSUME TypeInv, FreshInv, KnownInv, [Next]_vars PROVE FreshInv'
    OBVIOUS
  <1> USE NameAssumption
         DEF Goto, Enter, Tell, Announced, Published, AppPC, WorkerPC, TimerPC,
             DestroyPC, AttachPC, TypeInv, TypeOK, ArgInv, ArgPC, FreshInv, KnownInv,
             HandsKnown, TodoKnown, EpollKnown, KnownPC, NewPC, MhLink, Nameless
  <1>1. ASSUME NEW t \in App, NEW l \in Links, Create(t, l) PROVE FreshInv'
    BY <1>1 DEF Create, MayCall
  <1>2. ASSUME NEW t \in App, NEW l \in Links, FindUnused(t, l) PROVE FreshInv'
    BY <1>2 DEF FindUnused, MayCall, Knows, Unused
  <1>3. ASSUME NEW t \in App, NEW l \in Links, Destroy(t, l) PROVE FreshInv'
    BY <1>3 DEF Destroy, MayCall, Knows
  <1>4. ASSUME NEW t \in App, Uninit(t) PROVE FreshInv'
    BY <1>4 DEF Uninit, MayCall
  <1>5. ASSUME NEW t \in App, Connect(t) PROVE FreshInv'
    BY <1>5 DEF Connect
  <1>6. ASSUME NEW t \in App, Listen(t) PROVE FreshInv'
    BY <1>6 DEF Listen
  <1>7. ASSUME NEW t \in App, TellApp(t) PROVE FreshInv'
    BY <1>7 DEF TellApp
  <1>8. ASSUME NEW t \in Threads, AttachGet(t) PROVE FreshInv'
    BY <1>8 DEF AttachGet, AfterAttach
  <1>9. ASSUME NEW t \in Threads, AttachCtl(t) PROVE FreshInv'
    BY <1>9 DEF AttachCtl, AfterAttach, Attached
  <1>10. ASSUME NEW t \in App, DestroyFound(t) PROVE FreshInv'
    BY <1>10 DEF DestroyFound, EnterDestroy
  <1>11. ASSUME NEW t \in Threads, DelLink(t) PROVE FreshInv'
    BY <1>11 DEF DelLink, Erased, MhLink, Nameless
  <1>12. ASSUME NEW t \in Threads, DestroyCheck(t) PROVE FreshInv'
    BY <1>12 DEF DestroyCheck, DestroyReturn
  <1>13. ASSUME NEW t \in Threads, DestroySet(t) PROVE FreshInv'
    BY <1>13 DEF DestroySet, Edge, SocketGone
  <1>14. ASSUME NEW t \in Threads, DestroyTell(t) PROVE FreshInv'
    BY <1>14 DEF DestroyTell, DestroyReturn
  <1>15. ASSUME NEW t \in Threads, NEW l \in Links, NextDestroy(t, l) PROVE FreshInv'
    BY <1>15 DEF NextDestroy, EnterDestroy
  <1>16. ASSUME NEW t \in Threads, AllDestroyed(t) PROVE FreshInv'
    BY <1>16 DEF AllDestroyed
  <1>17. ASSUME NEW t \in App, JoinWorker(t) PROVE FreshInv'
    BY <1>17 DEF JoinWorker
  <1>18. ASSUME NEW t \in App, JoinTimer(t) PROVE FreshInv'
    BY <1>18 DEF JoinTimer
  <1>19. ASSUME NEW t \in App, FreeAll(t) PROVE FreshInv'
    BY <1>19 DEF FreeAll, LinksToFree
  <1>20. ASSUME EpollWait PROVE FreshInv'
    BY <1>20 DEF EpollWait
  <1>21. ASSUME TakeExit PROVE FreshInv'
    BY <1>21 DEF TakeExit
  <1>22. ASSUME BatchDone PROVE FreshInv'
    BY <1>22 DEF BatchDone, Handled
  <1>23. ASSUME NEW l \in Links, TakeStale(l) PROVE FreshInv'
    BY <1>23 DEF TakeStale, Take
  <1>24. ASSUME NEW l \in Links, TakeHup(l) PROVE FreshInv'
    BY <1>24 DEF TakeHup, Take
  <1>25. ASSUME NEW l \in Links, TakeListen(l) PROVE FreshInv'
    BY <1>25 DEF TakeListen, Take
  <1>26. ASSUME NEW l \in Links, TakeConnected(l) PROVE FreshInv'
    BY <1>26 DEF TakeConnected, Take
  <1>27. ASSUME NEW l \in Links, TakeRead(l) PROVE FreshInv'
    BY <1>27 DEF TakeRead, Take
  <1>28. ASSUME TellDisc PROVE FreshInv'
    BY <1>28 DEF TellDisc
  <1>29. ASSUME NEW l \in Links, Accept(l) PROVE FreshInv'
    BY <1>29 DEF Accept
  <1>30. ASSUME TellAccepted PROVE FreshInv'
    BY <1>30 DEF TellAccepted
  <1>31. ASSUME AcceptDone PROVE FreshInv'
    BY <1>31 DEF AcceptDone
  <1>32. ASSUME Read PROVE FreshInv'
    BY <1>32 DEF Read, EnterDestroy
  <1>33. ASSUME ReadEnd PROVE FreshInv'
    BY <1>33 DEF ReadEnd
  <1>34. ASSUME TimerCheck PROVE FreshInv'
    BY <1>34 DEF TimerCheck, Expirable, CheckAlive
  <1>35. ASSUME TimerStop PROVE FreshInv'
    BY <1>35 DEF TimerStop
  <1>36. ASSUME NEW l \in Links, Arrives(l) PROVE FreshInv'
    BY <1>36 DEF Arrives
  <1>37. ASSUME NEW l \in Links, PeerCloses(l) PROVE FreshInv'
    BY <1>37 DEF PeerCloses, Edge
  <1>38. ASSUME NEW l \in Links, NEW n \in Links, PeerConnects(l, n) PROVE FreshInv'
    BY <1>38 DEF PeerConnects, Edge
  <1>39. ASSUME SetLink PROVE FreshInv'
    BY <1>39 DEF SetLink
  <1>40. ASSUME Flush PROVE FreshInv'
    BY <1>40 DEF Flush, Handled
  <1>41. ASSUME FlushEnds PROVE FreshInv'
    BY <1>41 DEF FlushEnds
  <1>42. CASE UNCHANGED vars
    BY <1>42, SMTT(30) DEF vars
  <1> QED
    BY Zenon, <1>1, <1>2, <1>3, <1>4, <1>5, <1>6, <1>7, <1>8, <1>9, <1>10, <1>11, <1>12,
       <1>13, <1>14, <1>15, <1>16, <1>17, <1>18, <1>19, <1>20, <1>21, <1>22, <1>23,
       <1>24, <1>25, <1>26, <1>27, <1>28, <1>29, <1>30, <1>31, <1>32, <1>33, <1>34,
       <1>35, <1>36, <1>37, <1>38, <1>39, <1>40, <1>41, <1>42
       DEF Next, Call, AppStep, WorkerStep, TimerStep, Environment, LinkDestroy, Attach,
           DestroyEach, End

-----------------------------------------------------------------------------
(* The application hears of a link before anybody else can act on it.      *)

LEMMA StaysAnnounced ==
    ASSUME Shape, FreshInv, [Next]_vars, NEW l \in Links, Announced(l)
    PROVE  Announced(l)'
  BY Monotone DEF Announced

LEMMA AnnouncedFirstStep ==
    ASSUME Shape, FreshInv, AnnouncedFirst, HandsKnown, [Next]_vars
    PROVE  AnnouncedFirst'
  <1> SUFFICES ASSUME NEW l \in Links, l \notin hasty', told'[l] # {}
               PROVE  Announced(l)'
    BY DEF AnnouncedFirst
  <1>0. l \notin hasty
    BY CloseFrame
  <1>1. CASE told[l] # {}
    BY <1>0, <1>1, StaysAnnounced DEF AnnouncedFirst
  <1>2. CASE told[l] = {}
    <2>1. ~Announced(l)
      BY <1>2 DEF Announced
    <2>2. \A t \in Threads : pc[t] \in KnownPC => arg[t] # l \/ (t = Timer /\ pc[t] = "destLink")
      BY <1>0, <2>1 DEF HandsKnown
    <2>3. \A t \in App : TellApp(t) => Announced(l)'
      BY <1>2, <2>2 DEF TellApp, Tell, Announced, KnownPC, NewPC, ArgPC, Shape
    <2>4. \A t \in Threads : DestroyTell(t) => told'[l] = {}
      BY <1>2, <2>2 DEF DestroyTell, Tell, KnownPC, NewPC, ArgPC, DestroyPC, Shape
    <2>5. ~TellDisc /\ ~Read /\ ~ReadEnd
      BY <1>2, <2>2 DEF TellDisc, Read, ReadEnd, Tell, KnownPC, NewPC, ArgPC, Shape
    <2>6. TellAccepted => Announced(l)'
      BY <1>2 DEF TellAccepted, Tell, Announced, ArgPC, Shape
    <2> QED
      BY <1>2, <2>3, <2>4, <2>5, <2>6, ToldFrame
  <1> QED
    BY <1>1, <1>2

(* Whom a thread begins to work on it found in the table, in its snapshot  *)
(* or among epoll's events; the timeout thread's snapshot alone may hold   *)
(* links the application does not know.                                    *)
LEMMA HandsKnownStep ==
    ASSUME Shape, FreshInv, HandsKnown, TodoKnown, EpollKnown, [Next]_vars,
           todo \in [Threads -> SUBSET Links], batchHup \cup batchIn \subseteq Links
    PROVE  HandsKnown'
  <1> DEFINE Known == {l \in Links : \/ told[l] \cap {"CREATED", "ACCEPTED"} # {}
                                    \/ told'[l] \cap {"CREATED", "ACCEPTED"} # {}}
  <1> SUFFICES ASSUME NEW u \in Threads, pc'[u] \in KnownPC
               PROVE  \/ arg'[u] \in Known
                      \/ u = Timer /\ (pc'[u] = "destLink" \/ arg'[u] \in hasty')
    BY Monotone DEF HandsKnown, Announced
  <1>0. hasty \subseteq hasty'
    BY CloseFrame
  <1>2. pc[u] \in KnownPC => \/ arg[u] \in Known
                             \/ u = Timer /\ (pc[u] = "destLink" \/ arg[u] \in hasty)
    BY DEF HandsKnown, KnownPC, NewPC, Announced, Shape
  <1>3. /\ u # Timer => todo[u] \subseteq Known
        /\ batchHup \cup batchIn \subseteq Known
    BY DEF TodoKnown, EpollKnown, Announced
  <1>1. \A l \in Links : Announced(l) => l \in Known
    BY DEF Announced
  <1> HIDE DEF Known
  <1>4. CASE Stays(u)
    BY <1>0, <1>2, <1>4 DEF Stays
  <1> USE NameAssumption DEF Shape, Goto, Enter, KnownPC, NewPC, ArgPC, DestroyPC, AttachPC
  <1>5. CASE u \in App /\ (AppStep(u) \/ Call(u))
    <2>0. u # Timer
      BY <1>5
    <2>1. CASE Call(u)
      BY <2>0, <2>1, <1>2, <1>1 DEF Call, Create, FindUnused, Destroy, Uninit, Knows
    <2>2. CASE AppStep(u)
      BY <2>0, <2>2, <1>2, <1>3
         DEF AppStep, LinkDestroy, Attach, DestroyEach, End, Connect, Listen, TellApp,
             AttachGet, AttachCtl, AfterAttach, DestroyFound, EnterDestroy, DelLink,
             DestroyCheck, DestroySet, DestroyTell, DestroyReturn, NextDestroy,
             AllDestroyed,
             JoinWorker, JoinTimer, FreeAll
    <2> QED
      BY <1>5, <2>1, <2>2
  <1>6. CASE u = Worker /\ (WorkerStep \/ FlushEnds)
    <2>1. CASE TellAccepted
      <3>1. arg'[u] = arg[u] /\ arg[u] \in Links /\ told'[arg[u]] \cap {"CREATED", "ACCEPTED"} # {}
        BY <1>6, <2>1 DEF TellAccepted, Tell
      <3> QED
        BY <3>1 DEF Known
    <2>2. CASE ~TellAccepted
      BY <1>2, <1>3, <1>6, <2>2
         DEF WorkerStep, LinkDestroy, Attach, EpollWait, TakeExit, Take, TakeStale,
             TakeHup,
             TakeListen, TakeConnected, TakeRead, Accept, AcceptDone, BatchDone, Flush,
             FlushEnds, SetLink, TellDisc, Read, ReadEnd, DelLink, DestroyCheck,
             DestroySet,
             DestroyTell, DestroyReturn, AttachGet, AttachCtl, AfterAttach, EnterDestroy
    <2> QED
      BY <2>1, <2>2
  <1>7. CASE u = Timer /\ TimerStep
    <2>1. CASE DelLink(Timer)
      <3>1. arg[Timer] \in Links /\ arg'[Timer] = arg[Timer]
        BY <1>7, <2>1 DEF DelLink, TimerPC
      <3>2. arg[Timer] \in Known \/ arg[Timer] \in hasty'
        BY <1>1, <2>1, <3>1 DEF DelLink
      <3> QED
        BY <1>7, <3>1, <3>2
    <2>2. CASE ~DelLink(Timer)
      BY <1>0, <1>2, <1>7, <2>2
         DEF TimerStep, LinkDestroy, DestroyEach, TimerCheck, TimerStop, NextDestroy,
             AllDestroyed, DestroyCheck, DestroySet, DestroyTell, DestroyReturn,
             EnterDestroy
    <2> QED
      BY <2>1, <2>2
  <1> QED
    BY <1>4, <1>5, <1>6, <1>7, Control DEF Moves

LEMMA TodoKnownStep ==
    ASSUME Shape, FreshInv, TodoKnown, TableKnown, EndInv, [Next]_vars,
           todo \in [Threads -> SUBSET Links]
    PROVE  TodoKnown'
  <1> SUFFICES ASSUME NEW u \in Threads \ {Timer}, NEW l \in todo'[u]
               PROVE  Announced(l)'
    BY DEF TodoKnown
  <1>1. CASE l \in todo[u]
    BY <1>1, StaysAnnounced DEF TodoKnown
  <1>2. CASE TimerCheck
    BY <1>1, <1>2, NameAssumption DEF TimerCheck
  <1>3. ASSUME NEW t \in App, FreeAll(t), l \notin todo[u] PROVE Announced(l)'
    <2>1. l \in m_maplink
      BY <1>3 DEF FreeAll, LinksToFree
    <2>2. t = ender /\ ender # None /\ pc[t] = "freeAll"
      BY <1>3, NameAssumption DEF FreeAll, EndInv, EndPC
    <2>3. \A v \in Threads : pc[v] \notin NewPC
      BY <2>2, NameAssumption DEF EndInv, EndPC, NewPC
    <2>4. Announced(l) /\ l \in Links
      BY <2>1, <2>3 DEF TableKnown, At, Shape
    <2> QED
      BY <2>4, StaysAnnounced
  <1>4. ASSUME NEW t \in App \cup {Timer}, NEW k \in Links, NextDestroy(t, k)
        PROVE  l \in todo[u]
    BY <1>4, NameAssumption DEF NextDestroy
  <1> QED
    BY <1>1, <1>2, <1>3, <1>4, TodoFrame

LEMMA EpollKnownStep ==
    ASSUME Shape, FreshInv, HandsKnown, EpollKnown, [Next]_vars,
           registered \cup ready \cup batchHup \cup batchIn \subseteq Links
    PROVE  EpollKnown'
  <1>1. \A l \in registered \cup ready \cup batchHup \cup batchIn : Announced(l)'
    BY StaysAnnounced DEF EpollKnown
  <1>2. ASSUME NEW t \in Threads, AttachCtl(t) PROVE EpollKnown'
    <2>1. arg[t] \in Links /\ Announced(arg[t])
      BY <1>2
      DEF AttachCtl, HandsKnown, KnownPC, NewPC, ArgPC, AttachPC, Shape, TimerPC,
          DestroyPC
    <2>2. /\ registered' \cup ready' \subseteq registered \cup ready \cup {arg[t]}
          /\ UNCHANGED <<batchHup, batchIn, told>>
      BY <1>2 DEF AttachCtl, Attached
    <2> QED
      BY <1>1, <2>1, <2>2 DEF EpollKnown, Announced
  <1> QED
    BY <1>1, <1>2, EpollFrame DEF EpollKnown

LEMMA TableKnownStep ==
    ASSUME Shape, FreshInv, TableKnown, [Next]_vars
    PROVE  TableKnown'
  <1> SUFFICES ASSUME NEW l \in m_maplink' PROVE Announced(l)' \/ At(l, NewPC)'
    BY DEF TableKnown, NewPC
  <1>1. CASE l \in m_maplink /\ Announced(l)
    BY <1>1, StaysAnnounced DEF Shape
  <1>2. CASE l \in m_maplink /\ ~Announced(l)
    <2>1. PICK u \in Threads : arg[u] = l /\ pc[u] \in NewPC
      BY <1>2 DEF TableKnown, At
    <2>2. CASE Stays(u)
      BY <2>1, <2>2 DEF Stays, At
    <2>3. CASE u = Worker /\ SetLink
      BY <2>1, <2>3 DEF SetLink, Goto, At, Shape, NewPC
    <2>4. CASE ~Stays(u) /\ ~(u = Worker /\ SetLink)
      <3>1. (u \in App /\ TellApp(u)) \/ (u = Worker /\ TellAccepted)
        BY <2>1, <2>4, Leaves
           DEF Settled, NewPC, AttachGet, AttachCtl, DelLink, DestroyCheck, DestroySet,
               DestroyTell
      <3>2. told'[l] \cap {"CREATED", "ACCEPTED"} # {}
        BY <1>2, <2>1, <3>1 DEF TellApp, TellAccepted, Tell, Shape, NewPC
      <3> QED
        BY <3>2 DEF Announced
    <2> QED
      BY <2>2, <2>3, <2>4
  <1>3. CASE l \notin m_maplink
    <2>1. ASSUME NEW t \in App, NEW k \in Links, Create(t, k)
          PROVE  At(l, NewPC)'
      BY <1>3, <2>1 DEF Create, Enter, Goto, At, Shape, NewPC
    <2>2. ASSUME NEW k \in Links, Accept(k)
          PROVE  At(l, NewPC)'
      BY <1>3, <2>2 DEF Accept, Enter, Goto, At, Shape, NewPC
    <2>3. \A t \in Threads : ~DelLink(t)
      BY <1>3 DEF DelLink, Erased
    <2> QED
      BY <1>3, <2>1, <2>2, <2>3, TableFrame
  <1> QED
    BY <1>1, <1>2, <1>3

(* The link the worker has just accepted is nobody else's news.            *)
LEMMA UntoldYetStep ==
    ASSUME Shape, FreshInv, UntoldYet, [Next]_vars
    PROVE  UntoldYet'
  <1> SUFFICES ASSUME pc'[Worker] = "setLink"
               PROVE  /\ told'[arg'[Worker]] \cap {"CREATED", "ACCEPTED"} = {}
                      /\ \A t \in App : pc'[t] = "tellCreated" => arg'[t] # arg'[Worker]
    BY DEF UntoldYet, Announced
  <1>1. CASE Stays(Worker)
    <2> DEFINE l == arg[Worker]
    <2>1. l \in Links /\ arg'[Worker] = l /\ Published(l) /\ told[l] \cap {"CREATED", "ACCEPTED"} = {}
      BY <1>1 DEF Stays, UntoldYet, Announced, FreshInv, Shape, ArgPC
    <2>2. \A t \in App : pc[t] = "tellCreated" => arg[t] # l
      BY <1>1 DEF Stays, UntoldYet
    <2>3. told'[l] \cap {"CREATED", "ACCEPTED"} = {}
      <3>1. ASSUME NEW t \in App, TellApp(t)
            PROVE  told'[l] \cap {"CREATED", "ACCEPTED"} = {}
        BY <2>1, <2>2, <3>1 DEF TellApp, Tell, Shape
      <3>2. ASSUME NEW t \in Threads, DestroyTell(t)
            PROVE  told'[l] \cap {"CREATED", "ACCEPTED"} = {}
        BY <2>1, <3>2 DEF DestroyTell, Tell, Shape
      <3>3. ~TellDisc /\ ~TellAccepted /\ ~Read /\ ~ReadEnd
        BY <1>1 DEF Stays, TellDisc, TellAccepted, Read, ReadEnd
      <3> QED
        BY <2>1, <3>1, <3>2, <3>3, ToldFrame
    <2>4. ASSUME NEW t \in App, pc'[t] = "tellCreated" PROVE arg'[t] # l
      <3>1. CASE Stays(t)
        BY <2>2, <2>4, <3>1 DEF Stays
      <3>2. CASE ~Stays(t)
        <4>0. Call(t) \/ AppStep(t)
          BY <3>2, Control, NameAssumption DEF Moves
        <4>1. PICK k \in Links : Create(t, k)
          <5>1. CASE Call(t)
            BY <2>4, <5>1 DEF Call, FindUnused, Destroy, Uninit, Enter, Goto, Shape
          <5>2. ~AppStep(t)
            BY <2>4, NameAssumption
               DEF AppStep, LinkDestroy, Attach, DestroyEach, End, Connect, Listen, TellApp,
                   AttachGet, AttachCtl, AfterAttach, DestroyFound, EnterDestroy, DelLink,
                   DestroyCheck, DestroySet, DestroyTell, DestroyReturn, NextDestroy,
                   AllDestroyed, JoinWorker, JoinTimer, FreeAll, Enter, Goto, Shape
          <5> QED
            BY <4>0, <5>1, <5>2
        <4>2. arg'[t] = k /\ ~Published(k)
          BY <4>1 DEF Create, Enter, Published, Shape
        <4> QED
          BY <2>1, <4>2
      <3> QED
        BY <3>1, <3>2
    <2> QED
      BY <2>1, <2>3, <2>4
  <1>2. CASE ~Stays(Worker)
    <2>1. PICK n \in Links : Accept(n)
      BY <1>2, Control, NameAssumption
         DEF Moves, WorkerStep, LinkDestroy, Attach, EpollWait, TakeExit, Take,
             TakeStale,
             TakeHup, TakeListen, TakeConnected, TakeRead, AcceptDone, BatchDone, Flush,
             FlushEnds, SetLink, TellDisc, TellAccepted, Read, ReadEnd, DelLink,
             DestroyCheck,
             DestroySet, DestroyTell, DestroyReturn, AttachGet, AttachCtl, AfterAttach,
             EnterDestroy, Enter, Goto, Shape
    <2>2. arg'[Worker] = n /\ told' = told /\ \A t \in App : pc'[t] = pc[t] /\ arg'[t] = arg[t]
      BY <2>1, NameAssumption DEF Accept, Enter, Goto, Shape
    <2>3. told[n] = {} /\ \A t \in App : arg[t] = n => pc[t] \notin ArgPC
      BY <2>1 DEF Accept, FreshInv, Published, Shape
    <2> QED
      BY <2>2, <2>3 DEF ArgPC
  <1> QED
    BY <1>1, <1>2

LEMMA KnownStep == TypeInv /\ FreshInv /\ KnownInv /\ EndInv /\ [Next]_vars => KnownInv'
  <1> SUFFICES ASSUME TypeInv, FreshInv, KnownInv, EndInv, [Next]_vars PROVE KnownInv'
    OBVIOUS
  <1>1. /\ Shape /\ todo \in [Threads -> SUBSET Links]
        /\ registered \cup ready \cup batchHup \cup batchIn \subseteq Links
    BY ShapeOf DEF TypeInv, TypeOK
  <1> QED
    BY <1>1, AnnouncedFirstStep, HandsKnownStep, TodoKnownStep, EpollKnownStep,
       TableKnownStep,
       UntoldYetStep
       DEF KnownInv

-----------------------------------------------------------------------------
(* Taking a link down: out of the table, then its socket, then the word.   *)

(* A link enters the table with its object only.                           *)
LEMMA Newcomers ==
    ASSUME Shape, FreshInv, [Next]_vars, NEW l \in Links, l \in m_maplink',
    l \notin m_maplink
    PROVE  /\ ~Published(l)
           /\ (\E t \in App : Create(t, l)) \/ Accept(l)
  <1>1. ASSUME NEW t \in App, NEW k \in Links, Create(t, k)
        PROVE  k = l /\ ~Published(l)
    BY <1>1 DEF Create, Published
  <1>2. ASSUME NEW k \in Links, Accept(k)
        PROVE  k = l /\ ~Published(l)
    <2>1. k = l /\ mi_socket[k] = "queued"
      BY <1>2 DEF Accept, FreshInv, Shape
    <2> QED
      BY <2>1 DEF Published
  <1>3. \A t \in Threads : ~DelLink(t)
    BY DEF DelLink, Erased
  <1> QED
    BY <1>1, <1>2, <1>3, TableFrame

(* CLOSED without a handle is about a hasty link only.                     *)
LEMMA NamedIfKnown ==
    ASSUME Shape, HandsKnown, UntoldYet, NEW t \in Threads, pc[t] = "destTell",
           arg[t] \notin hasty
    PROVE  ~Nameless(arg[t])
  <1>1. Announced(arg[t])
    BY DEF HandsKnown, KnownPC, NewPC, ArgPC, DestroyPC
  <1> QED
    BY <1>1 DEF UntoldYet, Nameless

LEMMA ClosedMeansGoneStep ==
    ASSUME Shape, FreshInv, ClosedMeansGone, ClosingGone, [Next]_vars
    PROVE  ClosedMeansGone'
  <1> SUFFICES ASSUME NEW l \in Links, l \notin hasty', "CLOSED" \in told'[l], l \in m_maplink'
               PROVE  FALSE
    BY DEF ClosedMeansGone
  <1>0. l \notin hasty
    BY CloseFrame
  <1>1. CASE "CLOSED" \in told[l]
    BY <1>0, <1>1, Newcomers DEF ClosedMeansGone, FreshInv
  <1>2. CASE "CLOSED" \notin told[l]
    <2>1. PICK t \in Threads : DestroyTell(t)
      BY <1>2, ToldFrame DEF TellApp, TellDisc, TellAccepted, Read, ReadEnd, Tell, Shape
    <2>2. arg[t] = l /\ l \notin m_maplink /\ m_maplink' = m_maplink
      BY <1>0, <1>2, <2>1 DEF DestroyTell, Tell, ClosingGone, Shape
    <2> QED
      BY <2>2
  <1> QED
    BY <1>1, <1>2

LEMMA ClosingGoneStep ==
    ASSUME Shape, FreshInv, UntoldYet, ClosingGone, [Next]_vars
    PROVE  ClosingGone'
  <1> DEFINE Closing == {"destCheck", "destSet", "destTell"}
  <1> SUFFICES ASSUME NEW u \in Threads, pc'[u] \in Closing, arg'[u] \in m_maplink',
                      arg'[u] \notin hasty'
               PROVE  FALSE
    BY DEF ClosingGone
  <1>0. hasty \subseteq hasty'
    BY CloseFrame
  <1>1. arg'[u] = arg[u] /\ pc[u] \in ArgPC /\ (arg[u] \notin m_maplink \/ DelLink(u))
    <2>1. CASE Stays(u)
      BY <1>0, <2>1 DEF Stays, ClosingGone, ArgPC, DestroyPC
    <2>2. CASE DelLink(u)
      BY <2>2 DEF DelLink, Enter, Goto, ArgPC, DestroyPC, Shape
    <2>3. CASE DestroyCheck(u)
      BY <1>0, <2>3
         DEF DestroyCheck, DestroyReturn, Enter, Goto, ArgPC, DestroyPC, ClosingGone,
             Shape
    <2>4. CASE DestroySet(u)
      BY <1>0, <2>4 DEF DestroySet, ArgPC, DestroyPC, ClosingGone
    <2> QED
      BY <2>1, <2>2, <2>3, <2>4, Enters
  <1>2. arg[u] \in Links /\ Published(arg[u])
    BY <1>1 DEF Shape, FreshInv
  <1>3. arg[u] \notin m_maplink'
    <2>1. CASE DelLink(u)
      <3>1. Announced(arg[u])
        BY <1>1, <2>1 DEF DelLink
      <3>2. MhLink(arg[u]) = arg[u]
        BY <3>1 DEF MhLink, Nameless, UntoldYet
      <3> QED
        BY <2>1, <3>2 DEF DelLink, Erased
    <2>2. CASE ~DelLink(u)
      BY <1>1, <1>2, <2>2, Newcomers
    <2> QED
      BY <2>1, <2>2
  <1> QED
    BY <1>1, <1>3

LEMMA SocketToldStep ==
    ASSUME Shape, FreshInv, HandsKnown, UntoldYet, SocketTold, [Next]_vars
    PROVE  SocketTold'
  <1> SUFFICES ASSUME NEW l \in Links, l \notin hasty', mi_socket'[l] = "none", ~Goodbye(l)'
               PROVE  At(l, {"destTell", "tellFailed"})'
    BY DEF SocketTold
  <1>1. ~Goodbye(l) /\ l \notin hasty
    BY Monotone, CloseFrame DEF Goodbye
  <1>2. CASE mi_socket[l] = "none"
    <2>1. PICK u \in Threads : arg[u] = l /\ pc[u] \in {"destTell", "tellFailed"}
      BY <1>1, <1>2 DEF SocketTold, At
    <2>2. CASE Stays(u)
      BY <2>1, <2>2 DEF Stays, At
    <2>3. CASE ~Stays(u)
      <3>1. TellApp(u) \/ DestroyTell(u)
        BY <2>1, <2>3, Leaves
           DEF Settled, DestroyPC, SetLink, TellAccepted, AttachGet, AttachCtl, DelLink,
               DestroyCheck, DestroySet
      <3>2. told'[l] \cap {"CLOSED", "DISCONNECTED"} # {}
        BY <1>1, <2>1, <3>1, NamedIfKnown DEF TellApp, DestroyTell, Tell, Shape
      <3> QED
        BY <3>2 DEF Goodbye
    <2> QED
      BY <2>2, <2>3
  <1>3. CASE mi_socket[l] # "none"
    <2>1. ASSUME NEW t \in App, Connect(t) PROVE At(l, {"destTell", "tellFailed"})'
      BY <1>3, <2>1 DEF Connect, Enter, Goto, At, Shape
    <2>2. ASSUME NEW t \in Threads, DestroySet(t)
          PROVE  At(l, {"destTell", "tellFailed"})'
      BY <1>3, <2>2 DEF DestroySet, SocketGone, Goto, At, Shape
    <2>3. ASSUME NEW t \in App, NEW k \in Links, Create(t, k) PROVE FALSE
      BY <1>3, <2>3 DEF Create, Shape
    <2>4. ASSUME NEW k \in Links, Accept(k) PROVE FALSE
      BY <1>3, <2>4 DEF Accept, Shape
    <2>5. ASSUME NEW k \in Links, NEW n \in Links, PeerConnects(k, n) PROVE FALSE
      BY <1>3, <2>5 DEF PeerConnects, Shape
    <2> QED
      BY <1>3, <2>1, <2>2, <2>3, <2>4, <2>5, SocketFrame
  <1> QED
    BY <1>2, <1>3

LEMMA HangupToldStep ==
    ASSUME Shape, FreshInv, HangupTold, [Next]_vars
    PROVE  HangupTold'
  <1> SUFFICES ASSUME pc'[Worker] = "discLink"
               PROVE  told'[arg'[Worker]] \cap {"CLOSED", "DISCONNECTED"} # {}
    BY DEF HangupTold, Goodbye
  <1>1. CASE Stays(Worker)
    <2>1. arg'[Worker] = arg[Worker] /\ Goodbye(arg[Worker]) /\ arg[Worker] \in Links
      BY <1>1 DEF Stays, HangupTold, Shape, ArgPC
    <2> QED
      BY <2>1, Monotone DEF Goodbye
  <1>2. CASE ~Stays(Worker)
    <2>1. TellDisc
      BY <1>2, Enters
    <2> QED
      BY <2>1 DEF TellDisc, Tell, Shape, ArgPC
  <1> QED
    BY <1>1, <1>2

LEMMA RemovedIsToldStep ==
    ASSUME Shape, FreshInv, HandsKnown, UntoldYet, SocketTold', HangupTold,
    RemovedIsTold,
           [Next]_vars
    PROVE  RemovedIsTold'
  <1> DEFINE Closing == {"destCheck", "destSet", "destTell", "tellFailed"}
  <1> SUFFICES ASSUME NEW l \in Links, l \notin hasty', Published(l)', l \notin m_maplink',
                      ~Goodbye(l)'
               PROVE  At(l, Closing)'
    BY DEF RemovedIsTold
  <1>1. ~Goodbye(l) /\ l \notin hasty
    BY Monotone, CloseFrame DEF Goodbye
  <1>2. mi_socket'[l] # "none" \/ At(l, Closing)'
    BY DEF SocketTold, At
  <1>3. Published(l)
    <2>1. \A t \in App, k \in Links : Create(t, k) => k # l
      BY DEF Create
    <2>2. \A k \in Links : Accept(k) => k # l
      BY DEF Accept
    <2>3. \A t \in Threads : pc[t] \in {"connect", "destSet"} /\ arg[t] = l => Published(l)
      BY DEF FreshInv, ArgPC, DestroyPC
    <2>4. ASSUME NEW t \in App, Connect(t), ~Published(l)
          PROVE  mi_socket'[l] = mi_socket[l]
      BY <2>3, <2>4 DEF Connect, Shape
    <2>5. ASSUME NEW t \in Threads, DestroySet(t), ~Published(l)
          PROVE  mi_socket'[l] = mi_socket[l]
      BY <2>3, <2>5 DEF DestroySet, SocketGone, Shape
    <2>6. ASSUME NEW k \in Links, NEW n \in Links, PeerConnects(k, n)
          PROVE  mi_socket'[l] \in {mi_socket[l], "queued"}
      BY <2>6 DEF PeerConnects, Shape
    <2>7. \A t \in App, k \in Links : Create(t, k) => mi_socket'[l] = mi_socket[l]
      BY <2>1 DEF Create, Shape
    <2>8. \A k \in Links : Accept(k) => mi_socket'[l] = mi_socket[l]
      BY <2>2 DEF Accept, Shape
    <2> QED
      BY <2>4, <2>5, <2>6, <2>7, <2>8, SocketFrame DEF Published
  <1>4. CASE l \in m_maplink
    <2>1. PICK t \in Threads : DelLink(t)
      BY <1>4, TableFrame DEF Create, Accept
    <2>2. arg[t] = l /\ pc[t] \in {"destLink", "discLink"}
      BY <1>4, <2>1, NameAssumption DEF DelLink, Erased, MhLink
    <2>3. CASE pc[t] = "destLink"
      BY <2>1, <2>2, <2>3 DEF DelLink, Enter, Goto, At, Shape
    <2>4. CASE pc[t] = "discLink"
      <3>1. t = Worker
        BY <2>4 DEF Shape, AppPC, TimerPC, DestroyPC, AttachPC
      <3> QED
        BY <1>1, <2>2, <2>4, <3>1 DEF HangupTold
    <2> QED
      BY <2>2, <2>3, <2>4
  <1>5. CASE l \notin m_maplink
    <2>1. PICK u \in Threads : arg[u] = l /\ pc[u] \in Closing
      BY <1>1, <1>3, <1>5 DEF RemovedIsTold, At
    <2>2. CASE Stays(u)
      BY <2>1, <2>2 DEF Stays, At
    <2>3. CASE ~Stays(u)
      <3>1. (u \in App /\ TellApp(u)) \/ DestroyCheck(u) \/ DestroySet(u) \/ DestroyTell(u)
        BY <2>1, <2>3, Leaves
           DEF Settled, DestroyPC, SetLink, TellAccepted, AttachGet, AttachCtl, DelLink
      <3>2. CASE u \in App /\ TellApp(u)
        <4>1. "DISCONNECTED" \in told'[l]
          BY <2>1, <3>2 DEF TellApp, Tell, Shape
        <4> QED
          BY <4>1 DEF Goodbye
      <3>3. CASE DestroyTell(u)
        <4>1. "CLOSED" \in told'[l]
          BY <1>1, <2>1, <3>3, NamedIfKnown DEF DestroyTell, Tell, Shape
        <4> QED
          BY <4>1 DEF Goodbye
      <3>4. CASE DestroySet(u)
        BY <2>1, <3>4 DEF DestroySet, Goto, At, Shape
      <3>5. CASE DestroyCheck(u)
        <4>1. CASE mi_socket[l] = "open"
          BY <2>1, <3>5, <4>1 DEF DestroyCheck, Goto, At, Shape
        <4>2. CASE mi_socket[l] # "open"
          <5>1. mi_socket'[l] = "none"
            BY <1>3, <3>5, <4>2 DEF DestroyCheck, Published
          <5> QED
            BY <1>2, <5>1
        <4> QED
          BY <4>1, <4>2
      <3> QED
        BY <3>1, <3>2, <3>3, <3>4, <3>5
    <2> QED
      BY <2>2, <2>3
  <1> QED
    BY <1>4, <1>5

LEMMA GoneStep == TypeInv /\ FreshInv /\ KnownInv /\ GoneInv /\ [Next]_vars => GoneInv'
  BY ShapeOf, ClosedMeansGoneStep, ClosingGoneStep, SocketToldStep, HangupToldStep,
     RemovedIsToldStep
     DEF GoneInv, KnownInv

-----------------------------------------------------------------------------
(* Watched, or about to be.                                                *)

Wanted(l) == /\ l \in listening \/ Carries(l)
             /\ mi_socket[l] = "open" /\ pc[Worker] # "done"

LEMMA DeafStep ==
    TypeInv /\ FreshInv /\ EndInv /\ NoDeafLink /\ [Next]_vars => NoDeafLink'
  <1> USE DEF Carries
  <1> DEFINE Soon == {"tellConnected", "setLink", "tellAccepted", "destLink"} \cup AttachPC
  <1> SUFFICES ASSUME TypeInv, FreshInv, EndInv, NoDeafLink, [Next]_vars,
                      NEW l \in m_maplink', l \notin refused', Wanted(l)',
                      l \notin registered'
               PROVE  At(l, Soon)'
    BY DEF NoDeafLink, Wanted
  <1>1. Shape /\ l \in Links /\ m_link_type \in [Links -> LinkType]
    <2>1. Shape /\ m_maplink' \subseteq Links
      BY ShapeOf, TypeStep DEF TypeInv, TypeOK
    <2> QED
      BY <2>1 DEF TypeInv, TypeOK
  <1>0. l \notin refused
    BY CloseFrame
  <1>2. CASE l \notin m_maplink
    <2>1. CASE Accept(l)
      BY <1>1, <2>1 DEF Accept, Enter, Goto, At, Shape
    <2>2. ASSUME NEW t \in App, Create(t, l) PROVE FALSE
      <3>1. m_link_type[l] = "Null" /\ l \notin listening
        BY <1>1, <1>2, <2>2, Newcomers DEF FreshInv
      <3> QED
        BY <2>2, <3>1 DEF Create, Wanted
    <2> QED
      BY <1>1, <1>2, <2>1, <2>2, Newcomers
  <1>3. CASE l \in m_maplink /\ ~Wanted(l)
    <2>1. mi_socket[l] = "open"
      <3>1. Published(l)
        BY <1>1, <1>3 DEF FreshInv
      <3> QED
        BY <1>1, <3>1, Monotone DEF Published, Wanted
    <2>2. pc[Worker] # "done"
      <3>1. pc[Worker] = "done" => ~Moves(Worker)
        BY NameAssumption
           DEF Moves, WorkerStep, LinkDestroy, Attach, EpollWait, TakeExit, Take,
               TakeStale,
               TakeHup, TakeListen, TakeConnected, TakeRead, Accept, AcceptDone,
               BatchDone, Flush, FlushEnds, SetLink,
               TellDisc, TellAccepted, Read, ReadEnd, DelLink, DestroyCheck, DestroySet,
               DestroyTell, AttachGet, AttachCtl, Handled
      <3> QED
        BY <1>1, <3>1, Control DEF Stays, Wanted
    <2>3. l \notin listening /\ m_link_type[l] \notin {"Connect", "Connected", "Accept"}
      BY <1>3, <2>1, <2>2 DEF Wanted
    <2>4. ASSUME NEW t \in App, Connect(t) PROVE At(l, Soon)'
      BY <1>1, <2>3, <2>4 DEF Connect, Enter, Goto, At, Wanted, Shape
    <2>5. ASSUME NEW t \in App, Listen(t) PROVE At(l, Soon)'
      BY <1>1, <2>3, <2>5 DEF Listen, Enter, Goto, At, Wanted, Shape, AttachPC
    <2>6. ASSUME NEW k \in Links, Accept(k) PROVE At(l, Soon)'
      <3>1. k # l
        BY <1>1, <1>3, <2>6 DEF Accept, FreshInv, Published, Shape
      <3> QED
        BY <1>1, <2>3, <2>6, <3>1 DEF Accept, Wanted
    <2>7. ASSUME NEW k \in Links, TakeConnected(k) PROVE FALSE
      BY <1>1, <2>3, <2>7 DEF TakeConnected, Take, Wanted
    <2>8. ASSUME NEW t \in Threads, DestroySet(t) PROVE FALSE
      BY <2>3, <2>8 DEF DestroySet, Wanted
    <2> QED
      BY <2>3, <2>4, <2>5, <2>6, <2>7, <2>8, RoleFrame DEF Wanted
  <1>4. CASE l \in m_maplink /\ Wanted(l) /\ l \in registered
    <2>1. ASSUME NEW t \in Threads, DelLink(t) PROVE FALSE
      <3>1. MhLink(arg[t]) \in m_maplink /\ arg[t] = l
        BY <1>4, <2>1 DEF DelLink
      <3>2. MhLink(arg[t]) = l
        BY <1>1, <3>1, NameAssumption DEF MhLink, Shape
      <3> QED
        BY <2>1, <3>2 DEF DelLink, Erased
    <2>2. ASSUME NEW t \in App, JoinTimer(t) PROVE FALSE
      <3>1. t = ender /\ ender # None /\ pc[ender] = "joinTimer"
        BY <2>2, NameAssumption DEF JoinTimer, EndInv, EndPC
      <3> QED
        BY <1>4, <3>1 DEF EndInv, Wanted
    <2>3. CASE Read
      BY <1>1, <1>4, <2>3 DEF Read, EnterDestroy, Enter, Goto, At, Shape
    <2> QED
      BY <1>4, <2>1, <2>2, <2>3, WatchFrame
  <1>5. CASE l \in m_maplink /\ Wanted(l) /\ l \notin registered
    <2>1. PICK u \in Threads : arg[u] = l /\ pc[u] \in Soon
      BY <1>0, <1>5 DEF NoDeafLink, Wanted, At
    <2>2. CASE Stays(u)
      BY <2>1, <2>2 DEF Stays, At
    <2>3. CASE ~Stays(u)
      <3>1. \/ u \in App /\ TellApp(u)
            \/ u = Worker /\ SetLink
            \/ u = Worker /\ TellAccepted
            \/ AttachGet(u) \/ AttachCtl(u) \/ DelLink(u)
        BY <1>1, <2>1, <2>3, Leaves
           DEF Settled, AttachPC, DestroyPC, DestroyCheck, DestroySet, DestroyTell
      <3>2. CASE u \in App /\ TellApp(u)
        BY <1>1, <2>1, <3>2 DEF TellApp, Enter, Goto, At, Shape, AttachPC
      <3>3. CASE u = Worker /\ TellAccepted
        BY <1>1, <2>1, <3>3 DEF TellAccepted, Goto, At, Shape, AttachPC
      <3>4. CASE AttachGet(u)
        BY <1>1, <1>5, <2>1, <3>4 DEF AttachGet, Goto, At, Wanted, Shape, AttachPC
      <3>5. CASE AttachCtl(u)
        BY <2>1, <3>5 DEF AttachCtl, Attached
      <3>6. CASE DelLink(u)
        <4>1. Nameless(l) /\ u # Worker
          BY <2>1, <3>6 DEF DelLink, Erased, MhLink, Nameless
        <4> QED
          BY <1>1, <3>6, <4>1, NameAssumption
          DEF Nameless, DelLink, Enter, Goto, At, Shape
      <3>7. CASE u = Worker /\ SetLink
        BY <1>1, <2>1, <3>7 DEF SetLink, Goto, At, Shape
      <3> QED
        BY <3>1, <3>2, <3>3, <3>4, <3>5, <3>6, <3>7
    <2> QED
      BY <2>2, <2>3
  <1> QED
    BY <1>2, <1>3, <1>4, <1>5

-----------------------------------------------------------------------------
(* Threads in link_destroy on one link that never overlap: the socket is   *)
(* open for the first of them only.                                        *)

LEMMA CloseStep == TypeInv /\ FreshInv /\ CloseInv /\ [Next]_vars => CloseInv'
  <1> SUFFICES ASSUME TypeInv, FreshInv, CloseInv, [Next]_vars PROVE CloseInv'
    OBVIOUS
  <1>1. Shape
    BY ShapeOf
  <1>2. TellingNone'
    <2> SUFFICES ASSUME NEW u \in Threads, pc'[u] = "destTell"
                 PROVE  mi_socket'[arg'[u]] = "none"
      BY DEF TellingNone
    <2>1. CASE Stays(u)
      <3>1. arg'[u] = arg[u] /\ arg[u] \in Links /\ mi_socket[arg[u]] = "none"
        BY <1>1, <2>1 DEF Stays, CloseInv, TellingNone, ArgPC, DestroyPC, Shape
      <3> QED
        BY <1>1, <3>1, Monotone
    <2>2. CASE ~Stays(u)
      <3>1. DestroySet(u)
        BY <1>1, <2>2, Enters
           DEF DelLink, DestroyCheck, DestroyReturn, Enter, Goto, Shape
      <3> QED
        BY <1>1, <3>1 DEF DestroySet, SocketGone, ArgPC, DestroyPC, Shape
    <2> QED
      BY <2>1, <2>2
  <1>3. ClosedNone'
    <2> SUFFICES ASSUME NEW l \in Links, closes'[l] > 0 PROVE mi_socket'[l] = "none"
      BY DEF ClosedNone
    <2>1. CASE closes[l] > 0
      BY <1>1, <2>1, Monotone DEF CloseInv, ClosedNone
    <2>2. CASE ~(closes[l] > 0)
      <3>1. PICK t \in Threads : DestroyTell(t)
        BY <2>2, CloseFrame
      <3>2. arg[t] = l
        BY <1>1, <2>2, <3>1 DEF DestroyTell, Shape
      <3> QED
        BY <3>1, <3>2 DEF DestroyTell, CloseInv, TellingNone
    <2> QED
      BY <2>1, <2>2
  <1>4. ASSUME NEW l \in Links, l \notin raced',
               NEW u \in Threads, pc'[u] \in DestroyPC, arg'[u] = l
        PROVE  \/ pc[u] \in DestroyPC /\ arg[u] = l
               \/ \A v \in Threads \ {u} :
                      ~(pc[v] \in DestroyPC /\ arg[v] = l) /\ Stays(v) /\ pc'[u] = "destLink"
    <2>1. CASE Stays(u)
      BY <1>4, <2>1 DEF Stays
    <2>2. CASE ~Stays(u) /\ pc'[u] = "destLink"
      <3>1. EnterDestroy(u, l)
        BY <1>1, <1>4, <2>2, Enters
      <3> QED
        BY <1>1, <1>4, <2>2, <3>1 DEF EnterDestroy, Enter, Goto, Stays, Shape
    <2>3. CASE ~Stays(u) /\ pc'[u] # "destLink"
      <3>1. DelLink(u) \/ DestroyCheck(u) \/ DestroySet(u)
        BY <1>1, <1>4, <2>3, Enters DEF DestroyPC
      <3> QED
        BY <1>1, <1>4, <3>1
           DEF DelLink, DestroyCheck, DestroySet, DestroyReturn, Enter, Goto, DestroyPC,
               Shape
    <2> QED
      BY <2>1, <2>2, <2>3
  <1>5. OneDestroyer'
    <2> SUFFICES ASSUME NEW l \in Links, l \notin raced', NEW t \in Threads, NEW u \in Threads,
                        pc'[t] \in DestroyPC, arg'[t] = l, pc'[u] \in DestroyPC,
                        arg'[u] = l,
                        t # u
                 PROVE  FALSE
      BY DEF OneDestroyer
    <2>1. l \notin raced
      BY CloseFrame
    <2>2. ~(pc[t] \in DestroyPC /\ arg[t] = l /\ pc[u] \in DestroyPC /\ arg[u] = l)
      BY <2>1 DEF CloseInv, OneDestroyer
    <2> QED
      BY <1>4, <2>2 DEF Stays
  <1>6. ClosingFirst'
    <2> SUFFICES ASSUME NEW l \in Links, l \notin raced', NEW u \in Threads, arg'[u] = l,
                        pc'[u] \in {"destSet", "destTell"}
                 PROVE  closes'[l] = 0
      BY DEF ClosingFirst
    <2>1. l \notin raced
      BY CloseFrame
    <2>2. closes[l] = 0
      <3>1. CASE Stays(u)
        BY <2>1, <3>1 DEF Stays, CloseInv, ClosingFirst
      <3>2. CASE ~Stays(u) /\ DestroyCheck(u)
        <4>1. mi_socket[l] = "open"
          BY <1>1, <3>2 DEF DestroyCheck, DestroyReturn, Enter, Goto, Shape
        <4> QED
          BY <1>1, <4>1 DEF CloseInv, ClosedNone, Shape
      <3>3. CASE ~Stays(u) /\ DestroySet(u)
        BY <2>1, <3>3 DEF DestroySet, CloseInv, ClosingFirst
      <3>4. ~DelLink(u)
        BY <1>1 DEF DelLink, Enter, Goto, Shape
      <3> QED
        BY <1>1, <3>1, <3>2, <3>3, <3>4, Enters
    <2>3. ASSUME NEW t \in Threads, DestroyTell(t) PROVE arg[t] # l
      <3>1. CASE t = u
        BY <1>1, <2>3, <3>1 DEF DestroyTell, DestroyReturn, Enter, Goto, Shape
      <3>2. CASE t # u
        <4>1. Stays(u)
          BY <1>1, <2>3, <3>2 DEF DestroyTell, DestroyReturn, Enter, Goto, Stays, Shape
        <4>2. pc[u] \in DestroyPC /\ arg[u] = l /\ pc[t] \in DestroyPC
          BY <2>3, <4>1 DEF Stays, DestroyTell, DestroyPC
        <4> QED
          BY <2>1, <3>2, <4>2 DEF CloseInv, OneDestroyer
      <3> QED
        BY <3>1, <3>2
    <2> QED
      BY <1>1, <2>2, <2>3, CloseFrame DEF DestroyTell, Shape
  <1>7. OneClosedUnlessRaced'
    <2> SUFFICES ASSUME NEW l \in Links, l \notin raced' PROVE closes'[l] <= 1
      BY DEF OneClosedUnlessRaced
    <2>1. l \notin raced /\ closes[l] \in Nat /\ closes[l] <= 1
      BY <1>1, CloseFrame DEF CloseInv, OneClosedUnlessRaced, Shape
    <2>2. ASSUME NEW t \in Threads, DestroyTell(t) PROVE closes'[l] <= 1
      <3>1. CASE arg[t] = l
        <4>1. closes[l] = 0
          BY <2>1, <2>2, <3>1 DEF DestroyTell, CloseInv, ClosingFirst
        <4> QED
          BY <1>1, <2>2, <3>1, <4>1 DEF DestroyTell, Shape
      <3>2. CASE arg[t] # l
        BY <1>1, <2>1, <2>2, <3>2 DEF DestroyTell, Shape
      <3> QED
        BY <3>1, <3>2
    <2> QED
      BY <2>1, <2>2, CloseFrame
  <1> QED
    BY <1>2, <1>3, <1>5, <1>6, <1>7 DEF CloseInv

(* The threads end in order: worker, timeout thread, then the links.       *)
LEMMA EndStep == TypeInv /\ EndInv /\ [Next]_vars => EndInv'
  <1> SUFFICES ASSUME TypeInv, EndInv, [Next]_vars PROVE EndInv'
    OBVIOUS
  <1> USE NameAssumption
         DEF Goto, Enter, Tell, AppPC, WorkerPC, TimerPC, DestroyPC, AttachPC, TypeInv,
             TypeOK, ArgInv, ArgPC, EndInv, EndPC
  <1>1. ASSUME NEW t \in App, NEW l \in Links, Create(t, l) PROVE EndInv'
    BY <1>1 DEF Create, MayCall
  <1>2. ASSUME NEW t \in App, NEW l \in Links, FindUnused(t, l) PROVE EndInv'
    BY <1>2 DEF FindUnused, MayCall, Knows, Unused
  <1>3. ASSUME NEW t \in App, NEW l \in Links, Destroy(t, l) PROVE EndInv'
    BY <1>3 DEF Destroy, MayCall, Knows
  <1>4. ASSUME NEW t \in App, Uninit(t) PROVE EndInv'
    BY <1>4 DEF Uninit, MayCall
  <1>5. ASSUME NEW t \in App, Connect(t) PROVE EndInv'
    BY <1>5 DEF Connect
  <1>6. ASSUME NEW t \in App, Listen(t) PROVE EndInv'
    BY <1>6 DEF Listen
  <1>7. ASSUME NEW t \in App, TellApp(t) PROVE EndInv'
    BY <1>7 DEF TellApp
  <1>8. ASSUME NEW t \in Threads, AttachGet(t) PROVE EndInv'
    BY <1>8 DEF AttachGet, AfterAttach
  <1>9. ASSUME NEW t \in Threads, AttachCtl(t) PROVE EndInv'
    BY <1>9 DEF AttachCtl, AfterAttach, Attached
  <1>10. ASSUME NEW t \in App, DestroyFound(t) PROVE EndInv'
    BY <1>10 DEF DestroyFound, EnterDestroy
  <1>11. ASSUME NEW t \in Threads, DelLink(t) PROVE EndInv'
    BY <1>11 DEF DelLink, Erased, MhLink, Nameless
  <1>12. ASSUME NEW t \in Threads, DestroyCheck(t) PROVE EndInv'
    BY <1>12 DEF DestroyCheck, DestroyReturn
  <1>13. ASSUME NEW t \in Threads, DestroySet(t) PROVE EndInv'
    BY <1>13 DEF DestroySet, Edge, SocketGone
  <1>14. ASSUME NEW t \in Threads, DestroyTell(t) PROVE EndInv'
    BY <1>14 DEF DestroyTell, DestroyReturn
  <1>15. ASSUME NEW t \in Threads, NEW l \in Links, NextDestroy(t, l) PROVE EndInv'
    BY <1>15 DEF NextDestroy, EnterDestroy
  <1>16. ASSUME NEW t \in Threads, AllDestroyed(t) PROVE EndInv'
    BY <1>16 DEF AllDestroyed
  <1>17. ASSUME NEW t \in App, JoinWorker(t) PROVE EndInv'
    BY <1>17 DEF JoinWorker
  <1>18. ASSUME NEW t \in App, JoinTimer(t) PROVE EndInv'
    BY <1>18 DEF JoinTimer
  <1>19. ASSUME NEW t \in App, FreeAll(t) PROVE EndInv'
    BY <1>19 DEF FreeAll, LinksToFree
  <1>20. ASSUME EpollWait PROVE EndInv'
    BY <1>20 DEF EpollWait
  <1>21. ASSUME TakeExit PROVE EndInv'
    BY <1>21 DEF TakeExit
  <1>22. ASSUME BatchDone PROVE EndInv'
    BY <1>22 DEF BatchDone, Handled
  <1>23. ASSUME NEW l \in Links, TakeStale(l) PROVE EndInv'
    BY <1>23 DEF TakeStale, Take
  <1>24. ASSUME NEW l \in Links, TakeHup(l) PROVE EndInv'
    BY <1>24 DEF TakeHup, Take
  <1>25. ASSUME NEW l \in Links, TakeListen(l) PROVE EndInv'
    BY <1>25 DEF TakeListen, Take
  <1>26. ASSUME NEW l \in Links, TakeConnected(l) PROVE EndInv'
    BY <1>26 DEF TakeConnected, Take
  <1>27. ASSUME NEW l \in Links, TakeRead(l) PROVE EndInv'
    BY <1>27 DEF TakeRead, Take
  <1>28. ASSUME TellDisc PROVE EndInv'
    BY <1>28 DEF TellDisc
  <1>29. ASSUME NEW l \in Links, Accept(l) PROVE EndInv'
    BY <1>29 DEF Accept
  <1>30. ASSUME TellAccepted PROVE EndInv'
    BY <1>30 DEF TellAccepted
  <1>31. ASSUME AcceptDone PROVE EndInv'
    BY <1>31 DEF AcceptDone
  <1>32. ASSUME Read PROVE EndInv'
    BY <1>32 DEF Read, EnterDestroy
  <1>33. ASSUME ReadEnd PROVE EndInv'
    BY <1>33 DEF ReadEnd
  <1>34. ASSUME TimerCheck PROVE EndInv'
    BY <1>34 DEF TimerCheck, Expirable, CheckAlive
  <1>35. ASSUME TimerStop PROVE EndInv'
    BY <1>35 DEF TimerStop
  <1>36. ASSUME NEW l \in Links, Arrives(l) PROVE EndInv'
    BY <1>36 DEF Arrives
  <1>37. ASSUME NEW l \in Links, PeerCloses(l) PROVE EndInv'
    BY <1>37 DEF PeerCloses, Edge
  <1>38. ASSUME NEW l \in Links, NEW n \in Links, PeerConnects(l, n) PROVE EndInv'
    BY <1>38 DEF PeerConnects, Edge
  <1>39. ASSUME SetLink PROVE EndInv'
    BY <1>39 DEF SetLink
  <1>40. ASSUME Flush PROVE EndInv'
    BY <1>40 DEF Flush, Handled
  <1>41. ASSUME FlushEnds PROVE EndInv'
    BY <1>41 DEF FlushEnds
  <1>42. CASE UNCHANGED vars
    BY <1>42, SMTT(30) DEF vars
  <1> QED
    BY Zenon, <1>1, <1>2, <1>3, <1>4, <1>5, <1>6, <1>7, <1>8, <1>9, <1>10, <1>11, <1>12,
       <1>13, <1>14, <1>15, <1>16, <1>17, <1>18, <1>19, <1>20, <1>21, <1>22, <1>23,
       <1>24, <1>25, <1>26, <1>27, <1>28, <1>29, <1>30, <1>31, <1>32, <1>33, <1>34,
       <1>35, <1>36, <1>37, <1>38, <1>39, <1>40, <1>41, <1>42
       DEF Next, Call, AppStep, WorkerStep, TimerStep, Environment, LinkDestroy, Attach,
           DestroyEach, End
-----------------------------------------------------------------------------
LEMMA Inductive == Spec => []IInv
  <1>1. Init => IInv
    BY Initially
  <1>2. IInv /\ [Next]_vars => IInv'
    BY TypeStep, FreshStep, KnownStep, GoneStep, DeafStep, CloseStep, EndStep DEF IInv
  <1> QED
    BY <1>1, <1>2, PTL DEF Spec

(* Every variable keeps its type: no thread takes a branch of another's.   *)
THEOREM TypeCorrect == Spec => []TypeOK
  <1>1. IInv => TypeOK
    BY DEF IInv, TypeInv
  <1> QED
    BY <1>1, Inductive, PTL

(* The first event about a link is CREATED or ACCEPTED (ms_tcp_create,     *)
(* on_event_accept), however many threads are at work on the table, and    *)
(* although any accepted link may expire at any moment: the one exception  *)
(* is a link the timeout thread was in link_destroy with before ACCEPTED.  *)
THEOREM FirstEventAnnounces == Spec => []AnnouncedFirst
  <1>1. IInv => AnnouncedFirst
    BY DEF IInv, KnownInv
  <1> QED
    BY <1>1, Inductive, PTL

(* After CLOSED the handle cannot be found any more (link_destroy), with   *)
(* the same exception.                                                     *)
THEOREM ClosedIsFinal == Spec => []ClosedMeansGone
  <1>1. IInv => ClosedMeansGone
    BY DEF IInv, GoneInv
  <1> QED
    BY <1>1, Inductive, PTL

(* No link leaves the table without the callback being told, whichever of  *)
(* the worker, the timeout thread and the application takes it out; but    *)
(* for links destroyed before they were announced.                         *)
THEOREM RemovalIsReported == Spec => []RemovedIsTold
  <1>1. IInv => RemovedIsTold
    BY DEF IInv, GoneInv
  <1> QED
    BY <1>1, Inductive, PTL

(* A link in the table that listens or is connected is watched by epoll,   *)
(* or a thread is about to see to it, or epoll_ctl() has refused it: the   *)
(* ignored result of attach_to_epoll is the only way to a deaf link.       *)
THEOREM LinksAreWatched == Spec => []NoDeafLink
  <1>1. IInv => NoDeafLink
    BY DEF IInv
  <1> QED
    BY <1>1, Inductive, PTL

(* CLOSED is delivered twice only if two threads were in link_destroy on   *)
(* the link at the same time.                                              *)
THEOREM ClosedOnce == Spec => []OneClosedUnlessRaced
  <1>1. IInv => OneClosedUnlessRaced
    BY DEF IInv, CloseInv
  <1> QED
    BY <1>1, Inductive, PTL

(* When ms_tcp_uninit has returned, no thread runs, no link is in the      *)
(* table, and the callback was told of the end of every link that was not  *)
(* destroyed before it was announced.                                      *)
THEOREM UninitIsComplete == Spec => []UninitLeavesNothing
  <1>1. IInv => UninitLeavesNothing
    <2> SUFFICES ASSUME IInv, NEW t \in App, pc[t] = "ended"
                 PROVE  /\ m_maplink = {}
                        /\ pc[Worker] = "done" /\ pc[Timer] = "done"
                        /\ \A l \in Links \ hasty : Published(l) => Goodbye(l)
      BY DEF UninitLeavesNothing
    <2>1. t = ender /\ ender # None
      BY NameAssumption DEF IInv, EndInv, EndPC
    <2>2. /\ pc[Worker] = "done" /\ pc[Timer] = "done"
          /\ \A u \in App \ {t} : pc[u] = "idle"
          /\ m_maplink = {}
      BY <2>1 DEF IInv, EndInv, EndPC, DestroyPC
    <2>3. \A l \in Links : ~At(l, {"destCheck", "destSet", "destTell", "tellFailed"})
      BY <2>2 DEF At
    <2>4. \A l \in Links \ hasty : Published(l) => Goodbye(l)
      BY <2>2, <2>3 DEF IInv, GoneInv, RemovedIsTold
    <2> QED
      BY <2>2, <2>4
  <1> QED
    BY <1>1, Inductive, PTL
-----------------------------------------------------------------------------
(* The contract: every step of TcpLink is a step of LinkContract, or leaves*)
(* what the contract speaks of alone.                                      *)

(* A link is published when it enters the table, and not otherwise.        *)
LEMMA PublishedFrame ==
    ASSUME Shape, FreshInv, [Next]_vars, NEW l \in Links,
    l \notin m_maplink' \ m_maplink
    PROVE  Published(l)' <=> Published(l)
  <1>1. ASSUME NEW t \in App, NEW k \in Links, Create(t, k)
        PROVE  Published(l)' <=> Published(l)
    <2>1. k # l
      BY <1>1 DEF Create, FreshInv, Published
    <2> QED
      BY <1>1, <2>1 DEF Create, Published, Shape
  <1>2. ASSUME NEW k \in Links, Accept(k)
        PROVE  Published(l)' <=> Published(l)
    <2>1. k # l
      BY <1>2 DEF Accept, FreshInv, Published, Shape
    <2> QED
      BY <1>2, <2>1 DEF Accept, Published, Shape
  <1>3. ASSUME NEW t \in App, Connect(t)
        PROVE  Published(l)' <=> Published(l)
    BY <1>3, NameAssumption DEF Connect, FreshInv, Published, Shape, ArgPC
  <1>4. ASSUME NEW t \in Threads, DestroySet(t)
        PROVE  Published(l)' <=> Published(l)
    BY <1>4 DEF DestroySet, SocketGone, FreshInv, Published, Shape, ArgPC, DestroyPC
  <1>5. ASSUME NEW k \in Links, NEW n \in Links, PeerConnects(k, n)
        PROVE  Published(l)' <=> Published(l)
    BY <1>5 DEF PeerConnects, Published, Shape
  <1>6. ASSUME UNCHANGED mi_socket
        PROVE  Published(l)' <=> Published(l)
    BY <1>6 DEF Published
  <1> QED
    BY <1>1, <1>2, <1>3, <1>4, <1>5, <1>6, SocketFrame

(* So the status of a link follows the table.                              *)
LEMMA StatusFrame ==
    ASSUME Shape, FreshInv, [Next]_vars, NEW l \in Links
    PROVE  /\ (l \in m_maplink <=> l \in m_maplink') => Status'[l] = Status[l]
           /\ l \in m_maplink' \ m_maplink => Status[l] = "none" /\ Status'[l] = "live"
           /\ l \in m_maplink \ m_maplink' => Status[l] = "live" /\ Status'[l] = "dead"
  <1>1. CASE l \in m_maplink' \ m_maplink
    BY <1>1, Newcomers DEF Status
  <1>2. CASE l \notin m_maplink' \ m_maplink
    <2>1. Published(l)' <=> Published(l)
      BY <1>2, PublishedFrame
    <2>2. l \in m_maplink => Published(l)
      BY DEF FreshInv
    <2> QED
      BY <1>2, <2>1, <2>2 DEF Status
  <1> QED
    BY <1>1, <1>2

(* What the callback is told fits the moment, and is all that happens.     *)
LEMMA ToldStep ==
    ASSUME Shape, FreshInv, KnownInv, GoneInv, [Next]_vars
    PROVE  \/ UNCHANGED told
           \/ \E l \in Links, e \in Event :
                 /\ Published(l)
                 /\ e \in {"CREATED", "ACCEPTED"} \/ Announced(l) \/ l \in hasty
                 /\ e = "CLOSED" => l \notin m_maplink \/ l \in hasty
                 /\ Tell(l, e) /\ UNCHANGED <<m_maplink, mi_socket, hasty>>
  <1> DEFINE Report(l, e) == /\ Published(l)
                             /\ e \in {"CREATED", "ACCEPTED"} \/ Announced(l) \/ l \in hasty
                             /\ e = "CLOSED" => l \notin m_maplink \/ l \in hasty
                             /\ Tell(l, e) /\ UNCHANGED <<m_maplink, mi_socket, hasty>>
             Some == \E l \in Links, e \in Event : Report(l, e)
  <1>1. ASSUME NEW t \in Threads, pc[t] \in ArgPC
        PROVE  arg[t] \in Links /\ Published(arg[t])
    BY <1>1 DEF FreshInv, Shape
  <1>2. ASSUME NEW t \in Threads, pc[t] \in KnownPC, pc[t] # "destLink"
        PROVE  Announced(arg[t]) \/ arg[t] \in hasty
    BY <1>2 DEF KnownInv, HandsKnown
  <1> USE DEF NewPC
  <1>3. ASSUME NEW t \in App, TellApp(t) PROVE Some
    <2>1. CASE pc[t] = "tellCreated"
      <3>1. arg[t] \in Links /\ Report(arg[t], "CREATED")
        BY <1>1, <1>3, <2>1 DEF TellApp, ArgPC
      <3> QED
        BY <3>1 DEF Event
    <2>2. CASE pc[t] = "tellFailed"
      <3>1. arg[t] \in Links /\ Report(arg[t], "DISCONNECTED")
        BY <1>1, <1>2, <1>3, <2>2 DEF TellApp, ArgPC, KnownPC
      <3> QED
        BY <3>1 DEF Event
    <2>3. CASE pc[t] = "tellConnected"
      <3>1. arg[t] \in Links /\ Report(arg[t], "CONNECTED")
        BY <1>1, <1>2, <1>3, <2>3 DEF TellApp, ArgPC, KnownPC
      <3> QED
        BY <3>1 DEF Event
    <2> QED
      BY <1>3, <2>1, <2>2, <2>3 DEF TellApp
  <1>4. ASSUME NEW t \in Threads, DestroyTell(t), ~UNCHANGED told PROVE Some
    <2>1. arg[t] \notin m_maplink \/ arg[t] \in hasty
      BY <1>4 DEF DestroyTell, GoneInv, ClosingGone
    <2>2. arg[t] \in Links /\ Report(arg[t], "CLOSED")
      BY <1>1, <1>2, <1>4, <2>1 DEF DestroyTell, ArgPC, KnownPC, DestroyPC
    <2> QED
      BY <2>2 DEF Event
  <1>5. ASSUME TellDisc PROVE Some
    <2>1. arg[Worker] \in Links /\ Report(arg[Worker], "DISCONNECTED")
      BY <1>1, <1>2, <1>5 DEF TellDisc, ArgPC, KnownPC
    <2> QED
      BY <2>1 DEF Event
  <1>6. ASSUME TellAccepted PROVE Some
    <2>1. arg[Worker] \in Links /\ Report(arg[Worker], "ACCEPTED")
      BY <1>1, <1>6 DEF TellAccepted, ArgPC
    <2> QED
      BY <2>1 DEF Event
  <1>7. ASSUME Read \/ ReadEnd PROVE Some
    <2>1. arg[Worker] \in Links /\ Report(arg[Worker], "RECEIVEDATA")
      BY <1>1, <1>2, <1>7 DEF Read, ReadEnd, ArgPC, KnownPC
    <2> QED
      BY <2>1 DEF Event
  <1> QED
    BY <1>3, <1>4, <1>5, <1>6, <1>7, ToldFrame

(* One link at a time enters the table or, announced, leaves it; one that  *)
(* is destroyed unannounced becomes hasty.                                 *)
LEMMA TableStep ==
    ASSUME Shape, FreshInv, KnownInv, [Next]_vars
    PROVE  \/ UNCHANGED <<m_maplink, hasty>>
           \/ \E l \in Links : /\ l \notin m_maplink /\ m_maplink' = m_maplink \cup {l}
                               /\ UNCHANGED <<told, hasty>>
           \/ \E l \in Links : /\ l \in m_maplink /\ m_maplink' = m_maplink \ {l}
                               /\ Announced(l) /\ UNCHANGED <<told, hasty>>
           \/ \E l \in Links : /\ Published(l) /\ ~Announced(l) /\ hasty' = hasty \cup {l}
                               /\ m_maplink' \in {m_maplink, m_maplink \ {l}}
                               /\ UNCHANGED told
  <1>1. ASSUME NEW t \in App, NEW l \in Links, Create(t, l)
        PROVE  l \notin m_maplink /\ m_maplink' = m_maplink \cup {l} /\ UNCHANGED <<told,
        hasty>>
    BY <1>1 DEF Create, FreshInv, Published, histVars
  <1>2. ASSUME NEW l \in Links, Accept(l)
        PROVE  l \notin m_maplink /\ m_maplink' = m_maplink \cup {l} /\ UNCHANGED <<told,
        hasty>>
    BY <1>2 DEF Accept, FreshInv, Published, histVars, Shape
  <1>3. ASSUME NEW t \in Threads, DelLink(t), Announced(arg[t]), m_maplink' # m_maplink
        PROVE  /\ arg[t] \in Links /\ arg[t] \in m_maplink /\ m_maplink' = m_maplink \ {arg[t]}
               /\ UNCHANGED <<told, hasty>>
    <2>1. MhLink(arg[t]) = arg[t]
      BY <1>3 DEF KnownInv, UntoldYet, MhLink, Nameless
    <2> QED
      BY <1>3, <2>1 DEF DelLink, Erased, Shape, ArgPC, DestroyPC
  <1>4. ASSUME NEW t \in Threads, DelLink(t), ~Announced(arg[t])
        PROVE  /\ arg[t] \in Links /\ Published(arg[t]) /\ hasty' = hasty \cup {arg[t]}
               /\ m_maplink' \in {m_maplink, m_maplink \ {arg[t]}}
               /\ UNCHANGED told
    <2>1. arg[t] \in Links /\ Published(arg[t])
      BY <1>4 DEF DelLink, FreshInv, Shape, ArgPC, DestroyPC
    <2>2. MhLink(arg[t]) \in {arg[t], None} /\ None \notin m_maplink
      BY NameAssumption DEF MhLink, Shape
    <2>3. m_maplink' \in {m_maplink, m_maplink \ {arg[t]}}
      BY <1>4, <2>2 DEF DelLink, Erased
    <2> QED
      BY <1>4, <2>1, <2>3 DEF DelLink
  <1>5. ASSUME NEW t \in Threads, DelLink(t), Announced(arg[t]) PROVE UNCHANGED hasty
    BY <1>5 DEF DelLink
  <1>6. CASE \E t \in Threads : DelLink(t)
    BY <1>3, <1>4, <1>5, <1>6
  <1>7. CASE ~\E t \in Threads : DelLink(t)
    <2>1. UNCHANGED hasty
      BY <1>7, CloseFrame
    <2> QED
      BY <1>1, <1>2, <1>7, <2>1, TableFrame
  <1> QED
    BY <1>6, <1>7

LEMMA ContractInit == Init => Contract!Init
  BY DEF Init, Contract!Init, Status, Published

LEMMA ContractStep == IInv /\ [Next]_vars => [Contract!Next]_(Contract!contractVars)
  <1> SUFFICES ASSUME IInv, [Next]_vars
               PROVE  Contract!Next \/ UNCHANGED <<Status, told, hasty>>
    BY DEF Contract!contractVars
  <1>1. Shape /\ FreshInv /\ KnownInv /\ GoneInv
    BY ShapeOf DEF IInv
  <1>2. /\ DOMAIN Status = Links /\ DOMAIN Status' = Links
        /\ Status = [l \in Links |-> Status[l]] /\ Status' = [l \in Links |-> Status'[l]]
    BY DEF Status
  <1>3. ASSUME NEW l \in Links, l \notin m_maplink, m_maplink' = m_maplink \cup {l},
               UNCHANGED <<told, hasty>>
        PROVE  Contract!Publish(l)
    <2>1. Status[l] = "none" /\ Status'[l] = "live"
      BY <1>1, <1>3, StatusFrame
    <2>2. \A k \in Links \ {l} : Status'[k] = Status[k]
      BY <1>1, <1>3, StatusFrame
    <2>3. Status' = [Status EXCEPT ![l] = "live"]
      BY <1>2, <2>1, <2>2
    <2> QED
      BY <1>3, <2>1, <2>3 DEF Contract!Publish
  <1>0. ASSUME NEW l \in Links, l \in m_maplink, m_maplink' = m_maplink \ {l}
        PROVE  Status[l] = "live" /\ Status' = [Status EXCEPT ![l] = "dead"]
    <2>1. Status[l] = "live" /\ Status'[l] = "dead"
      BY <1>0, <1>1, StatusFrame
    <2>2. \A k \in Links \ {l} : Status'[k] = Status[k]
      BY <1>0, <1>1, StatusFrame
    <2> QED
      BY <1>2, <2>1, <2>2
  <1>4. ASSUME NEW l \in Links, l \in m_maplink, m_maplink' = m_maplink \ {l},
               Announced(l), UNCHANGED <<told, hasty>>
        PROVE  Contract!Remove(l)
    BY <1>0, <1>4 DEF Contract!Remove, Contract!Announces, Contract!Announced, Announced
  <1>5. ASSUME UNCHANGED m_maplink PROVE UNCHANGED Status
    <2>1. \A k \in Links : Status'[k] = Status[k]
      BY <1>1, <1>5, StatusFrame
    <2> QED
      BY <1>2, <2>1
  <1>6. ASSUME NEW l \in Links, NEW e \in Event, Published(l),
               e \in {"CREATED", "ACCEPTED"} \/ Announced(l) \/ l \in hasty,
               e = "CLOSED" => l \notin m_maplink \/ l \in hasty,
               Tell(l, e), UNCHANGED <<m_maplink, mi_socket, hasty>>
        PROVE  Contract!Deliver(l, e)
    <2>1. Status[l] # "none" /\ (e = "CLOSED" => Status[l] = "dead" \/ l \in hasty)
      BY <1>6 DEF Status
    <2> QED
      BY <1>5, <1>6, <2>1
         DEF Contract!Deliver, Contract!Announces, Contract!Announced, Announced, Tell
  <1>7. ASSUME NEW l \in Links, Published(l), ~Announced(l), hasty' = hasty \cup {l},
               m_maplink' \in {m_maplink, m_maplink \ {l}}, UNCHANGED told
        PROVE  Contract!Hurry(l)
    <2>1. Status[l] # "none"
      BY <1>7 DEF Status
    <2>2. Status' \in {Status, [Status EXCEPT ![l] = "dead"]}
      <3>1. CASE m_maplink' = m_maplink
        BY <3>1, <1>5
      <3>2. CASE m_maplink' # m_maplink
        BY <3>2, <1>0, <1>7
      <3> QED
        BY <3>1, <3>2
    <2> QED
      BY <1>7, <2>1, <2>2
         DEF Contract!Hurry, Contract!Announces, Contract!Announced, Announced
  <1>8. CASE UNCHANGED <<m_maplink, hasty>>
    <2>1. UNCHANGED told \/ Contract!Next
      BY <1>1, <1>6, ToldStep DEF Contract!Next, Contract!Kinds, Event
    <2> QED
      BY <1>5, <1>8, <2>1
  <1>9. CASE ~UNCHANGED <<m_maplink, hasty>>
    BY <1>1, <1>3, <1>4, <1>7, <1>9, TableStep DEF Contract!Next
  <1> QED
    BY <1>8, <1>9

(* TcpLink implements LinkContract: whatever the threads do, an observer of*)
(* the table and of the callback sees a behaviour of the contract, whose   *)
(* Hurry stands for the timeout thread destroying an unannounced link.     *)
THEOREM ContractIsKept == Spec => KeepsContract
  <1>1. Init => Contract!Init
    BY ContractInit
  <1>2. IInv /\ [Next]_vars => [Contract!Next]_(Contract!contractVars)
    BY ContractStep
  <1> QED
    BY <1>1, <1>2, Inductive, PTL DEF Spec, KeepsContract, Contract!Spec
=============================================================================
