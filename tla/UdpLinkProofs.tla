--------------------------- MODULE UdpLinkProofs ----------------------------
(***************************************************************************)
(* Proofs about UdpLink, for every value of its constants: the variables   *)
(* keep their types, the callback hears of a link early only while         *)
(* ms_udp_create runs, a sender that waits is not stranded by a            *)
(* link_destroy, and ms_udp_uninit leaves nothing behind.                  *)
(***************************************************************************)
EXTENDS UdpLink, TLAPS

(* The names of sets of labels and of tuples of variables are expanded     *)
(* throughout.                                                             *)
USE DEF Threads, Event, DestroyPC, CallPC, AppPC, WorkerPC, kernelVars, endVars, histVars,
        workVars

-----------------------------------------------------------------------------
(* The invariant, in the parts the lemmas below treat one by one.          *)

(* A link in the table is open.                                            *)
LinkInv == \A l \in m_maplink : mi_socket[l] = "open"

(* A call works on a created link, and so will free_all_link_map; and      *)
(* link_destroy gives up the socket of a link that has left the table.     *)
CallInv ==
    /\ \A t \in Threads : Busy(t) => mi_socket[arg[t]] # "new"
    /\ \A l \in todo : mi_socket[l] # "new"
    /\ \A t \in Threads : pc[t] \in {"destCheck", "destShut", "destSet", "destTell"} =>
            arg[t] \notin m_maplink

(* Who gives up a socket has shut it down, or somebody before it.          *)
ShutInv ==
    /\ \A l \in Links : mi_socket[l] = "none" => l \in shut
    /\ \A t \in App : pc[t] = "destSet" => arg[t] \in shut

TableInv == LinkInv /\ CallInv /\ ShutInv

(* Nothing is known of a link, and epoll does not watch it, ...            *)
Unheard(l) == told[l] = {} /\ l \notin registered \cup ready \cup batch

(* ... before it is created, nor until its creator has attached it: nobody *)
(* else works on it.                                                       *)
NewInv == \A l \in Links : mi_socket[l] = "new" => Unheard(l)
AttachInv ==
    \A t \in App : pc[t] = "attach" =>
        /\ Unheard(arg[t])
        /\ \A u \in Threads \ {t} : Busy(u) => arg[u] # arg[t]

(* Until CREATED is delivered its creator is on the way to do it.          *)
CreateInv ==
    \A l \in Links : mi_socket[l] # "new" /\ "CREATED" \notin told[l] =>
        \E t \in App : arg[t] = l /\ pc[t] \in {"attach", "tellCreated"}

EarlyInv == NewInv /\ AttachInv /\ CreateInv

(* A link that has left the table is on its way to CLOSED.                 *)
GoneInv ==
    \A l \in Links :
        /\ mi_socket[l] = "open" =>
            \/ l \in m_maplink
            \/ \E t \in App : arg[t] = l /\ pc[t] \in {"destCheck", "destShut", "destSet"}
        /\ mi_socket[l] = "none" =>
            "CLOSED" \in told[l] \/ \E t \in App : arg[t] = l /\ pc[t] = "destTell"

(* Who ends is alone, and what is in the table is what it has still to     *)
(* destroy.                                                                *)
EndPC == {"joinWorker", "freeAll", "freeing", "ended"}
AloneInv ==
    \A t \in App : /\ ender = None => pc[t] \notin EndPC
                   /\ ender \notin {None, t} => pc[t] = "idle"
                   /\ ender = t => pc[t] \in EndPC \cup DestroyPC
LastInv ==
    \A t \in App : ender = t =>
        /\ pc[t] # "joinWorker" => pc[Worker] = "done"
        /\ pc[t] \in DestroyPC \cup {"freeing"} =>
            m_maplink \subseteq todo \cup (IF pc[t] = "destLink" THEN {arg[t]} ELSE {})
        /\ pc[t] = "ended" => m_maplink = {}

IInv == TypeOK /\ TableInv /\ EarlyInv /\ GoneInv /\ AloneInv /\ LastInv

-----------------------------------------------------------------------------
(* Type correctness.                                                       *)

LEMMA TypeInit == Init => TypeOK
  <1> SUFFICES ASSUME Init PROVE TypeOK
    OBVIOUS
  <1>1. pc \in [Threads -> {"idle", "wait"}] /\ pc[Worker] = "wait"
        /\ \A t \in App : pc[t] = "idle"
    BY NameAssumption DEF Init
  <1>2. queued \in [Links -> 0..SndRoom] /\ unread \in [Links -> 0..RcvRoom]
    BY SizeAssumption DEF Init
  <1>3. pc \in [Threads -> AppPC \cup WorkerPC]
    BY <1>1
  <1> QED
    BY <1>1, <1>2, <1>3 DEF Init, TypeOK, Busy

LEMMA TypeStep == TypeOK /\ [Next]_vars => TypeOK'
  <1> SUFFICES ASSUME TypeOK, [Next]_vars PROVE TypeOK'
    OBVIOUS
  <1> USE SizeAssumption, NameAssumption DEF TypeOK, Busy, Goto, Enter
  <1>1. ASSUME NEW t \in App, NEW l \in Links, Create(t, l) PROVE TypeOK'
    BY <1>1 DEF Create, MayCall
  <1>2. ASSUME NEW t \in App, NEW l \in Links, SendFind(t, l) PROVE TypeOK'
    BY <1>2 DEF SendFind, MayCall, Knows
  <1>3. ASSUME NEW t \in App, NEW l \in Links, Destroy(t, l) PROVE TypeOK'
    BY <1>3 DEF Destroy, MayCall, Knows
  <1>4. ASSUME NEW t \in App, Uninit(t) PROVE TypeOK'
    BY <1>4 DEF Uninit, MayCall
  <1>5. ASSUME NEW t \in App, Attach(t) PROVE TypeOK'
    BY <1>5 DEF Attach
  <1>6. ASSUME NEW t \in App, TellCreated(t) PROVE TypeOK'
    BY <1>6 DEF TellCreated, Tell
  <1>7. ASSUME NEW t \in App, SendTo(t) PROVE TypeOK'
    BY <1>7 DEF SendTo
  <1>8. ASSUME NEW t \in App, SendDone(t) PROVE TypeOK'
    BY <1>8 DEF SendDone
  <1>9. ASSUME NEW t \in App, SendFails(t) PROVE TypeOK'
    BY <1>9 DEF SendFails
  <1>10. ASSUME NEW t \in App, DelLink(t) PROVE TypeOK'
    BY <1>10 DEF DelLink, Erased
  <1>11. ASSUME NEW t \in App, DestroyCheck(t) PROVE TypeOK'
    BY <1>11 DEF DestroyCheck, DestroyReturn
  <1>12. ASSUME NEW t \in App, DestroyShut(t) PROVE TypeOK'
    BY <1>12 DEF DestroyShut
  <1>13. ASSUME NEW t \in App, DestroySet(t) PROVE TypeOK'
    BY <1>13 DEF DestroySet
  <1>14. ASSUME NEW t \in App, DestroyTell(t) PROVE TypeOK'
    BY <1>14 DEF DestroyTell, DestroyReturn, Tell
  <1>15. ASSUME NEW t \in App, JoinWorker(t) PROVE TypeOK'
    BY <1>15 DEF JoinWorker
  <1>16. ASSUME NEW t \in App, FreeAll(t) PROVE TypeOK'
    BY <1>16 DEF FreeAll
  <1>17. ASSUME NEW t \in App, NEW l \in Links, NextDestroy(t, l) PROVE TypeOK'
    BY <1>17 DEF NextDestroy
  <1>18. ASSUME NEW t \in App, Ended(t) PROVE TypeOK'
    BY <1>18 DEF Ended
  <1>19. ASSUME EpollWait PROVE TypeOK'
    BY <1>19 DEF EpollWait
  <1>20. ASSUME TakeExit PROVE TypeOK'
    BY <1>20 DEF TakeExit
  <1>21. ASSUME NEW l \in Links, TakeRead(l) PROVE TypeOK'
    BY <1>21 DEF TakeRead
  <1>22. ASSUME Read PROVE TypeOK'
    BY <1>22 DEF Read
  <1>23. ASSUME TellData PROVE TypeOK'
    BY <1>23 DEF TellData, Tell
  <1>24. ASSUME BatchDone PROVE TypeOK'
    BY <1>24 DEF BatchDone
  <1>25. ASSUME NEW l \in Links, Arrives(l) PROVE TypeOK'
    BY <1>25 DEF Arrives, Edge
  <1>26. ASSUME NEW l \in Links, Transmit(l) PROVE TypeOK'
    BY <1>26 DEF Transmit, Edge
  <1>27. ASSUME UNCHANGED vars PROVE TypeOK'
    BY <1>27 DEF vars
  <1> QED
    BY <1>1, <1>2, <1>3, <1>4, <1>5, <1>6, <1>7, <1>8, <1>9, <1>10, <1>11, <1>12, <1>13, <1>14,
       <1>15, <1>16, <1>17, <1>18, <1>19, <1>20, <1>21, <1>22, <1>23, <1>24, <1>25, <1>26, <1>27
       DEF Next, Call, InCall, LinkDestroy, WorkerStep, Environment

(* Variables keep their types, every thread stays in its own part of the   *)
(* code, and what it works on is a link, never the empty pointer of a      *)
(* find_link that found nothing.                                           *)
THEOREM TypeCorrect == Spec => []TypeOK
  BY TypeInit, TypeStep, PTL DEF Spec

-----------------------------------------------------------------------------
(* The table and the sockets.                                              *)

LEMMA TableInit == Init => TableInv
  BY NameAssumption DEF Init, TableInv, LinkInv, CallInv, ShutInv, Busy

LEMMA TableStep == TypeOK /\ TableInv /\ [Next]_vars => TableInv'
  <1> SUFFICES ASSUME TypeOK, TableInv, [Next]_vars PROVE TableInv'
    OBVIOUS
  <1> USE NameAssumption DEF TypeOK, Busy, TableInv, LinkInv, CallInv, ShutInv, Goto, Enter
  <1>1. ASSUME NEW t \in App, NEW l \in Links, Create(t, l) PROVE TableInv'
    <2>1. LinkInv'
      BY <1>1 DEF Create, MayCall
    <2>2. CallInv'
      BY <1>1 DEF Create, MayCall
    <2>3. ShutInv'
      BY <1>1 DEF Create, MayCall
    <2> QED  BY <2>1, <2>2, <2>3 DEF TableInv
  <1>2. ASSUME NEW t \in App, NEW l \in Links, SendFind(t, l) PROVE TableInv'
    <2>1. LinkInv'
      BY <1>2 DEF SendFind, MayCall, Knows
    <2>2. CallInv'
      BY <1>2 DEF SendFind, MayCall, Knows
    <2>3. ShutInv'
      BY <1>2 DEF SendFind, MayCall, Knows
    <2> QED  BY <2>1, <2>2, <2>3 DEF TableInv
  <1>3. ASSUME NEW t \in App, NEW l \in Links, Destroy(t, l) PROVE TableInv'
    <2>1. LinkInv'
      BY <1>3 DEF Destroy, MayCall, Knows
    <2>2. CallInv'
      BY <1>3 DEF Destroy, MayCall, Knows
    <2>3. ShutInv'
      BY <1>3 DEF Destroy, MayCall, Knows
    <2> QED  BY <2>1, <2>2, <2>3 DEF TableInv
  <1>4. ASSUME NEW t \in App, Uninit(t) PROVE TableInv'
    <2>1. LinkInv'
      BY <1>4 DEF Uninit, MayCall
    <2>2. CallInv'
      BY <1>4 DEF Uninit, MayCall
    <2>3. ShutInv'
      BY <1>4 DEF Uninit, MayCall
    <2> QED  BY <2>1, <2>2, <2>3 DEF TableInv
  <1>5. ASSUME NEW t \in App, Attach(t) PROVE TableInv'
    <2>1. LinkInv'
      BY <1>5 DEF Attach
    <2>2. CallInv'
      BY <1>5 DEF Attach
    <2>3. ShutInv'
      BY <1>5 DEF Attach
    <2> QED  BY <2>1, <2>2, <2>3 DEF TableInv
  <1>6. ASSUME NEW t \in App, TellCreated(t) PROVE TableInv'
    <2>1. LinkInv'
      BY <1>6 DEF TellCreated, Tell
    <2>2. CallInv'
      BY <1>6 DEF TellCreated, Tell
    <2>3. ShutInv'
      BY <1>6 DEF TellCreated, Tell
    <2> QED  BY <2>1, <2>2, <2>3 DEF TableInv
  <1>7. ASSUME NEW t \in App, SendTo(t) PROVE TableInv'
    <2>1. LinkInv'
      BY <1>7 DEF SendTo
    <2>2. CallInv'
      BY <1>7 DEF SendTo
    <2>3. ShutInv'
      BY <1>7 DEF SendTo
    <2> QED  BY <2>1, <2>2, <2>3 DEF TableInv
  <1>8. ASSUME NEW t \in App, SendDone(t) PROVE TableInv'
    <2>1. LinkInv'
      BY <1>8 DEF SendDone
    <2>2. CallInv'
      BY <1>8 DEF SendDone
    <2>3. ShutInv'
      BY <1>8 DEF SendDone
    <2> QED  BY <2>1, <2>2, <2>3 DEF TableInv
  <1>9. ASSUME NEW t \in App, SendFails(t) PROVE TableInv'
    <2>1. LinkInv'
      BY <1>9 DEF SendFails
    <2>2. CallInv'
      BY <1>9 DEF SendFails
    <2>3. ShutInv'
      BY <1>9 DEF SendFails
    <2> QED  BY <2>1, <2>2, <2>3 DEF TableInv
  <1>10. ASSUME NEW t \in App, DelLink(t) PROVE TableInv'
    <2>1. LinkInv'
      BY <1>10 DEF DelLink, Erased
    <2>2. CallInv'
      BY <1>10 DEF DelLink, Erased
    <2>3. ShutInv'
      BY <1>10 DEF DelLink, Erased
    <2> QED  BY <2>1, <2>2, <2>3 DEF TableInv
  <1>11. ASSUME NEW t \in App, DestroyCheck(t) PROVE TableInv'
    <2>1. LinkInv'
      BY <1>11 DEF DestroyCheck, DestroyReturn
    <2>2. CallInv'
      BY <1>11 DEF DestroyCheck, DestroyReturn
    <2>3. ShutInv'
      BY <1>11 DEF DestroyCheck, DestroyReturn
    <2> QED  BY <2>1, <2>2, <2>3 DEF TableInv
  <1>12. ASSUME NEW t \in App, DestroyShut(t) PROVE TableInv'
    <2>1. LinkInv'
      BY <1>12 DEF DestroyShut
    <2>2. CallInv'
      BY <1>12 DEF DestroyShut
    <2>3. ShutInv'
      BY <1>12 DEF DestroyShut
    <2> QED  BY <2>1, <2>2, <2>3 DEF TableInv
  <1>13. ASSUME NEW t \in App, DestroySet(t) PROVE TableInv'
    <2>1. LinkInv'
      BY <1>13 DEF DestroySet
    <2>2. CallInv'
      BY <1>13 DEF DestroySet
    <2>3. ShutInv'
      BY <1>13 DEF DestroySet
    <2> QED  BY <2>1, <2>2, <2>3 DEF TableInv
  <1>14. ASSUME NEW t \in App, DestroyTell(t) PROVE TableInv'
    <2>1. LinkInv'
      BY <1>14 DEF DestroyTell, DestroyReturn, Tell
    <2>2. CallInv'
      BY <1>14 DEF DestroyTell, DestroyReturn, Tell
    <2>3. ShutInv'
      BY <1>14 DEF DestroyTell, DestroyReturn, Tell
    <2> QED  BY <2>1, <2>2, <2>3 DEF TableInv
  <1>15. ASSUME NEW t \in App, JoinWorker(t) PROVE TableInv'
    <2>1. LinkInv'
      BY <1>15 DEF JoinWorker
    <2>2. CallInv'
      BY <1>15 DEF JoinWorker
    <2>3. ShutInv'
      BY <1>15 DEF JoinWorker
    <2> QED  BY <2>1, <2>2, <2>3 DEF TableInv
  <1>16. ASSUME NEW t \in App, FreeAll(t) PROVE TableInv'
    <2>1. LinkInv'
      BY <1>16 DEF FreeAll
    <2>2. CallInv'
      BY <1>16 DEF FreeAll
    <2>3. ShutInv'
      BY <1>16 DEF FreeAll
    <2> QED  BY <2>1, <2>2, <2>3 DEF TableInv
  <1>17. ASSUME NEW t \in App, NEW l \in Links, NextDestroy(t, l) PROVE TableInv'
    <2>1. LinkInv'
      BY <1>17 DEF NextDestroy
    <2>2. CallInv'
      BY <1>17 DEF NextDestroy
    <2>3. ShutInv'
      BY <1>17 DEF NextDestroy
    <2> QED  BY <2>1, <2>2, <2>3 DEF TableInv
  <1>18. ASSUME NEW t \in App, Ended(t) PROVE TableInv'
    <2>1. LinkInv'
      BY <1>18 DEF Ended
    <2>2. CallInv'
      BY <1>18 DEF Ended
    <2>3. ShutInv'
      BY <1>18 DEF Ended
    <2> QED  BY <2>1, <2>2, <2>3 DEF TableInv
  <1>19. ASSUME EpollWait PROVE TableInv'
    <2>1. LinkInv'
      BY <1>19 DEF EpollWait
    <2>2. CallInv'
      BY <1>19 DEF EpollWait
    <2>3. ShutInv'
      BY <1>19 DEF EpollWait
    <2> QED  BY <2>1, <2>2, <2>3 DEF TableInv
  <1>20. ASSUME TakeExit PROVE TableInv'
    <2>1. LinkInv'
      BY <1>20 DEF TakeExit
    <2>2. CallInv'
      BY <1>20 DEF TakeExit
    <2>3. ShutInv'
      BY <1>20 DEF TakeExit
    <2> QED  BY <2>1, <2>2, <2>3 DEF TableInv
  <1>21. ASSUME NEW l \in Links, TakeRead(l) PROVE TableInv'
    <2>1. LinkInv'
      BY <1>21 DEF TakeRead
    <2>2. CallInv'
      BY <1>21 DEF TakeRead
    <2>3. ShutInv'
      BY <1>21 DEF TakeRead
    <2> QED  BY <2>1, <2>2, <2>3 DEF TableInv
  <1>22. ASSUME Read PROVE TableInv'
    <2>1. LinkInv'
      BY <1>22 DEF Read
    <2>2. CallInv'
      BY <1>22 DEF Read
    <2>3. ShutInv'
      BY <1>22 DEF Read
    <2> QED  BY <2>1, <2>2, <2>3 DEF TableInv
  <1>23. ASSUME TellData PROVE TableInv'
    <2>1. LinkInv'
      BY <1>23 DEF TellData, Tell
    <2>2. CallInv'
      BY <1>23 DEF TellData, Tell
    <2>3. ShutInv'
      BY <1>23 DEF TellData, Tell
    <2> QED  BY <2>1, <2>2, <2>3 DEF TableInv
  <1>24. ASSUME BatchDone PROVE TableInv'
    <2>1. LinkInv'
      BY <1>24 DEF BatchDone
    <2>2. CallInv'
      BY <1>24 DEF BatchDone
    <2>3. ShutInv'
      BY <1>24 DEF BatchDone
    <2> QED  BY <2>1, <2>2, <2>3 DEF TableInv
  <1>25. ASSUME NEW l \in Links, Arrives(l) PROVE TableInv'
    <2>1. LinkInv'
      BY <1>25 DEF Arrives, Edge
    <2>2. CallInv'
      BY <1>25 DEF Arrives, Edge
    <2>3. ShutInv'
      BY <1>25 DEF Arrives, Edge
    <2> QED  BY <2>1, <2>2, <2>3 DEF TableInv
  <1>26. ASSUME NEW l \in Links, Transmit(l) PROVE TableInv'
    <2>1. LinkInv'
      BY <1>26 DEF Transmit, Edge
    <2>2. CallInv'
      BY <1>26 DEF Transmit, Edge
    <2>3. ShutInv'
      BY <1>26 DEF Transmit, Edge
    <2> QED  BY <2>1, <2>2, <2>3 DEF TableInv
  <1>27. ASSUME UNCHANGED vars PROVE TableInv'
    <2>1. LinkInv'
      BY <1>27 DEF vars
    <2>2. CallInv'
      BY <1>27 DEF vars
    <2>3. ShutInv'
      BY <1>27 DEF vars
    <2> QED  BY <2>1, <2>2, <2>3 DEF TableInv
  <1> QED
    BY <1>1, <1>2, <1>3, <1>4, <1>5, <1>6, <1>7, <1>8, <1>9, <1>10, <1>11, <1>12, <1>13, <1>14,
       <1>15, <1>16, <1>17, <1>18, <1>19, <1>20, <1>21, <1>22, <1>23, <1>24, <1>25, <1>26, <1>27
       DEF Next, Call, InCall, LinkDestroy, WorkerStep, Environment

-----------------------------------------------------------------------------
(* Who ends is alone.                                                      *)

LEMMA AloneInit == Init => AloneInv
  BY NameAssumption DEF Init, AloneInv, EndPC

LEMMA AloneStep == TypeOK /\ AloneInv /\ [Next]_vars => AloneInv'
  <1> SUFFICES ASSUME TypeOK, AloneInv, [Next]_vars PROVE AloneInv'
    OBVIOUS
  <1> USE NameAssumption DEF TypeOK, AloneInv, EndPC, Goto, Enter
  <1>1. ASSUME NEW t \in App, NEW l \in Links, Create(t, l) PROVE AloneInv'
    BY <1>1 DEF Create, MayCall
  <1>2. ASSUME NEW t \in App, NEW l \in Links, SendFind(t, l) PROVE AloneInv'
    BY <1>2 DEF SendFind, MayCall, Knows
  <1>3. ASSUME NEW t \in App, NEW l \in Links, Destroy(t, l) PROVE AloneInv'
    BY <1>3 DEF Destroy, MayCall, Knows
  <1>4. ASSUME NEW t \in App, Uninit(t) PROVE AloneInv'
    BY <1>4 DEF Uninit, MayCall
  <1>5. ASSUME NEW t \in App, Attach(t) PROVE AloneInv'
    BY <1>5 DEF Attach
  <1>6. ASSUME NEW t \in App, TellCreated(t) PROVE AloneInv'
    BY <1>6 DEF TellCreated, Tell
  <1>7. ASSUME NEW t \in App, SendTo(t) PROVE AloneInv'
    BY <1>7 DEF SendTo
  <1>8. ASSUME NEW t \in App, SendDone(t) PROVE AloneInv'
    BY <1>8 DEF SendDone
  <1>9. ASSUME NEW t \in App, SendFails(t) PROVE AloneInv'
    BY <1>9 DEF SendFails
  <1>10. ASSUME NEW t \in App, DelLink(t) PROVE AloneInv'
    BY <1>10 DEF DelLink, Erased
  <1>11. ASSUME NEW t \in App, DestroyCheck(t) PROVE AloneInv'
    BY <1>11 DEF DestroyCheck, DestroyReturn
  <1>12. ASSUME NEW t \in App, DestroyShut(t) PROVE AloneInv'
    BY <1>12 DEF DestroyShut
  <1>13. ASSUME NEW t \in App, DestroySet(t) PROVE AloneInv'
    BY <1>13 DEF DestroySet
  <1>14. ASSUME NEW t \in App, DestroyTell(t) PROVE AloneInv'
    BY <1>14 DEF DestroyTell, DestroyReturn, Tell
  <1>15. ASSUME NEW t \in App, JoinWorker(t) PROVE AloneInv'
    BY <1>15 DEF JoinWorker
  <1>16. ASSUME NEW t \in App, FreeAll(t) PROVE AloneInv'
    BY <1>16 DEF FreeAll
  <1>17. ASSUME NEW t \in App, NEW l \in Links, NextDestroy(t, l) PROVE AloneInv'
    BY <1>17 DEF NextDestroy
  <1>18. ASSUME NEW t \in App, Ended(t) PROVE AloneInv'
    BY <1>18 DEF Ended
  <1>19. ASSUME EpollWait PROVE AloneInv'
    BY <1>19 DEF EpollWait
  <1>20. ASSUME TakeExit PROVE AloneInv'
    BY <1>20 DEF TakeExit
  <1>21. ASSUME NEW l \in Links, TakeRead(l) PROVE AloneInv'
    BY <1>21 DEF TakeRead
  <1>22. ASSUME Read PROVE AloneInv'
    BY <1>22 DEF Read
  <1>23. ASSUME TellData PROVE AloneInv'
    BY <1>23 DEF TellData, Tell
  <1>24. ASSUME BatchDone PROVE AloneInv'
    BY <1>24 DEF BatchDone
  <1>25. ASSUME NEW l \in Links, Arrives(l) PROVE AloneInv'
    BY <1>25 DEF Arrives, Edge
  <1>26. ASSUME NEW l \in Links, Transmit(l) PROVE AloneInv'
    BY <1>26 DEF Transmit, Edge
  <1>27. ASSUME UNCHANGED vars PROVE AloneInv'
    BY <1>27 DEF vars
  <1> QED
    BY <1>1, <1>2, <1>3, <1>4, <1>5, <1>6, <1>7, <1>8, <1>9, <1>10, <1>11, <1>12, <1>13, <1>14,
       <1>15, <1>16, <1>17, <1>18, <1>19, <1>20, <1>21, <1>22, <1>23, <1>24, <1>25, <1>26, <1>27
       DEF Next, Call, InCall, LinkDestroy, WorkerStep, Environment

-----------------------------------------------------------------------------
(* What the callback hears.                                                *)

LEMMA EarlyInit == Init => EarlyInv
  BY NameAssumption DEF Init, EarlyInv, NewInv, AttachInv, CreateInv, Unheard, Busy

(* What a step must leave alone to preserve CreateInv.                     *)
LEMMA CreateKept ==
    ASSUME CreateInv,
           \A u \in App : pc[u] \in {"attach", "tellCreated"} =>
               pc'[u] \in {"attach", "tellCreated"} /\ arg'[u] = arg[u],
           \A l \in Links : /\ mi_socket'[l] # "new" => mi_socket[l] # "new"
                            /\ told[l] \subseteq told'[l]
    PROVE  CreateInv'
  BY DEF CreateInv

LEMMA EarlyStep == TypeOK /\ TableInv /\ EarlyInv /\ AloneInv /\ [Next]_vars => EarlyInv'
  <1> SUFFICES ASSUME TypeOK, TableInv, EarlyInv, AloneInv, [Next]_vars PROVE EarlyInv'
    OBVIOUS
  <1> USE NameAssumption DEF TypeOK, Busy, TableInv, LinkInv, CallInv, Goto, Enter,
                             EarlyInv, Unheard, NewInv, AttachInv, CreateInv, AloneInv, EndPC
  <1>1. ASSUME NEW t \in App, NEW l \in Links, Create(t, l) PROVE EarlyInv'
    <2>1. NewInv'
      BY <1>1 DEF Create, MayCall
    <2>2. AttachInv'
      BY <1>1 DEF Create, MayCall
    <2>3. CreateInv'
      <3>1. pc'[t] = "attach" /\ arg'[t] = l
        BY <1>1 DEF Create
      <3>2. \A u \in App : pc[u] \in {"attach", "tellCreated"} =>
              pc'[u] = pc[u] /\ arg'[u] = arg[u]
        BY <1>1 DEF Create, MayCall
      <3>3. \A l_1 \in Links \ {l} : mi_socket'[l_1] = mi_socket[l_1]
        BY <1>1 DEF Create
      <3>4. told' = told
        BY <1>1 DEF Create
      <3> HIDE DEF TypeOK, TableInv
      <3> QED
        BY <3>1, <3>2, <3>3, <3>4
    <2> QED  BY <2>1, <2>2, <2>3 DEF EarlyInv
  <1>2. ASSUME NEW t \in App, NEW l \in Links, SendFind(t, l) PROVE EarlyInv'
    <2>1. NewInv'
      BY <1>2 DEF SendFind, MayCall, Knows
    <2>2. AttachInv'
      BY <1>2 DEF SendFind, MayCall, Knows
    <2>3. CreateInv'
      BY <1>2 DEF SendFind, MayCall, Knows
    <2> QED  BY <2>1, <2>2, <2>3 DEF EarlyInv
  <1>3. ASSUME NEW t \in App, NEW l \in Links, Destroy(t, l) PROVE EarlyInv'
    <2>1. NewInv'
      BY <1>3 DEF Destroy, MayCall, Knows
    <2>2. AttachInv'
      BY <1>3 DEF Destroy, MayCall, Knows
    <2>3. CreateInv'
      BY <1>3 DEF Destroy, MayCall, Knows
    <2> QED  BY <2>1, <2>2, <2>3 DEF EarlyInv
  <1>4. ASSUME NEW t \in App, Uninit(t) PROVE EarlyInv'
    <2>1. NewInv'
      BY <1>4 DEF Uninit, MayCall
    <2>2. AttachInv'
      BY <1>4 DEF Uninit, MayCall
    <2>3. CreateInv'
      BY <1>4 DEF Uninit, MayCall
    <2> QED  BY <2>1, <2>2, <2>3 DEF EarlyInv
  <1>5. ASSUME NEW t \in App, Attach(t) PROVE EarlyInv'
    <2>1. NewInv'
      BY <1>5 DEF Attach
    <2>2. AttachInv'
      BY <1>5 DEF Attach
    <2>3. CreateInv'
      BY <1>5 DEF Attach
    <2> QED  BY <2>1, <2>2, <2>3 DEF EarlyInv
  <1>6. ASSUME NEW t \in App, TellCreated(t) PROVE EarlyInv'
    <2>1. NewInv'
      BY <1>6 DEF TellCreated, Tell
    <2>2. AttachInv'
      BY <1>6 DEF TellCreated, Tell
    <2>3. CreateInv'
      BY <1>6 DEF TellCreated, Tell
    <2> QED  BY <2>1, <2>2, <2>3 DEF EarlyInv
  <1>7. ASSUME NEW t \in App, SendTo(t) PROVE EarlyInv'
    <2>1. NewInv'
      BY <1>7 DEF SendTo
    <2>2. AttachInv'
      BY <1>7 DEF SendTo
    <2>3. CreateInv'
      BY <1>7 DEF SendTo
    <2> QED  BY <2>1, <2>2, <2>3 DEF EarlyInv
  <1>8. ASSUME NEW t \in App, SendDone(t) PROVE EarlyInv'
    <2>1. NewInv'
      BY <1>8 DEF SendDone
    <2>2. AttachInv'
      BY <1>8 DEF SendDone
    <2>3. CreateInv'
      BY <1>8 DEF SendDone
    <2> QED  BY <2>1, <2>2, <2>3 DEF EarlyInv
  <1>9. ASSUME NEW t \in App, SendFails(t) PROVE EarlyInv'
    <2>1. NewInv'
      BY <1>9 DEF SendFails
    <2>2. AttachInv'
      BY <1>9 DEF SendFails
    <2>3. CreateInv'
      BY <1>9 DEF SendFails
    <2> QED  BY <2>1, <2>2, <2>3 DEF EarlyInv
  <1>10. ASSUME NEW t \in App, DelLink(t) PROVE EarlyInv'
    <2>1. NewInv'
      BY <1>10 DEF DelLink, Erased
    <2>2. AttachInv'
      BY <1>10 DEF DelLink, Erased
    <2>3. CreateInv'
      BY <1>10 DEF DelLink, Erased
    <2> QED  BY <2>1, <2>2, <2>3 DEF EarlyInv
  <1>11. ASSUME NEW t \in App, DestroyCheck(t) PROVE EarlyInv'
    <2>1. NewInv'
      BY <1>11 DEF DestroyCheck, DestroyReturn
    <2>2. AttachInv'
      BY <1>11 DEF DestroyCheck, DestroyReturn
    <2>3. CreateInv'
      BY <1>11 DEF DestroyCheck, DestroyReturn
    <2> QED  BY <2>1, <2>2, <2>3 DEF EarlyInv
  <1>12. ASSUME NEW t \in App, DestroyShut(t) PROVE EarlyInv'
    <2>1. NewInv'
      BY <1>12 DEF DestroyShut
    <2>2. AttachInv'
      BY <1>12 DEF DestroyShut
    <2>3. CreateInv'
      BY <1>12 DEF DestroyShut
    <2> QED  BY <2>1, <2>2, <2>3 DEF EarlyInv
  <1>13. ASSUME NEW t \in App, DestroySet(t) PROVE EarlyInv'
    <2>1. NewInv'
      BY <1>13 DEF DestroySet
    <2>2. AttachInv'
      BY <1>13 DEF DestroySet
    <2>3. CreateInv'
      BY <1>13 DEF DestroySet
    <2> QED  BY <2>1, <2>2, <2>3 DEF EarlyInv
  <1>14. ASSUME NEW t \in App, DestroyTell(t) PROVE EarlyInv'
    <2>1. NewInv'
      BY <1>14 DEF DestroyTell, DestroyReturn, Tell
    <2>2. AttachInv'
      BY <1>14 DEF DestroyTell, DestroyReturn, Tell
    <2>3. CreateInv'
      BY <1>14 DEF DestroyTell, DestroyReturn, Tell
    <2> QED  BY <2>1, <2>2, <2>3 DEF EarlyInv
  <1>15. ASSUME NEW t \in App, JoinWorker(t) PROVE EarlyInv'
    <2>1. NewInv'
      BY <1>15 DEF JoinWorker
    <2>2. AttachInv'
      BY <1>15 DEF JoinWorker
    <2>3. CreateInv'
      BY <1>15 DEF JoinWorker
    <2> QED  BY <2>1, <2>2, <2>3 DEF EarlyInv
  <1>16. ASSUME NEW t \in App, FreeAll(t) PROVE EarlyInv'
    <2>1. NewInv'
      BY <1>16 DEF FreeAll
    <2>2. AttachInv'
      BY <1>16 DEF FreeAll
    <2>3. CreateInv'
      BY <1>16 DEF FreeAll
    <2> QED  BY <2>1, <2>2, <2>3 DEF EarlyInv
  <1>17. ASSUME NEW t \in App, NEW l \in Links, NextDestroy(t, l) PROVE EarlyInv'
    <2>1. NewInv'
      BY <1>17 DEF NextDestroy
    <2>2. AttachInv'
      BY <1>17 DEF NextDestroy
    <2>3. CreateInv'
      BY <1>17 DEF NextDestroy
    <2> QED  BY <2>1, <2>2, <2>3 DEF EarlyInv
  <1>18. ASSUME NEW t \in App, Ended(t) PROVE EarlyInv'
    <2>1. NewInv'
      BY <1>18 DEF Ended
    <2>2. AttachInv'
      BY <1>18 DEF Ended
    <2>3. CreateInv'
      BY <1>18 DEF Ended
    <2> QED  BY <2>1, <2>2, <2>3 DEF EarlyInv
  <1>19. ASSUME EpollWait PROVE EarlyInv'
    <2>1. NewInv'
      BY <1>19 DEF EpollWait
    <2>2. AttachInv'
      BY <1>19 DEF EpollWait
    <2>3. CreateInv'
      BY <1>19 DEF EpollWait
    <2> QED  BY <2>1, <2>2, <2>3 DEF EarlyInv
  <1>20. ASSUME TakeExit PROVE EarlyInv'
    <2>1. NewInv'
      BY <1>20 DEF TakeExit
    <2>2. AttachInv'
      BY <1>20 DEF TakeExit
    <2>3. CreateInv'
      BY <1>20 DEF TakeExit
    <2> QED  BY <2>1, <2>2, <2>3 DEF EarlyInv
  <1>21. ASSUME NEW l \in Links, TakeRead(l) PROVE EarlyInv'
    <2>1. NewInv'
      BY <1>21 DEF TakeRead
    <2>2. AttachInv'
      BY <1>21 DEF TakeRead
    <2>3. CreateInv'
      BY <1>21 DEF TakeRead
    <2> QED  BY <2>1, <2>2, <2>3 DEF EarlyInv
  <1>22. ASSUME Read PROVE EarlyInv'
    <2>1. NewInv'
      BY <1>22 DEF Read
    <2>2. AttachInv'
      BY <1>22 DEF Read
    <2>3. CreateInv'
      BY <1>22 DEF Read
    <2> QED  BY <2>1, <2>2, <2>3 DEF EarlyInv
  <1>23. ASSUME TellData PROVE EarlyInv'
    <2>1. NewInv'
      BY <1>23 DEF TellData, Tell
    <2>2. AttachInv'
      BY <1>23 DEF TellData, Tell
    <2>3. CreateInv'
      BY <1>23 DEF TellData, Tell
    <2> QED  BY <2>1, <2>2, <2>3 DEF EarlyInv
  <1>24. ASSUME BatchDone PROVE EarlyInv'
    <2>1. NewInv'
      BY <1>24 DEF BatchDone
    <2>2. AttachInv'
      BY <1>24 DEF BatchDone
    <2>3. CreateInv'
      BY <1>24 DEF BatchDone
    <2> QED  BY <2>1, <2>2, <2>3 DEF EarlyInv
  <1>25. ASSUME NEW l \in Links, Arrives(l) PROVE EarlyInv'
    <2>1. NewInv'
      BY <1>25 DEF Arrives, Edge
    <2>2. AttachInv'
      BY <1>25 DEF Arrives, Edge
    <2>3. CreateInv'
      BY <1>25 DEF Arrives, Edge
    <2> QED  BY <2>1, <2>2, <2>3 DEF EarlyInv
  <1>26. ASSUME NEW l \in Links, Transmit(l) PROVE EarlyInv'
    <2>1. NewInv'
      BY <1>26 DEF Transmit, Edge
    <2>2. AttachInv'
      BY <1>26 DEF Transmit, Edge
    <2>3. CreateInv'
      BY <1>26 DEF Transmit, Edge
    <2> QED  BY <2>1, <2>2, <2>3 DEF EarlyInv
  <1>27. ASSUME UNCHANGED vars PROVE EarlyInv'
    <2>1. NewInv'
      BY <1>27 DEF vars
    <2>2. AttachInv'
      BY <1>27 DEF vars
    <2>3. CreateInv'
      BY <1>27 DEF vars
    <2> QED  BY <2>1, <2>2, <2>3 DEF EarlyInv
  <1> QED
    BY <1>1, <1>2, <1>3, <1>4, <1>5, <1>6, <1>7, <1>8, <1>9, <1>10, <1>11, <1>12, <1>13, <1>14,
       <1>15, <1>16, <1>17, <1>18, <1>19, <1>20, <1>21, <1>22, <1>23, <1>24, <1>25, <1>26, <1>27
       DEF Next, Call, InCall, LinkDestroy, WorkerStep, Environment

-----------------------------------------------------------------------------
(* Links that have gone.                                                   *)

LEMMA GoneInit == Init => GoneInv
  BY DEF Init, GoneInv

(* What a step must leave alone to preserve GoneInv.                       *)
LEMMA GoneKept ==
    ASSUME GoneInv,
           \A u \in App : pc[u] \in {"destCheck", "destShut", "destSet", "destTell"} =>
               pc'[u] = pc[u] /\ arg'[u] = arg[u],
           /\ UNCHANGED <<m_maplink, mi_socket>>
           /\ \A l \in Links : told[l] \subseteq told'[l]
    PROVE  GoneInv'
  BY DEF GoneInv

LEMMA GoneStep == TypeOK /\ TableInv /\ GoneInv /\ [Next]_vars => GoneInv'
  <1> SUFFICES ASSUME TypeOK, TableInv, GoneInv, [Next]_vars PROVE GoneInv'
    OBVIOUS
  <1> USE NameAssumption DEF TypeOK, Busy, TableInv, LinkInv, CallInv, Goto, Enter, GoneInv
  <1>1. ASSUME NEW t \in App, NEW l \in Links, Create(t, l) PROVE GoneInv'
    BY <1>1 DEF Create, MayCall
  <1>2. ASSUME NEW t \in App, NEW l \in Links, SendFind(t, l) PROVE GoneInv'
    <2>1. \A u \in App : pc[u] \in {"destCheck", "destShut", "destSet", "destTell"} =>
          pc'[u] = pc[u] /\ arg'[u] = arg[u]
      BY <1>2 DEF SendFind, MayCall, Knows
    <2>2. /\ UNCHANGED <<m_maplink, mi_socket>>
          /\ \A k \in Links : told[k] \subseteq told'[k]
      BY <1>2 DEF SendFind, MayCall, Knows
    <2> QED
      BY <2>1, <2>2, GoneKept
  <1>3. ASSUME NEW t \in App, NEW l \in Links, Destroy(t, l) PROVE GoneInv'
    <2>1. \A u \in App : pc[u] \in {"destCheck", "destShut", "destSet", "destTell"} =>
          pc'[u] = pc[u] /\ arg'[u] = arg[u]
      BY <1>3 DEF Destroy, MayCall, Knows
    <2>2. /\ UNCHANGED <<m_maplink, mi_socket>>
          /\ \A k \in Links : told[k] \subseteq told'[k]
      BY <1>3 DEF Destroy, MayCall, Knows
    <2> QED
      BY <2>1, <2>2, GoneKept
  <1>4. ASSUME NEW t \in App, Uninit(t) PROVE GoneInv'
    <2>1. \A u \in App : pc[u] \in {"destCheck", "destShut", "destSet", "destTell"} =>
          pc'[u] = pc[u] /\ arg'[u] = arg[u]
      BY <1>4 DEF Uninit, MayCall
    <2>2. /\ UNCHANGED <<m_maplink, mi_socket>>
          /\ \A k \in Links : told[k] \subseteq told'[k]
      BY <1>4 DEF Uninit, MayCall
    <2> QED
      BY <2>1, <2>2, GoneKept
  <1>5. ASSUME NEW t \in App, Attach(t) PROVE GoneInv'
    <2>1. \A u \in App : pc[u] \in {"destCheck", "destShut", "destSet", "destTell"} =>
          pc'[u] = pc[u] /\ arg'[u] = arg[u]
      BY <1>5 DEF Attach
    <2>2. /\ UNCHANGED <<m_maplink, mi_socket>>
          /\ \A k \in Links : told[k] \subseteq told'[k]
      BY <1>5 DEF Attach
    <2> QED
      BY <2>1, <2>2, GoneKept
  <1>6. ASSUME NEW t \in App, TellCreated(t) PROVE GoneInv'
    <2>1. \A u \in App : pc[u] \in {"destCheck", "destShut", "destSet", "destTell"} =>
          pc'[u] = pc[u] /\ arg'[u] = arg[u]
      BY <1>6 DEF TellCreated, Tell
    <2>2. /\ UNCHANGED <<m_maplink, mi_socket>>
          /\ \A k \in Links : told[k] \subseteq told'[k]
      BY <1>6 DEF TellCreated, Tell
    <2> QED
      BY <2>1, <2>2, GoneKept
  <1>7. ASSUME NEW t \in App, SendTo(t) PROVE GoneInv'
    <2>1. \A u \in App : pc[u] \in {"destCheck", "destShut", "destSet", "destTell"} =>
          pc'[u] = pc[u] /\ arg'[u] = arg[u]
      BY <1>7 DEF SendTo
    <2>2. /\ UNCHANGED <<m_maplink, mi_socket>>
          /\ \A k \in Links : told[k] \subseteq told'[k]
      BY <1>7 DEF SendTo
    <2> QED
      BY <2>1, <2>2, GoneKept
  <1>8. ASSUME NEW t \in App, SendDone(t) PROVE GoneInv'
    <2>1. \A u \in App : pc[u] \in {"destCheck", "destShut", "destSet", "destTell"} =>
          pc'[u] = pc[u] /\ arg'[u] = arg[u]
      BY <1>8 DEF SendDone
    <2>2. /\ UNCHANGED <<m_maplink, mi_socket>>
          /\ \A k \in Links : told[k] \subseteq told'[k]
      BY <1>8 DEF SendDone
    <2> QED
      BY <2>1, <2>2, GoneKept
  <1>9. ASSUME NEW t \in App, SendFails(t) PROVE GoneInv'
    <2>1. \A u \in App : pc[u] \in {"destCheck", "destShut", "destSet", "destTell"} =>
          pc'[u] = pc[u] /\ arg'[u] = arg[u]
      BY <1>9 DEF SendFails
    <2>2. /\ UNCHANGED <<m_maplink, mi_socket>>
          /\ \A k \in Links : told[k] \subseteq told'[k]
      BY <1>9 DEF SendFails
    <2> QED
      BY <2>1, <2>2, GoneKept
  <1>10. ASSUME NEW t \in App, DelLink(t) PROVE GoneInv'
    BY <1>10 DEF DelLink, Erased
  <1>11. ASSUME NEW t \in App, DestroyCheck(t) PROVE GoneInv'
    BY <1>11 DEF DestroyCheck, DestroyReturn
  <1>12. ASSUME NEW t \in App, DestroyShut(t) PROVE GoneInv'
    BY <1>12 DEF DestroyShut
  <1>13. ASSUME NEW t \in App, DestroySet(t) PROVE GoneInv'
    BY <1>13 DEF DestroySet
  <1>14. ASSUME NEW t \in App, DestroyTell(t) PROVE GoneInv'
    BY <1>14 DEF DestroyTell, DestroyReturn, Tell
  <1>15. ASSUME NEW t \in App, JoinWorker(t) PROVE GoneInv'
    <2>1. \A u \in App : pc[u] \in {"destCheck", "destShut", "destSet", "destTell"} =>
          pc'[u] = pc[u] /\ arg'[u] = arg[u]
      BY <1>15 DEF JoinWorker
    <2>2. /\ UNCHANGED <<m_maplink, mi_socket>>
          /\ \A k \in Links : told[k] \subseteq told'[k]
      BY <1>15 DEF JoinWorker
    <2> QED
      BY <2>1, <2>2, GoneKept
  <1>16. ASSUME NEW t \in App, FreeAll(t) PROVE GoneInv'
    <2>1. \A u \in App : pc[u] \in {"destCheck", "destShut", "destSet", "destTell"} =>
          pc'[u] = pc[u] /\ arg'[u] = arg[u]
      BY <1>16 DEF FreeAll
    <2>2. /\ UNCHANGED <<m_maplink, mi_socket>>
          /\ \A k \in Links : told[k] \subseteq told'[k]
      BY <1>16 DEF FreeAll
    <2> QED
      BY <2>1, <2>2, GoneKept
  <1>17. ASSUME NEW t \in App, NEW l \in Links, NextDestroy(t, l) PROVE GoneInv'
    <2>1. \A u \in App : pc[u] \in {"destCheck", "destShut", "destSet", "destTell"} =>
          pc'[u] = pc[u] /\ arg'[u] = arg[u]
      BY <1>17 DEF NextDestroy
    <2>2. /\ UNCHANGED <<m_maplink, mi_socket>>
          /\ \A k \in Links : told[k] \subseteq told'[k]
      BY <1>17 DEF NextDestroy
    <2> QED
      BY <2>1, <2>2, GoneKept
  <1>18. ASSUME NEW t \in App, Ended(t) PROVE GoneInv'
    <2>1. \A u \in App : pc[u] \in {"destCheck", "destShut", "destSet", "destTell"} =>
          pc'[u] = pc[u] /\ arg'[u] = arg[u]
      BY <1>18 DEF Ended
    <2>2. /\ UNCHANGED <<m_maplink, mi_socket>>
          /\ \A k \in Links : told[k] \subseteq told'[k]
      BY <1>18 DEF Ended
    <2> QED
      BY <2>1, <2>2, GoneKept
  <1>19. ASSUME EpollWait PROVE GoneInv'
    <2>1. \A u \in App : pc[u] \in {"destCheck", "destShut", "destSet", "destTell"} =>
          pc'[u] = pc[u] /\ arg'[u] = arg[u]
      BY <1>19 DEF EpollWait
    <2>2. /\ UNCHANGED <<m_maplink, mi_socket>>
          /\ \A k \in Links : told[k] \subseteq told'[k]
      BY <1>19 DEF EpollWait
    <2> QED
      BY <2>1, <2>2, GoneKept
  <1>20. ASSUME TakeExit PROVE GoneInv'
    <2>1. \A u \in App : pc[u] \in {"destCheck", "destShut", "destSet", "destTell"} =>
          pc'[u] = pc[u] /\ arg'[u] = arg[u]
      BY <1>20 DEF TakeExit
    <2>2. /\ UNCHANGED <<m_maplink, mi_socket>>
          /\ \A k \in Links : told[k] \subseteq told'[k]
      BY <1>20 DEF TakeExit
    <2> QED
      BY <2>1, <2>2, GoneKept
  <1>21. ASSUME NEW l \in Links, TakeRead(l) PROVE GoneInv'
    <2>1. \A u \in App : pc[u] \in {"destCheck", "destShut", "destSet", "destTell"} =>
          pc'[u] = pc[u] /\ arg'[u] = arg[u]
      BY <1>21 DEF TakeRead
    <2>2. /\ UNCHANGED <<m_maplink, mi_socket>>
          /\ \A k \in Links : told[k] \subseteq told'[k]
      BY <1>21 DEF TakeRead
    <2> QED
      BY <2>1, <2>2, GoneKept
  <1>22. ASSUME Read PROVE GoneInv'
    <2>1. \A u \in App : pc[u] \in {"destCheck", "destShut", "destSet", "destTell"} =>
          pc'[u] = pc[u] /\ arg'[u] = arg[u]
      BY <1>22 DEF Read
    <2>2. /\ UNCHANGED <<m_maplink, mi_socket>>
          /\ \A k \in Links : told[k] \subseteq told'[k]
      BY <1>22 DEF Read
    <2> QED
      BY <2>1, <2>2, GoneKept
  <1>23. ASSUME TellData PROVE GoneInv'
    <2>1. \A u \in App : pc[u] \in {"destCheck", "destShut", "destSet", "destTell"} =>
          pc'[u] = pc[u] /\ arg'[u] = arg[u]
      BY <1>23 DEF TellData, Tell
    <2>2. /\ UNCHANGED <<m_maplink, mi_socket>>
          /\ \A k \in Links : told[k] \subseteq told'[k]
      BY <1>23 DEF TellData, Tell
    <2> QED
      BY <2>1, <2>2, GoneKept
  <1>24. ASSUME BatchDone PROVE GoneInv'
    <2>1. \A u \in App : pc[u] \in {"destCheck", "destShut", "destSet", "destTell"} =>
          pc'[u] = pc[u] /\ arg'[u] = arg[u]
      BY <1>24 DEF BatchDone
    <2>2. /\ UNCHANGED <<m_maplink, mi_socket>>
          /\ \A k \in Links : told[k] \subseteq told'[k]
      BY <1>24 DEF BatchDone
    <2> QED
      BY <2>1, <2>2, GoneKept
  <1>25. ASSUME NEW l \in Links, Arrives(l) PROVE GoneInv'
    <2>1. \A u \in App : pc[u] \in {"destCheck", "destShut", "destSet", "destTell"} =>
          pc'[u] = pc[u] /\ arg'[u] = arg[u]
      BY <1>25 DEF Arrives, Edge
    <2>2. /\ UNCHANGED <<m_maplink, mi_socket>>
          /\ \A k \in Links : told[k] \subseteq told'[k]
      BY <1>25 DEF Arrives, Edge
    <2> QED
      BY <2>1, <2>2, GoneKept
  <1>26. ASSUME NEW l \in Links, Transmit(l) PROVE GoneInv'
    <2>1. \A u \in App : pc[u] \in {"destCheck", "destShut", "destSet", "destTell"} =>
          pc'[u] = pc[u] /\ arg'[u] = arg[u]
      BY <1>26 DEF Transmit, Edge
    <2>2. /\ UNCHANGED <<m_maplink, mi_socket>>
          /\ \A k \in Links : told[k] \subseteq told'[k]
      BY <1>26 DEF Transmit, Edge
    <2> QED
      BY <2>1, <2>2, GoneKept
  <1>27. ASSUME UNCHANGED vars PROVE GoneInv'
    <2>1. \A u \in App : pc[u] \in {"destCheck", "destShut", "destSet", "destTell"} =>
          pc'[u] = pc[u] /\ arg'[u] = arg[u]
      BY <1>27 DEF vars
    <2>2. /\ UNCHANGED <<m_maplink, mi_socket>>
          /\ \A k \in Links : told[k] \subseteq told'[k]
      BY <1>27 DEF vars
    <2> QED
      BY <2>1, <2>2, GoneKept
  <1> QED
    BY <1>1, <1>2, <1>3, <1>4, <1>5, <1>6, <1>7, <1>8, <1>9, <1>10, <1>11, <1>12, <1>13, <1>14,
       <1>15, <1>16, <1>17, <1>18, <1>19, <1>20, <1>21, <1>22, <1>23, <1>24, <1>25, <1>26, <1>27
       DEF Next, Call, InCall, LinkDestroy, WorkerStep, Environment

-----------------------------------------------------------------------------
(* The end.                                                                *)

LEMMA LastInit == Init => LastInv
  BY NameAssumption DEF Init, LastInv

LEMMA LastStep == TypeOK /\ AloneInv /\ LastInv /\ [Next]_vars => LastInv'
  <1> SUFFICES ASSUME TypeOK, AloneInv, LastInv, [Next]_vars PROVE LastInv'
    OBVIOUS
  <1> USE NameAssumption DEF TypeOK, Busy, Goto, Enter, AloneInv, LastInv, EndPC
  <1>1. ASSUME NEW t \in App, NEW l \in Links, Create(t, l) PROVE LastInv'
    BY <1>1 DEF Create, MayCall
  <1>2. ASSUME NEW t \in App, NEW l \in Links, SendFind(t, l) PROVE LastInv'
    BY <1>2 DEF SendFind, MayCall, Knows
  <1>3. ASSUME NEW t \in App, NEW l \in Links, Destroy(t, l) PROVE LastInv'
    BY <1>3 DEF Destroy, MayCall, Knows
  <1>4. ASSUME NEW t \in App, Uninit(t) PROVE LastInv'
    BY <1>4 DEF Uninit, MayCall
  <1>5. ASSUME NEW t \in App, Attach(t) PROVE LastInv'
    BY <1>5 DEF Attach
  <1>6. ASSUME NEW t \in App, TellCreated(t) PROVE LastInv'
    BY <1>6 DEF TellCreated, Tell
  <1>7. ASSUME NEW t \in App, SendTo(t) PROVE LastInv'
    BY <1>7 DEF SendTo
  <1>8. ASSUME NEW t \in App, SendDone(t) PROVE LastInv'
    BY <1>8 DEF SendDone
  <1>9. ASSUME NEW t \in App, SendFails(t) PROVE LastInv'
    BY <1>9 DEF SendFails
  <1>10. ASSUME NEW t \in App, DelLink(t) PROVE LastInv'
    BY <1>10 DEF DelLink, Erased
  <1>11. ASSUME NEW t \in App, DestroyCheck(t) PROVE LastInv'
    BY <1>11 DEF DestroyCheck, DestroyReturn
  <1>12. ASSUME NEW t \in App, DestroyShut(t) PROVE LastInv'
    BY <1>12 DEF DestroyShut
  <1>13. ASSUME NEW t \in App, DestroySet(t) PROVE LastInv'
    BY <1>13 DEF DestroySet
  <1>14. ASSUME NEW t \in App, DestroyTell(t) PROVE LastInv'
    BY <1>14 DEF DestroyTell, DestroyReturn, Tell
  <1>15. ASSUME NEW t \in App, JoinWorker(t) PROVE LastInv'
    BY <1>15 DEF JoinWorker
  <1>16. ASSUME NEW t \in App, FreeAll(t) PROVE LastInv'
    BY <1>16 DEF FreeAll
  <1>17. ASSUME NEW t \in App, NEW l \in Links, NextDestroy(t, l) PROVE LastInv'
    BY <1>17 DEF NextDestroy
  <1>18. ASSUME NEW t \in App, Ended(t) PROVE LastInv'
    BY <1>18 DEF Ended
  <1>19. ASSUME EpollWait PROVE LastInv'
    BY <1>19 DEF EpollWait
  <1>20. ASSUME TakeExit PROVE LastInv'
    BY <1>20 DEF TakeExit
  <1>21. ASSUME NEW l \in Links, TakeRead(l) PROVE LastInv'
    BY <1>21 DEF TakeRead
  <1>22. ASSUME Read PROVE LastInv'
    BY <1>22 DEF Read
  <1>23. ASSUME TellData PROVE LastInv'
    BY <1>23 DEF TellData, Tell
  <1>24. ASSUME BatchDone PROVE LastInv'
    BY <1>24 DEF BatchDone
  <1>25. ASSUME NEW l \in Links, Arrives(l) PROVE LastInv'
    BY <1>25 DEF Arrives, Edge
  <1>26. ASSUME NEW l \in Links, Transmit(l) PROVE LastInv'
    BY <1>26 DEF Transmit, Edge
  <1>27. ASSUME UNCHANGED vars PROVE LastInv'
    BY <1>27 DEF vars
  <1> QED
    BY <1>1, <1>2, <1>3, <1>4, <1>5, <1>6, <1>7, <1>8, <1>9, <1>10, <1>11, <1>12, <1>13, <1>14,
       <1>15, <1>16, <1>17, <1>18, <1>19, <1>20, <1>21, <1>22, <1>23, <1>24, <1>25, <1>26, <1>27
       DEF Next, Call, InCall, LinkDestroy, WorkerStep, Environment

-----------------------------------------------------------------------------
(* The theorems.                                                           *)

LEMMA Inductive == Spec => []IInv
  <1>1. Init => IInv
    BY TypeInit, TableInit, EarlyInit, GoneInit, AloneInit, LastInit DEF IInv
  <1>2. IInv /\ [Next]_vars => IInv'
    BY TypeStep, TableStep, EarlyStep, GoneStep, AloneStep, LastStep DEF IInv
  <1> QED
    BY <1>1, <1>2, PTL DEF Spec

(* The callback hears RECEIVEDATA or CLOSED of a link before CREATED only  *)
(* while ms_udp_create is between attach_to_epoll and the callback.        *)
THEOREM EarlyIsBrief == Spec => []EarlyOnlyWhileCreating
  <1>1. EarlyInv => EarlyOnlyWhileCreating
    BY DEF EarlyInv, NewInv, AttachInv, CreateInv, Unheard, EarlyOnlyWhileCreating
  <1>2. IInv => EarlyOnlyWhileCreating
    BY <1>1 DEF IInv
  <1> QED
    BY Inductive, <1>2, PTL

(* A thread that waits in sendto() on a link whose mi_socket has become -1 *)
(* finds its socket shut down, so it need not wait for room: whichever of  *)
(* the threads that raced in link_destroy reset mi_socket.                 *)
THEOREM SendersAreFreed == Spec => []NoSenderStranded
  <1>1. IInv => NoSenderStranded
    BY DEF IInv, TypeOK, Busy, TableInv, ShutInv, NoSenderStranded
  <1> QED
    BY Inductive, <1>1, PTL

(* When ms_udp_uninit has returned, no link is left in the table, the      *)
(* worker is gone and every link ever created was reported CLOSED.         *)
THEOREM UninitIsComplete == Spec => []UninitLeavesNothing
  <1>1. ASSUME IInv PROVE UninitLeavesNothing
    <2> SUFFICES ASSUME NEW t \in App, pc[t] = "ended"
                 PROVE  /\ m_maplink = {} /\ pc[Worker] = "done"
                        /\ \A l \in Links : mi_socket[l] # "new" => "CLOSED" \in told[l]
      BY DEF UninitLeavesNothing
    <2>1. ender = t
      BY <1>1, NameAssumption DEF IInv, AloneInv, EndPC, TypeOK
    <2>2. m_maplink = {} /\ pc[Worker] = "done"
      BY <1>1, <2>1 DEF IInv, LastInv
    <2>3. \A u \in App : pc[u] \notin {"destCheck", "destShut", "destSet", "destTell"}
      BY <1>1, <2>1, NameAssumption DEF IInv, AloneInv
    <2>4. \A l \in Links : mi_socket[l] \in {"new", "open", "none"}
      BY <1>1 DEF IInv, TypeOK
    <2> QED
      BY <1>1, <2>2, <2>3, <2>4 DEF IInv, GoneInv
  <1> QED
    BY Inductive, <1>1, PTL
=============================================================================
