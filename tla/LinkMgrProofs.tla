--------------------------- MODULE LinkMgrProofs ---------------------------
(***************************************************************************)
(* Proofs about LinkMgr, for any number of clients: the table has who is   *)
(* served and loses who is gone, whichever of the three threads closes a   *)
(* client and whatever the others are doing to it.                         *)
(***************************************************************************)
EXTENDS LinkMgr, TLAPS

-----------------------------------------------------------------------------
(* The inductive invariant.                                                *)

(* The worker has a client in hand that its callback was told of.          *)
HandlingPC == {"found", "hungup", "read", "recv_end", "link_recv_data", "recv_data"}

(* Which link a thread has in hand, and where link_destroy returns to.     *)
ArgInv ==
    /\ pc["worker"] \in Creating \cup HandlingPC \cup ClosingPC => at["worker"] \in Clients
    /\ pc["timer"] \in ClosingPC => at["timer"] \in Clients
    /\ pc["main"] \in ClosingPC => at["main"] \in Links
    /\ pc["main"] = "link_remove" => at["main"] \in Clients
    /\ pc["main"] \in {"created", "addr"} => at["main"] = Listener
    /\ ret["worker"] \in {"idle", "recv_end", "hungup"} /\ ret["timer"] = "idle"
    /\ pc["worker"] \in {"del_link", "test", "closed"} => ret["worker"] = "recv_end"
    /\ pc["worker"] = "link_remove" => ret["worker"] \in {"recv_end", "hungup"}
    /\ pc["main"] \in ClosingPC => ret["main"] \in {"destroy_next", "uninit", "free"}
    /\ mh_tcp_link = NoLink => pc["main"] \in {"Init", "created", "addr"}

(* A mutex is held by the worker, in the part of its code that it guards.  *)
LockInv ==
    /\ mo_link_map_lock = IF pc["worker"] \in {"get_addr", "insert"} THEN "worker" ELSE NoOne
    /\ m_link_lock = IF pc["worker"] = "flush" THEN "worker" ELSE NoOne

TypeInv == TypeOK /\ ArgInv /\ LockInv

HandsPC == Creating \cup HandlingPC \cup ClosingPC \cup {"created", "addr"}
Has(t, l) == pc[t] \in HandsPC /\ at[t] = l

(* Of a link that was not made nobody knows.                               *)
FreshInv ==
    \A l \in Links : status[l] = "none" =>
        /\ told[l] = {} /\ l \in open /\ l \notin overtaken
        /\ l \notin m_link_map \cup hlinkvec \cup destroyed \cup unheard
        /\ \A t \in Threads : ~Has(t, l)

(* While the worker creates a client the timeout thread alone can reach    *)
(* it, and if it takes it too early that is known.                         *)
CreateInv ==
    pc["worker"] \in Creating =>
        LET l == at["worker"]
        IN  /\ status[l] # "none"
            /\ l \notin m_link_map \cup hlinkvec \cup destroyed \cup unheard
            /\ pc["worker"] # "accepted" => Wrapper!Announced(l)
            /\ ~LeavingIt("main", l)
            /\ status[l] = "dead" => LeavingIt("timer", l) \/ l \in overtaken
            /\ l \in open \/ l \in overtaken \/ (pc["timer"] = "link_remove" /\ at["timer"] = l)

(* What a thread that closes a link knows of it.                           *)
CloseInv ==
    /\ \A t \in Threads : pc[t] \in {"test", "closed"} => status[at[t]] = "dead" \/ at[t] \in hasty
    /\ \A t \in Threads : pc[t] = "link_remove" => Gone(at[t])
    /\ pc["worker"] \in HandlingPC \cup ClosingPC => Wrapper!Announced(at["worker"])
    /\ pc["worker"] = "hungup" => at["worker"] \notin m_link_map /\ Gone(at["worker"])
    /\ \A l \in Links : "CLOSED" \in told[l] => status[l] = "dead" \/ l \in hasty
    /\ \A l \in overtaken : Gone(l) \/ l \in hasty

(* Who is served is in the table or was reported gone; who is gone is      *)
(* being taken out, and was reported or is about to be.                    *)
RemovedInv ==
    /\ \A l \in Clients : Wrapper!Announced(l) => l \in m_link_map \/ Gone(l) \/ IsCreating(l)
    /\ \A l \in Links \ open : Gone(l) \/ l \in overtaken
    /\ \A l \in m_link_map \ (open \cup overtaken) :
          \E t \in Threads : pc[t] = "link_remove" /\ at[t] = l
    /\ \A l \in Links : status[l] = "dead" =>
          Gone(l) \/ l \in overtaken \/ \E t \in Threads : pc[t] \in {"test", "closed"} /\ at[t] = l
    /\ \A l \in destroyed : status[l] = "dead" \/ (pc["main"] = "del_link" /\ at["main"] = l)

(* A link that was made is known, or its maker is about to tell of it.     *)
AnnounceInv ==
    /\ pc["main"] = "Init" => status[Listener] = "none"
    /\ \A l \in Links : status[l] # "none" =>
          \/ Wrapper!Announced(l)
          \/ pc["worker"] = "accepted" /\ at["worker"] = l
          \/ status[l] = "live" /\ pc["main"] = "created" /\ l = Listener
    /\ \A l \in Links : status[l] = "dead" => Wrapper!Announced(l) \/ l \in hasty

(* When the threads are joined they have ended.                            *)
EndInv ==
    /\ pc["main"] \in {"free", "ended"} \/ (pc["main"] \in ClosingPC /\ ret["main"] = "free") =>
          pc["worker"] = "done" /\ pc["timer"] = "done"
    /\ UnInitLeavesNothing

IInv == /\ TypeInv /\ FreshInv /\ CreateInv /\ CloseInv /\ RemovedInv
        /\ AnnounceInv /\ NoZombie /\ UnheardIsGone /\ EndInv

-----------------------------------------------------------------------------
(* One lemma per part of the invariant, one step per action.               *)

(* A thread has the right link in hand at every place of its code.         *)
LEMMA TypeStep == ConstantsOK /\ TypeInv /\ [Next]_vars => TypeInv'
  <1> SUFFICES ASSUME ConstantsOK, TypeInv, [Next]_vars PROVE TypeInv'
    OBVIOUS
  <1> USE DEF Goto, Take, Call, Stay, Threads, Links, ConstantsOK, TypeInv, TypeOK,
              ArgInv, LockInv, WorkerPC, ClosingPC, SetupPC, MainPC, Creating, IsCreating,
              Wrapper!Announced, Wrapper!Announces,
              HandlingPC, Wrapper!Kinds
  <1>1. ASSUME NEW t \in Threads, DelLink(t) PROVE TypeInv'
    BY <1>1 DEF DelLink, Wrapper!Remove, Wrapper!Hurry, contractVars, locks, history
  <1>2. ASSUME NEW t \in Threads, TestSocket(t) PROVE TypeInv'
    BY <1>2 DEF TestSocket, contractVars, locks, history
  <1>3. ASSUME NEW t \in Threads, TellClosed(t) PROVE TypeInv'
    BY <1>3 DEF TellClosed, Wrapper!Deliver, contractVars, locks, history
  <1>4. ASSUME NEW t \in Threads, LinkRemove(t) PROVE TypeInv'
    BY <1>4 DEF LinkRemove, contractVars, locks, history
  <1>5. ASSUME NEW l \in Clients, Accept(l) PROVE TypeInv'
    BY <1>5 DEF Accept, Wrapper!Publish, locks, history
  <1>6. ASSUME TellAccepted PROVE TypeInv'
    BY <1>6 DEF TellAccepted, Wrapper!Deliver, locks, history
  <1>7. ASSUME LinkCreate PROVE TypeInv'
    BY <1>7 DEF LinkCreate, contractVars, history
  <1>8. ASSUME GetLinkAddr PROVE TypeInv'
    BY <1>8 DEF GetLinkAddr, contractVars, locks, history
  <1>9. ASSUME Insert PROVE TypeInv'
    BY <1>9 DEF Insert, contractVars, history
  <1>10. ASSUME NEW l \in Clients, FindLink(l) PROVE TypeInv'
    BY <1>10 DEF FindLink, contractVars, locks, history
  <1>11. ASSUME HangUp PROVE TypeInv'
    BY <1>11 DEF HangUp, Wrapper!Deliver, locks, history
  <1>12. ASSUME HungUp PROVE TypeInv'
    BY <1>12 DEF HungUp, Wrapper!Remove, Wrapper!Hurry, contractVars, locks, history
  <1>13. ASSUME TellData PROVE TypeInv'
    BY <1>13 DEF TellData, Wrapper!Deliver, locks, history
  <1>14. ASSUME LinkRecvData PROVE TypeInv'
    BY <1>14 DEF LinkRecvData, contractVars, locks
  <1>15. ASSUME RecvData PROVE TypeInv'
    BY <1>15 DEF RecvData, contractVars, locks, history
  <1>16. ASSUME Flush PROVE TypeInv'
    BY <1>16 DEF Flush, contractVars, history
  <1>17. ASSUME EndFlush PROVE TypeInv'
    BY <1>17 DEF EndFlush, contractVars, history
  <1>18. ASSUME NEW l \in Clients, Expire(l) PROVE TypeInv'
    BY <1>18 DEF Expire, contractVars, locks, history
  <1>19. ASSUME NEW t \in Threads, Exit(t) PROVE TypeInv'
    BY <1>19 DEF Exit, contractVars, locks, history
  <1>20. ASSUME TcpCreate PROVE TypeInv'
    BY <1>20 DEF TcpCreate, Wrapper!Publish, locks, history
  <1>21. ASSUME TellCreated PROVE TypeInv'
    BY <1>21 DEF TellCreated, Wrapper!Deliver, locks, history
  <1>22. ASSUME Created PROVE TypeInv'
    BY <1>22 DEF Created, contractVars, locks, history
  <1>23. ASSUME Listen PROVE TypeInv'
    BY <1>23 DEF Listen, contractVars, locks, history
  <1>24. ASSUME UnInit PROVE TypeInv'
    BY <1>24 DEF UnInit, contractVars, locks, history
  <1>25. ASSUME DestroyNext PROVE TypeInv'
    BY <1>25 DEF DestroyNext, contractVars, locks
  <1>26. ASSUME TcpUninit PROVE TypeInv'
    BY <1>26 DEF TcpUninit, contractVars, locks, history
  <1>27. ASSUME FreeAll PROVE TypeInv'
    BY <1>27 DEF FreeAll, contractVars, locks, history
  <1>28. ASSUME UNCHANGED vars PROVE TypeInv'
    BY <1>28 DEF vars, contractVars, locks, history
  <1> QED
    BY <1>1, <1>2, <1>3, <1>4, <1>5, <1>6, <1>7, <1>8, <1>9, <1>10, <1>11, <1>12, <1>13,
       <1>14, <1>15, <1>16, <1>17, <1>18, <1>19, <1>20, <1>21, <1>22, <1>23, <1>24,
       <1>25, <1>26, <1>27, <1>28
    DEF Next, Destroying, WorkerStep, MainStep, Ended

(* Only the thread that makes a link learns of it.                         *)
LEMMA FreshStep == ConstantsOK /\ TypeInv /\ FreshInv /\ [Next]_vars => FreshInv'
  <1> SUFFICES ASSUME ConstantsOK, TypeInv, FreshInv, [Next]_vars PROVE FreshInv'
    OBVIOUS
  <1> USE DEF Goto, Take, Call, Stay, Threads, Links, ConstantsOK, TypeInv, TypeOK,
              ArgInv, LockInv, WorkerPC, ClosingPC, SetupPC, MainPC, Creating, IsCreating,
              Wrapper!Announced, Wrapper!Announces,
              HandlingPC, FreshInv, Has, HandsPC, Served
  <1>1. ASSUME NEW t \in Threads, DelLink(t) PROVE FreshInv'
    BY <1>1 DEF DelLink, Wrapper!Remove, Wrapper!Hurry, contractVars, locks, history
  <1>2. ASSUME NEW t \in Threads, TestSocket(t) PROVE FreshInv'
    BY <1>2 DEF TestSocket, contractVars, locks, history
  <1>3. ASSUME NEW t \in Threads, TellClosed(t) PROVE FreshInv'
    BY <1>3 DEF TellClosed, Wrapper!Deliver, contractVars, locks, history
  <1>4. ASSUME NEW t \in Threads, LinkRemove(t) PROVE FreshInv'
    BY <1>4 DEF LinkRemove, contractVars, locks, history
  <1>5. ASSUME NEW l \in Clients, Accept(l) PROVE FreshInv'
    BY <1>5 DEF Accept, Wrapper!Publish, locks, history
  <1>6. ASSUME TellAccepted PROVE FreshInv'
    BY <1>6 DEF TellAccepted, Wrapper!Deliver, locks, history
  <1>7. ASSUME LinkCreate PROVE FreshInv'
    BY <1>7 DEF LinkCreate, contractVars, history
  <1>8. ASSUME GetLinkAddr PROVE FreshInv'
    BY <1>8 DEF GetLinkAddr, contractVars, locks, history
  <1>9. ASSUME Insert PROVE FreshInv'
    BY <1>9 DEF Insert, contractVars, history
  <1>10. ASSUME NEW l \in Clients, FindLink(l) PROVE FreshInv'
    BY <1>10 DEF FindLink, contractVars, locks, history
  <1>11. ASSUME HangUp PROVE FreshInv'
    BY <1>11 DEF HangUp, Wrapper!Deliver, locks, history
  <1>12. ASSUME HungUp PROVE FreshInv'
    BY <1>12 DEF HungUp, Wrapper!Remove, Wrapper!Hurry, contractVars, locks, history
  <1>13. ASSUME TellData PROVE FreshInv'
    BY <1>13 DEF TellData, Wrapper!Deliver, locks, history
  <1>14. ASSUME LinkRecvData PROVE FreshInv'
    BY <1>14 DEF LinkRecvData, contractVars, locks
  <1>15. ASSUME RecvData PROVE FreshInv'
    BY <1>15 DEF RecvData, contractVars, locks, history
  <1>16. ASSUME Flush PROVE FreshInv'
    BY <1>16 DEF Flush, contractVars, history
  <1>17. ASSUME EndFlush PROVE FreshInv'
    BY <1>17 DEF EndFlush, contractVars, history
  <1>18. ASSUME NEW l \in Clients, Expire(l) PROVE FreshInv'
    BY <1>18 DEF Expire, contractVars, locks, history
  <1>19. ASSUME NEW t \in Threads, Exit(t) PROVE FreshInv'
    BY <1>19 DEF Exit, contractVars, locks, history
  <1>20. ASSUME TcpCreate PROVE FreshInv'
    BY <1>20 DEF TcpCreate, Wrapper!Publish, locks, history
  <1>21. ASSUME TellCreated PROVE FreshInv'
    BY <1>21 DEF TellCreated, Wrapper!Deliver, locks, history
  <1>22. ASSUME Created PROVE FreshInv'
    BY <1>22 DEF Created, contractVars, locks, history
  <1>23. ASSUME Listen PROVE FreshInv'
    BY <1>23 DEF Listen, contractVars, locks, history
  <1>24. ASSUME UnInit PROVE FreshInv'
    BY <1>24 DEF UnInit, contractVars, locks, history
  <1>25. ASSUME DestroyNext PROVE FreshInv'
    BY <1>25 DEF DestroyNext, contractVars, locks
  <1>26. ASSUME TcpUninit PROVE FreshInv'
    BY <1>26 DEF TcpUninit, contractVars, locks, history
  <1>27. ASSUME FreeAll PROVE FreshInv'
    BY <1>27 DEF FreeAll, contractVars, locks, history
  <1>28. ASSUME UNCHANGED vars PROVE FreshInv'
    BY <1>28 DEF vars, contractVars, locks, history
  <1> QED
    BY <1>1, <1>2, <1>3, <1>4, <1>5, <1>6, <1>7, <1>8, <1>9, <1>10, <1>11, <1>12, <1>13,
       <1>14, <1>15, <1>16, <1>17, <1>18, <1>19, <1>20, <1>21, <1>22, <1>23, <1>24,
       <1>25, <1>26, <1>27, <1>28
    DEF Next, Destroying, WorkerStep, MainStep, Ended

(* Nobody reaches a client before its worker has told of it.               *)
LEMMA CreateStep ==
    ConstantsOK /\ TypeInv /\ FreshInv /\ CreateInv /\ EndInv /\
    [Next]_vars => CreateInv'
  <1> SUFFICES ASSUME ConstantsOK, TypeInv, FreshInv, CreateInv, EndInv, [Next]_vars
               PROVE  CreateInv'
    OBVIOUS
  <1> USE DEF Goto, Take, Call, Stay, Threads, Links, ConstantsOK, TypeInv, TypeOK,
              ArgInv, LockInv, WorkerPC, ClosingPC, SetupPC, MainPC, Creating, IsCreating,
              Wrapper!Announced, Wrapper!Announces,
              HandlingPC, FreshInv, Has, HandsPC, CreateInv, EndInv, LeavingIt, Served
  <1>1. ASSUME NEW t \in Threads, DelLink(t) PROVE CreateInv'
    BY <1>1 DEF DelLink, Wrapper!Remove, Wrapper!Hurry, contractVars, locks, history
  <1>2. ASSUME NEW t \in Threads, TestSocket(t) PROVE CreateInv'
    BY <1>2 DEF TestSocket, contractVars, locks, history
  <1>3. ASSUME NEW t \in Threads, TellClosed(t) PROVE CreateInv'
    BY <1>3 DEF TellClosed, Wrapper!Deliver, contractVars, locks, history
  <1>4. ASSUME NEW t \in Threads, LinkRemove(t) PROVE CreateInv'
    BY <1>4 DEF LinkRemove, contractVars, locks, history
  <1>5. ASSUME NEW l \in Clients, Accept(l) PROVE CreateInv'
    BY <1>5 DEF Accept, Wrapper!Publish, locks, history
  <1>6. ASSUME TellAccepted PROVE CreateInv'
    BY <1>6 DEF TellAccepted, Wrapper!Deliver, locks, history
  <1>7. ASSUME LinkCreate PROVE CreateInv'
    BY <1>7 DEF LinkCreate, contractVars, history
  <1>8. ASSUME GetLinkAddr PROVE CreateInv'
    BY <1>8 DEF GetLinkAddr, contractVars, locks, history
  <1>9. ASSUME Insert PROVE CreateInv'
    BY <1>9 DEF Insert, contractVars, history
  <1>10. ASSUME NEW l \in Clients, FindLink(l) PROVE CreateInv'
    BY <1>10 DEF FindLink, contractVars, locks, history
  <1>11. ASSUME HangUp PROVE CreateInv'
    BY <1>11 DEF HangUp, Wrapper!Deliver, locks, history
  <1>12. ASSUME HungUp PROVE CreateInv'
    BY <1>12 DEF HungUp, Wrapper!Remove, Wrapper!Hurry, contractVars, locks, history
  <1>13. ASSUME TellData PROVE CreateInv'
    BY <1>13 DEF TellData, Wrapper!Deliver, locks, history
  <1>14. ASSUME LinkRecvData PROVE CreateInv'
    BY <1>14 DEF LinkRecvData, contractVars, locks
  <1>15. ASSUME RecvData PROVE CreateInv'
    BY <1>15 DEF RecvData, contractVars, locks, history
  <1>16. ASSUME Flush PROVE CreateInv'
    BY <1>16 DEF Flush, contractVars, history
  <1>17. ASSUME EndFlush PROVE CreateInv'
    BY <1>17 DEF EndFlush, contractVars, history
  <1>18. ASSUME NEW l \in Clients, Expire(l) PROVE CreateInv'
    BY <1>18 DEF Expire, contractVars, locks, history
  <1>19. ASSUME NEW t \in Threads, Exit(t) PROVE CreateInv'
    BY <1>19 DEF Exit, contractVars, locks, history
  <1>20. ASSUME TcpCreate PROVE CreateInv'
    BY <1>20 DEF TcpCreate, Wrapper!Publish, locks, history
  <1>21. ASSUME TellCreated PROVE CreateInv'
    BY <1>21 DEF TellCreated, Wrapper!Deliver, locks, history
  <1>22. ASSUME Created PROVE CreateInv'
    BY <1>22 DEF Created, contractVars, locks, history
  <1>23. ASSUME Listen PROVE CreateInv'
    BY <1>23 DEF Listen, contractVars, locks, history
  <1>24. ASSUME UnInit PROVE CreateInv'
    BY <1>24 DEF UnInit, contractVars, locks, history
  <1>25. ASSUME DestroyNext PROVE CreateInv'
    BY <1>25 DEF DestroyNext, contractVars, locks
  <1>26. ASSUME TcpUninit PROVE CreateInv'
    BY <1>26 DEF TcpUninit, contractVars, locks, history
  <1>27. ASSUME FreeAll PROVE CreateInv'
    BY <1>27 DEF FreeAll, contractVars, locks, history
  <1>28. ASSUME UNCHANGED vars PROVE CreateInv'
    BY <1>28 DEF vars, contractVars, locks, history
  <1> QED
    BY <1>1, <1>2, <1>3, <1>4, <1>5, <1>6, <1>7, <1>8, <1>9, <1>10, <1>11, <1>12, <1>13,
       <1>14, <1>15, <1>16, <1>17, <1>18, <1>19, <1>20, <1>21, <1>22, <1>23, <1>24,
       <1>25, <1>26, <1>27, <1>28
    DEF Next, Destroying, WorkerStep, MainStep, Ended

(* Who closes a client has a dead socket, or a farewell, in hand.          *)
LEMMA CloseStep ==
    ConstantsOK /\ TypeInv /\ FreshInv /\ CreateInv /\ CloseInv /\
    [Next]_vars => CloseInv'
  <1> SUFFICES ASSUME ConstantsOK, TypeInv, FreshInv, CreateInv, CloseInv, [Next]_vars
               PROVE  CloseInv'
    OBVIOUS
  <1> USE DEF Goto, Take, Call, Stay, Threads, Links, ConstantsOK, TypeInv, TypeOK,
              ArgInv, LockInv, WorkerPC, ClosingPC, SetupPC, MainPC, Creating, IsCreating,
              Wrapper!Announced, Wrapper!Announces,
              HandlingPC, Wrapper!Kinds, Wrapper!Farewells, FreshInv,
              Has, HandsPC, CreateInv, CloseInv, Gone, Served
  <1>1. ASSUME NEW t \in Threads, DelLink(t) PROVE CloseInv'
    BY <1>1 DEF DelLink, Wrapper!Remove, Wrapper!Hurry, contractVars, locks, history
  <1>2. ASSUME NEW t \in Threads, TestSocket(t) PROVE CloseInv'
    BY <1>2 DEF TestSocket, contractVars, locks, history
  <1>3. ASSUME NEW t \in Threads, TellClosed(t) PROVE CloseInv'
    BY <1>3 DEF TellClosed, Wrapper!Deliver, contractVars, locks, history
  <1>4. ASSUME NEW t \in Threads, LinkRemove(t) PROVE CloseInv'
    BY <1>4 DEF LinkRemove, contractVars, locks, history
  <1>5. ASSUME NEW l \in Clients, Accept(l) PROVE CloseInv'
    BY <1>5 DEF Accept, Wrapper!Publish, locks, history
  <1>6. ASSUME TellAccepted PROVE CloseInv'
    BY <1>6 DEF TellAccepted, Wrapper!Deliver, locks, history
  <1>7. ASSUME LinkCreate PROVE CloseInv'
    BY <1>7 DEF LinkCreate, contractVars, history
  <1>8. ASSUME GetLinkAddr PROVE CloseInv'
    BY <1>8 DEF GetLinkAddr, contractVars, locks, history
  <1>9. ASSUME Insert PROVE CloseInv'
    BY <1>9 DEF Insert, contractVars, history
  <1>10. ASSUME NEW l \in Clients, FindLink(l) PROVE CloseInv'
    BY <1>10 DEF FindLink, contractVars, locks, history
  <1>11. ASSUME HangUp PROVE CloseInv'
    BY <1>11 DEF HangUp, Wrapper!Deliver, locks, history
  <1>12. ASSUME HungUp PROVE CloseInv'
    BY <1>12 DEF HungUp, Wrapper!Remove, Wrapper!Hurry, contractVars, locks, history
  <1>13. ASSUME TellData PROVE CloseInv'
    BY <1>13 DEF TellData, Wrapper!Deliver, locks, history
  <1>14. ASSUME LinkRecvData PROVE CloseInv'
    BY <1>14 DEF LinkRecvData, contractVars, locks
  <1>15. ASSUME RecvData PROVE CloseInv'
    BY <1>15 DEF RecvData, contractVars, locks, history
  <1>16. ASSUME Flush PROVE CloseInv'
    BY <1>16 DEF Flush, contractVars, history
  <1>17. ASSUME EndFlush PROVE CloseInv'
    BY <1>17 DEF EndFlush, contractVars, history
  <1>18. ASSUME NEW l \in Clients, Expire(l) PROVE CloseInv'
    BY <1>18 DEF Expire, contractVars, locks, history
  <1>19. ASSUME NEW t \in Threads, Exit(t) PROVE CloseInv'
    BY <1>19 DEF Exit, contractVars, locks, history
  <1>20. ASSUME TcpCreate PROVE CloseInv'
    BY <1>20 DEF TcpCreate, Wrapper!Publish, locks, history
  <1>21. ASSUME TellCreated PROVE CloseInv'
    BY <1>21 DEF TellCreated, Wrapper!Deliver, locks, history
  <1>22. ASSUME Created PROVE CloseInv'
    BY <1>22 DEF Created, contractVars, locks, history
  <1>23. ASSUME Listen PROVE CloseInv'
    BY <1>23 DEF Listen, contractVars, locks, history
  <1>24. ASSUME UnInit PROVE CloseInv'
    BY <1>24 DEF UnInit, contractVars, locks, history
  <1>25. ASSUME DestroyNext PROVE CloseInv'
    BY <1>25 DEF DestroyNext, contractVars, locks
  <1>26. ASSUME TcpUninit PROVE CloseInv'
    BY <1>26 DEF TcpUninit, contractVars, locks, history
  <1>27. ASSUME FreeAll PROVE CloseInv'
    BY <1>27 DEF FreeAll, contractVars, locks, history
  <1>28. ASSUME UNCHANGED vars PROVE CloseInv'
    BY <1>28 DEF vars, contractVars, locks, history
  <1> QED
    BY <1>1, <1>2, <1>3, <1>4, <1>5, <1>6, <1>7, <1>8, <1>9, <1>10, <1>11, <1>12, <1>13,
       <1>14, <1>15, <1>16, <1>17, <1>18, <1>19, <1>20, <1>21, <1>22, <1>23, <1>24,
       <1>25, <1>26, <1>27, <1>28
    DEF Next, Destroying, WorkerStep, MainStep, Ended

(* Who is served stays in the table until the farewell, who is taken out   *)
(* of open is on its way out of the table.                                 *)
LEMMA RemovedStep ==
    ConstantsOK /\ TypeInv /\ FreshInv /\ CreateInv /\ CloseInv /\ RemovedInv /\
    NoZombie /\ AnnounceInv /\ [Next]_vars => RemovedInv'
  <1> SUFFICES ASSUME ConstantsOK, TypeInv, FreshInv, CreateInv, CloseInv, RemovedInv,
                      NoZombie, AnnounceInv, [Next]_vars
               PROVE  RemovedInv'
    OBVIOUS
  <1> USE DEF Goto, Take, Call, Stay, Threads, Links, ConstantsOK, TypeInv, TypeOK,
              ArgInv, LockInv, WorkerPC, ClosingPC, SetupPC, MainPC, Creating, IsCreating,
              Wrapper!Announced, Wrapper!Announces,
              HandlingPC, Wrapper!Kinds, Wrapper!Farewells, FreshInv,
              Has, HandsPC, CreateInv, CloseInv, RemovedInv, NoZombie, Gone, Served,
              LeavingIt
  <1>1. ASSUME NEW t \in Threads, DelLink(t) PROVE RemovedInv'
    <2>1. /\ told' = told /\ open' = open /\ m_link_map' = m_link_map
          /\ overtaken' = overtaken /\ destroyed' = destroyed /\ at' = at
          /\ pc' = [pc EXCEPT ![t] = "test"] /\ pc[t] = "del_link"
          /\ \A l \in Links : l # at[t] => status'[l] = status[l]
          /\ status'[at[t]] \in {status[at[t]], "dead"}
      BY <1>1 DEF DelLink, Wrapper!Remove, Wrapper!Hurry, contractVars, locks, history
    <2>2. t # "worker" => pc'["worker"] = pc["worker"]
      BY <2>1
    <2>3. t = "main" => status'[at[t]] = "dead" \/ at[t] \notin destroyed
      BY <1>1, <2>1
      DEF DelLink, Wrapper!Remove, Wrapper!Hurry, contractVars, AnnounceInv
    <2> QED
      BY <2>1, <2>2, <2>3
  <1>2. ASSUME NEW t \in Threads, TestSocket(t) PROVE RemovedInv'
    BY <1>2 DEF TestSocket, contractVars, locks, history
  <1>3. ASSUME NEW t \in Threads, TellClosed(t) PROVE RemovedInv'
    BY <1>3 DEF TellClosed, Wrapper!Deliver, contractVars, locks, history
  <1>4. ASSUME NEW t \in Threads, LinkRemove(t) PROVE RemovedInv'
    BY <1>4 DEF LinkRemove, contractVars, locks, history
  <1>5. ASSUME NEW l \in Clients, Accept(l) PROVE RemovedInv'
    BY <1>5 DEF Accept, Wrapper!Publish, locks, history
  <1>6. ASSUME TellAccepted PROVE RemovedInv'
    BY <1>6 DEF TellAccepted, Wrapper!Deliver, locks, history
  <1>7. ASSUME LinkCreate PROVE RemovedInv'
    BY <1>7 DEF LinkCreate, contractVars, history
  <1>8. ASSUME GetLinkAddr PROVE RemovedInv'
    BY <1>8 DEF GetLinkAddr, contractVars, locks, history
  <1>9. ASSUME Insert PROVE RemovedInv'
    BY <1>9 DEF Insert, contractVars, history
  <1>10. ASSUME NEW l \in Clients, FindLink(l) PROVE RemovedInv'
    BY <1>10 DEF FindLink, contractVars, locks, history
  <1>11. ASSUME HangUp PROVE RemovedInv'
    BY <1>11 DEF HangUp, Wrapper!Deliver, locks, history
  <1>12. ASSUME HungUp PROVE RemovedInv'
    BY <1>12 DEF HungUp, Wrapper!Remove, Wrapper!Hurry, contractVars, locks, history
  <1>13. ASSUME TellData PROVE RemovedInv'
    BY <1>13 DEF TellData, Wrapper!Deliver, locks, history
  <1>14. ASSUME LinkRecvData PROVE RemovedInv'
    BY <1>14 DEF LinkRecvData, contractVars, locks
  <1>15. ASSUME RecvData PROVE RemovedInv'
    BY <1>15 DEF RecvData, contractVars, locks, history
  <1>16. ASSUME Flush PROVE RemovedInv'
    BY <1>16 DEF Flush, contractVars, history
  <1>17. ASSUME EndFlush PROVE RemovedInv'
    BY <1>17 DEF EndFlush, contractVars, history
  <1>18. ASSUME NEW l \in Clients, Expire(l) PROVE RemovedInv'
    BY <1>18 DEF Expire, contractVars, locks, history
  <1>19. ASSUME NEW t \in Threads, Exit(t) PROVE RemovedInv'
    BY <1>19 DEF Exit, contractVars, locks, history
  <1>20. ASSUME TcpCreate PROVE RemovedInv'
    BY <1>20 DEF TcpCreate, Wrapper!Publish, locks, history
  <1>21. ASSUME TellCreated PROVE RemovedInv'
    BY <1>21 DEF TellCreated, Wrapper!Deliver, locks, history
  <1>22. ASSUME Created PROVE RemovedInv'
    BY <1>22 DEF Created, contractVars, locks, history
  <1>23. ASSUME Listen PROVE RemovedInv'
    BY <1>23 DEF Listen, contractVars, locks, history
  <1>24. ASSUME UnInit PROVE RemovedInv'
    BY <1>24 DEF UnInit, contractVars, locks, history
  <1>25. ASSUME DestroyNext PROVE RemovedInv'
    BY <1>25 DEF DestroyNext, contractVars, locks
  <1>26. ASSUME TcpUninit PROVE RemovedInv'
    BY <1>26 DEF TcpUninit, contractVars, locks, history
  <1>27. ASSUME FreeAll PROVE RemovedInv'
    BY <1>27 DEF FreeAll, contractVars, locks, history
  <1>28. ASSUME UNCHANGED vars PROVE RemovedInv'
    BY <1>28 DEF vars, contractVars, locks, history
  <1> QED
    BY <1>1, <1>2, <1>3, <1>4, <1>5, <1>6, <1>7, <1>8, <1>9, <1>10, <1>11, <1>12, <1>13,
       <1>14, <1>15, <1>16, <1>17, <1>18, <1>19, <1>20, <1>21, <1>22, <1>23, <1>24,
       <1>25, <1>26, <1>27, <1>28
    DEF Next, Destroying, WorkerStep, MainStep, Ended

(* No link is told of before its ACCEPTED or CREATED.                      *)
LEMMA AnnounceStep ==
    ConstantsOK /\ TypeInv /\ FreshInv /\ CreateInv /\ AnnounceInv /\
    [Next]_vars => AnnounceInv'
  <1> SUFFICES ASSUME ConstantsOK, TypeInv, FreshInv, CreateInv, AnnounceInv,
                      [Next]_vars
               PROVE  AnnounceInv'
    OBVIOUS
  <1> USE DEF Goto, Take, Call, Stay, Threads, Links, ConstantsOK, TypeInv, TypeOK,
              ArgInv, LockInv, WorkerPC, ClosingPC, SetupPC, MainPC, Creating, IsCreating,
              Wrapper!Announced, Wrapper!Announces,
              HandlingPC, FreshInv, CreateInv, AnnounceInv
  <1>1. ASSUME NEW t \in Threads, DelLink(t) PROVE AnnounceInv'
    BY <1>1 DEF DelLink, Wrapper!Remove, Wrapper!Hurry, contractVars, locks, history
  <1>2. ASSUME NEW t \in Threads, TestSocket(t) PROVE AnnounceInv'
    BY <1>2 DEF TestSocket, contractVars, locks, history
  <1>3. ASSUME NEW t \in Threads, TellClosed(t) PROVE AnnounceInv'
    BY <1>3 DEF TellClosed, Wrapper!Deliver, contractVars, locks, history
  <1>4. ASSUME NEW t \in Threads, LinkRemove(t) PROVE AnnounceInv'
    BY <1>4 DEF LinkRemove, contractVars, locks, history
  <1>5. ASSUME NEW l \in Clients, Accept(l) PROVE AnnounceInv'
    BY <1>5 DEF Accept, Wrapper!Publish, locks, history
  <1>6. ASSUME TellAccepted PROVE AnnounceInv'
    BY <1>6 DEF TellAccepted, Wrapper!Deliver, locks, history
  <1>7. ASSUME LinkCreate PROVE AnnounceInv'
    BY <1>7 DEF LinkCreate, contractVars, history
  <1>8. ASSUME GetLinkAddr PROVE AnnounceInv'
    BY <1>8 DEF GetLinkAddr, contractVars, locks, history
  <1>9. ASSUME Insert PROVE AnnounceInv'
    BY <1>9 DEF Insert, contractVars, history
  <1>10. ASSUME NEW l \in Clients, FindLink(l) PROVE AnnounceInv'
    BY <1>10 DEF FindLink, contractVars, locks, history
  <1>11. ASSUME HangUp PROVE AnnounceInv'
    BY <1>11 DEF HangUp, Wrapper!Deliver, locks, history
  <1>12. ASSUME HungUp PROVE AnnounceInv'
    BY <1>12 DEF HungUp, Wrapper!Remove, Wrapper!Hurry, contractVars, locks, history
  <1>13. ASSUME TellData PROVE AnnounceInv'
    BY <1>13 DEF TellData, Wrapper!Deliver, locks, history
  <1>14. ASSUME LinkRecvData PROVE AnnounceInv'
    BY <1>14 DEF LinkRecvData, contractVars, locks
  <1>15. ASSUME RecvData PROVE AnnounceInv'
    BY <1>15 DEF RecvData, contractVars, locks, history
  <1>16. ASSUME Flush PROVE AnnounceInv'
    BY <1>16 DEF Flush, contractVars, history
  <1>17. ASSUME EndFlush PROVE AnnounceInv'
    BY <1>17 DEF EndFlush, contractVars, history
  <1>18. ASSUME NEW l \in Clients, Expire(l) PROVE AnnounceInv'
    BY <1>18 DEF Expire, contractVars, locks, history
  <1>19. ASSUME NEW t \in Threads, Exit(t) PROVE AnnounceInv'
    BY <1>19 DEF Exit, contractVars, locks, history
  <1>20. ASSUME TcpCreate PROVE AnnounceInv'
    BY <1>20 DEF TcpCreate, Wrapper!Publish, locks, history
  <1>21. ASSUME TellCreated PROVE AnnounceInv'
    BY <1>21 DEF TellCreated, Wrapper!Deliver, locks, history
  <1>22. ASSUME Created PROVE AnnounceInv'
    BY <1>22 DEF Created, contractVars, locks, history
  <1>23. ASSUME Listen PROVE AnnounceInv'
    BY <1>23 DEF Listen, contractVars, locks, history
  <1>24. ASSUME UnInit PROVE AnnounceInv'
    BY <1>24 DEF UnInit, contractVars, locks, history
  <1>25. ASSUME DestroyNext PROVE AnnounceInv'
    BY <1>25 DEF DestroyNext, contractVars, locks
  <1>26. ASSUME TcpUninit PROVE AnnounceInv'
    BY <1>26 DEF TcpUninit, contractVars, locks, history
  <1>27. ASSUME FreeAll PROVE AnnounceInv'
    BY <1>27 DEF FreeAll, contractVars, locks, history
  <1>28. ASSUME UNCHANGED vars PROVE AnnounceInv'
    BY <1>28 DEF vars, contractVars, locks, history
  <1> QED
    BY <1>1, <1>2, <1>3, <1>4, <1>5, <1>6, <1>7, <1>8, <1>9, <1>10, <1>11, <1>12, <1>13,
       <1>14, <1>15, <1>16, <1>17, <1>18, <1>19, <1>20, <1>21, <1>22, <1>23, <1>24,
       <1>25, <1>26, <1>27, <1>28
    DEF Next, Destroying, WorkerStep, MainStep, Ended

(* The one step that could leave a removed client in the table is Insert,  *)
(* and CreateInv keeps removal from that moment.                           *)
LEMMA ZombieStep ==
    ConstantsOK /\ TypeInv /\ FreshInv /\ CreateInv /\ CloseInv /\ RemovedInv /\
    NoZombie /\ [Next]_vars => NoZombie'
  <1> SUFFICES ASSUME ConstantsOK, TypeInv, FreshInv, CreateInv, CloseInv, RemovedInv,
                      NoZombie, [Next]_vars
               PROVE  NoZombie'
    OBVIOUS
  <1> USE DEF Goto, Take, Call, Stay, Threads, Links, ConstantsOK, TypeInv, TypeOK,
              ArgInv, LockInv, WorkerPC, ClosingPC, SetupPC, MainPC, Creating, IsCreating,
              Wrapper!Announced, Wrapper!Announces,
              HandlingPC, Wrapper!Kinds, Wrapper!Farewells, FreshInv,
              Has, HandsPC, CreateInv, CloseInv, RemovedInv, NoZombie, Gone, Served,
              LeavingIt
  <1>1. ASSUME NEW t \in Threads, DelLink(t) PROVE NoZombie'
    BY <1>1 DEF DelLink, Wrapper!Remove, Wrapper!Hurry, contractVars, locks, history
  <1>2. ASSUME NEW t \in Threads, TestSocket(t) PROVE NoZombie'
    BY <1>2 DEF TestSocket, contractVars, locks, history
  <1>3. ASSUME NEW t \in Threads, TellClosed(t) PROVE NoZombie'
    BY <1>3 DEF TellClosed, Wrapper!Deliver, contractVars, locks, history
  <1>4. ASSUME NEW t \in Threads, LinkRemove(t) PROVE NoZombie'
    BY <1>4 DEF LinkRemove, contractVars, locks, history
  <1>5. ASSUME NEW l \in Clients, Accept(l) PROVE NoZombie'
    BY <1>5 DEF Accept, Wrapper!Publish, locks, history
  <1>6. ASSUME TellAccepted PROVE NoZombie'
    BY <1>6 DEF TellAccepted, Wrapper!Deliver, locks, history
  <1>7. ASSUME LinkCreate PROVE NoZombie'
    BY <1>7 DEF LinkCreate, contractVars, history
  <1>8. ASSUME GetLinkAddr PROVE NoZombie'
    BY <1>8 DEF GetLinkAddr, contractVars, locks, history
  <1>9. ASSUME Insert PROVE NoZombie'
    BY <1>9 DEF Insert, contractVars, history
  <1>10. ASSUME NEW l \in Clients, FindLink(l) PROVE NoZombie'
    BY <1>10 DEF FindLink, contractVars, locks, history
  <1>11. ASSUME HangUp PROVE NoZombie'
    BY <1>11 DEF HangUp, Wrapper!Deliver, locks, history
  <1>12. ASSUME HungUp PROVE NoZombie'
    BY <1>12 DEF HungUp, Wrapper!Remove, Wrapper!Hurry, contractVars, locks, history
  <1>13. ASSUME TellData PROVE NoZombie'
    BY <1>13 DEF TellData, Wrapper!Deliver, locks, history
  <1>14. ASSUME LinkRecvData PROVE NoZombie'
    BY <1>14 DEF LinkRecvData, contractVars, locks
  <1>15. ASSUME RecvData PROVE NoZombie'
    BY <1>15 DEF RecvData, contractVars, locks, history
  <1>16. ASSUME Flush PROVE NoZombie'
    BY <1>16 DEF Flush, contractVars, history
  <1>17. ASSUME EndFlush PROVE NoZombie'
    BY <1>17 DEF EndFlush, contractVars, history
  <1>18. ASSUME NEW l \in Clients, Expire(l) PROVE NoZombie'
    BY <1>18 DEF Expire, contractVars, locks, history
  <1>19. ASSUME NEW t \in Threads, Exit(t) PROVE NoZombie'
    BY <1>19 DEF Exit, contractVars, locks, history
  <1>20. ASSUME TcpCreate PROVE NoZombie'
    BY <1>20 DEF TcpCreate, Wrapper!Publish, locks, history
  <1>21. ASSUME TellCreated PROVE NoZombie'
    BY <1>21 DEF TellCreated, Wrapper!Deliver, locks, history
  <1>22. ASSUME Created PROVE NoZombie'
    BY <1>22 DEF Created, contractVars, locks, history
  <1>23. ASSUME Listen PROVE NoZombie'
    BY <1>23 DEF Listen, contractVars, locks, history
  <1>24. ASSUME UnInit PROVE NoZombie'
    BY <1>24 DEF UnInit, contractVars, locks, history
  <1>25. ASSUME DestroyNext PROVE NoZombie'
    BY <1>25 DEF DestroyNext, contractVars, locks
  <1>26. ASSUME TcpUninit PROVE NoZombie'
    BY <1>26 DEF TcpUninit, contractVars, locks, history
  <1>27. ASSUME FreeAll PROVE NoZombie'
    BY <1>27 DEF FreeAll, contractVars, locks, history
  <1>28. ASSUME UNCHANGED vars PROVE NoZombie'
    BY <1>28 DEF vars, contractVars, locks, history
  <1> QED
    BY <1>1, <1>2, <1>3, <1>4, <1>5, <1>6, <1>7, <1>8, <1>9, <1>10, <1>11, <1>12, <1>13,
       <1>14, <1>15, <1>16, <1>17, <1>18, <1>19, <1>20, <1>21, <1>22, <1>23, <1>24,
       <1>25, <1>26, <1>27, <1>28
    DEF Next, Destroying, WorkerStep, MainStep, Ended

(* Data that finds nobody is that of a client reported gone.               *)
LEMMA UnheardStep ==
    ConstantsOK /\ TypeInv /\ CloseInv /\ RemovedInv /\ UnheardIsGone /\
    [Next]_vars => UnheardIsGone'
  <1> SUFFICES ASSUME ConstantsOK, TypeInv, CloseInv, RemovedInv, UnheardIsGone,
                      [Next]_vars
               PROVE  UnheardIsGone'
    OBVIOUS
  <1> USE DEF Goto, Take, Call, Stay, Threads, Links, ConstantsOK, TypeInv, TypeOK,
              ArgInv, LockInv, WorkerPC, ClosingPC, SetupPC, MainPC, Creating, IsCreating,
              Wrapper!Announced, Wrapper!Announces,
              HandlingPC, Wrapper!Kinds, Wrapper!Farewells, CloseInv,
              RemovedInv, UnheardIsGone, Gone
  <1>1. ASSUME NEW t \in Threads, DelLink(t) PROVE UnheardIsGone'
    BY <1>1 DEF DelLink, Wrapper!Remove, Wrapper!Hurry, contractVars, locks, history
  <1>2. ASSUME NEW t \in Threads, TestSocket(t) PROVE UnheardIsGone'
    BY <1>2 DEF TestSocket, contractVars, locks, history
  <1>3. ASSUME NEW t \in Threads, TellClosed(t) PROVE UnheardIsGone'
    BY <1>3 DEF TellClosed, Wrapper!Deliver, contractVars, locks, history
  <1>4. ASSUME NEW t \in Threads, LinkRemove(t) PROVE UnheardIsGone'
    BY <1>4 DEF LinkRemove, contractVars, locks, history
  <1>5. ASSUME NEW l \in Clients, Accept(l) PROVE UnheardIsGone'
    BY <1>5 DEF Accept, Wrapper!Publish, locks, history
  <1>6. ASSUME TellAccepted PROVE UnheardIsGone'
    BY <1>6 DEF TellAccepted, Wrapper!Deliver, locks, history
  <1>7. ASSUME LinkCreate PROVE UnheardIsGone'
    BY <1>7 DEF LinkCreate, contractVars, history
  <1>8. ASSUME GetLinkAddr PROVE UnheardIsGone'
    BY <1>8 DEF GetLinkAddr, contractVars, locks, history
  <1>9. ASSUME Insert PROVE UnheardIsGone'
    BY <1>9 DEF Insert, contractVars, history
  <1>10. ASSUME NEW l \in Clients, FindLink(l) PROVE UnheardIsGone'
    BY <1>10 DEF FindLink, contractVars, locks, history
  <1>11. ASSUME HangUp PROVE UnheardIsGone'
    BY <1>11 DEF HangUp, Wrapper!Deliver, locks, history
  <1>12. ASSUME HungUp PROVE UnheardIsGone'
    BY <1>12 DEF HungUp, Wrapper!Remove, Wrapper!Hurry, contractVars, locks, history
  <1>13. ASSUME TellData PROVE UnheardIsGone'
    BY <1>13 DEF TellData, Wrapper!Deliver, locks, history
  <1>14. ASSUME LinkRecvData PROVE UnheardIsGone'
    BY <1>14 DEF LinkRecvData, contractVars, locks
  <1>15. ASSUME RecvData PROVE UnheardIsGone'
    BY <1>15 DEF RecvData, contractVars, locks, history
  <1>16. ASSUME Flush PROVE UnheardIsGone'
    BY <1>16 DEF Flush, contractVars, history
  <1>17. ASSUME EndFlush PROVE UnheardIsGone'
    BY <1>17 DEF EndFlush, contractVars, history
  <1>18. ASSUME NEW l \in Clients, Expire(l) PROVE UnheardIsGone'
    BY <1>18 DEF Expire, contractVars, locks, history
  <1>19. ASSUME NEW t \in Threads, Exit(t) PROVE UnheardIsGone'
    BY <1>19 DEF Exit, contractVars, locks, history
  <1>20. ASSUME TcpCreate PROVE UnheardIsGone'
    BY <1>20 DEF TcpCreate, Wrapper!Publish, locks, history
  <1>21. ASSUME TellCreated PROVE UnheardIsGone'
    BY <1>21 DEF TellCreated, Wrapper!Deliver, locks, history
  <1>22. ASSUME Created PROVE UnheardIsGone'
    BY <1>22 DEF Created, contractVars, locks, history
  <1>23. ASSUME Listen PROVE UnheardIsGone'
    BY <1>23 DEF Listen, contractVars, locks, history
  <1>24. ASSUME UnInit PROVE UnheardIsGone'
    BY <1>24 DEF UnInit, contractVars, locks, history
  <1>25. ASSUME DestroyNext PROVE UnheardIsGone'
    BY <1>25 DEF DestroyNext, contractVars, locks
  <1>26. ASSUME TcpUninit PROVE UnheardIsGone'
    BY <1>26 DEF TcpUninit, contractVars, locks, history
  <1>27. ASSUME FreeAll PROVE UnheardIsGone'
    BY <1>27 DEF FreeAll, contractVars, locks, history
  <1>28. ASSUME UNCHANGED vars PROVE UnheardIsGone'
    BY <1>28 DEF vars, contractVars, locks, history
  <1> QED
    BY <1>1, <1>2, <1>3, <1>4, <1>5, <1>6, <1>7, <1>8, <1>9, <1>10, <1>11, <1>12, <1>13,
       <1>14, <1>15, <1>16, <1>17, <1>18, <1>19, <1>20, <1>21, <1>22, <1>23, <1>24,
       <1>25, <1>26, <1>27, <1>28
    DEF Next, Destroying, WorkerStep, MainStep, Ended

(* UnInit's last steps come after both threads have ended.                 *)
LEMMA EndStep ==
    ConstantsOK /\ TypeInv /\ FreshInv /\ CloseInv /\ RemovedInv /\ NoZombie /\ EndInv /\
    [Next]_vars => EndInv'
  <1> SUFFICES ASSUME ConstantsOK, TypeInv, FreshInv, CloseInv, RemovedInv, NoZombie,
                      EndInv, [Next]_vars
               PROVE  EndInv'
    OBVIOUS
  <1> USE DEF Goto, Take, Call, Stay, Threads, Links, ConstantsOK, TypeInv, TypeOK,
              ArgInv, LockInv, WorkerPC, ClosingPC, SetupPC, MainPC, Creating, IsCreating,
              Wrapper!Announced, Wrapper!Announces,
              HandlingPC, FreshInv, Has, HandsPC, CloseInv, RemovedInv, NoZombie,
              EndInv, UnInitLeavesNothing, Gone, LeavingIt
  <1>1. ASSUME NEW t \in Threads, DelLink(t) PROVE EndInv'
    BY <1>1 DEF DelLink, Wrapper!Remove, Wrapper!Hurry, contractVars, locks, history
  <1>2. ASSUME NEW t \in Threads, TestSocket(t) PROVE EndInv'
    BY <1>2 DEF TestSocket, contractVars, locks, history
  <1>3. ASSUME NEW t \in Threads, TellClosed(t) PROVE EndInv'
    BY <1>3 DEF TellClosed, Wrapper!Deliver, contractVars, locks, history
  <1>4. ASSUME NEW t \in Threads, LinkRemove(t) PROVE EndInv'
    BY <1>4 DEF LinkRemove, contractVars, locks, history
  <1>5. ASSUME NEW l \in Clients, Accept(l) PROVE EndInv'
    BY <1>5 DEF Accept, Wrapper!Publish, locks, history
  <1>6. ASSUME TellAccepted PROVE EndInv'
    BY <1>6 DEF TellAccepted, Wrapper!Deliver, locks, history
  <1>7. ASSUME LinkCreate PROVE EndInv'
    BY <1>7 DEF LinkCreate, contractVars, history
  <1>8. ASSUME GetLinkAddr PROVE EndInv'
    BY <1>8 DEF GetLinkAddr, contractVars, locks, history
  <1>9. ASSUME Insert PROVE EndInv'
    BY <1>9 DEF Insert, contractVars, history
  <1>10. ASSUME NEW l \in Clients, FindLink(l) PROVE EndInv'
    BY <1>10 DEF FindLink, contractVars, locks, history
  <1>11. ASSUME HangUp PROVE EndInv'
    BY <1>11 DEF HangUp, Wrapper!Deliver, locks, history
  <1>12. ASSUME HungUp PROVE EndInv'
    BY <1>12 DEF HungUp, Wrapper!Remove, Wrapper!Hurry, contractVars, locks, history
  <1>13. ASSUME TellData PROVE EndInv'
    BY <1>13 DEF TellData, Wrapper!Deliver, locks, history
  <1>14. ASSUME LinkRecvData PROVE EndInv'
    BY <1>14 DEF LinkRecvData, contractVars, locks
  <1>15. ASSUME RecvData PROVE EndInv'
    BY <1>15 DEF RecvData, contractVars, locks, history
  <1>16. ASSUME Flush PROVE EndInv'
    BY <1>16 DEF Flush, contractVars, history
  <1>17. ASSUME EndFlush PROVE EndInv'
    BY <1>17 DEF EndFlush, contractVars, history
  <1>18. ASSUME NEW l \in Clients, Expire(l) PROVE EndInv'
    BY <1>18 DEF Expire, contractVars, locks, history
  <1>19. ASSUME NEW t \in Threads, Exit(t) PROVE EndInv'
    BY <1>19 DEF Exit, contractVars, locks, history
  <1>20. ASSUME TcpCreate PROVE EndInv'
    BY <1>20 DEF TcpCreate, Wrapper!Publish, locks, history
  <1>21. ASSUME TellCreated PROVE EndInv'
    BY <1>21 DEF TellCreated, Wrapper!Deliver, locks, history
  <1>22. ASSUME Created PROVE EndInv'
    BY <1>22 DEF Created, contractVars, locks, history
  <1>23. ASSUME Listen PROVE EndInv'
    BY <1>23 DEF Listen, contractVars, locks, history
  <1>24. ASSUME UnInit PROVE EndInv'
    BY <1>24 DEF UnInit, contractVars, locks, history
  <1>25. ASSUME DestroyNext PROVE EndInv'
    BY <1>25 DEF DestroyNext, contractVars, locks
  <1>26. ASSUME TcpUninit PROVE EndInv'
    BY <1>26 DEF TcpUninit, contractVars, locks, history
  <1>27. ASSUME FreeAll PROVE EndInv'
    BY <1>27 DEF FreeAll, contractVars, locks, history
  <1>28. ASSUME UNCHANGED vars PROVE EndInv'
    BY <1>28 DEF vars, contractVars, locks, history
  <1> QED
    BY <1>1, <1>2, <1>3, <1>4, <1>5, <1>6, <1>7, <1>8, <1>9, <1>10, <1>11, <1>12, <1>13,
       <1>14, <1>15, <1>16, <1>17, <1>18, <1>19, <1>20, <1>21, <1>22, <1>23, <1>24,
       <1>25, <1>26, <1>27, <1>28
    DEF Next, Destroying, WorkerStep, MainStep, Ended


(* Before Init nothing is known of any link.                               *)
LEMMA InitIsFine == ConstantsOK /\ Init => IInv
  <1> SUFFICES ASSUME ConstantsOK, Init PROVE IInv
    OBVIOUS
  <1> USE DEF ConstantsOK, Init, Wrapper!Init, Links, Threads
  <1>1. TypeInv
    BY DEF TypeInv, TypeOK, ArgInv, LockInv, Creating, HandlingPC, WorkerPC, ClosingPC,
           SetupPC,
           MainPC, Wrapper!Kinds
  <1>2. FreshInv
    BY DEF FreshInv, Has, HandsPC, Creating, HandlingPC, ClosingPC
  <1>3. CreateInv /\ CloseInv
    BY DEF CreateInv, CloseInv, Creating, HandlingPC, ClosingPC
  <1>4. RemovedInv /\ AnnounceInv
    BY DEF RemovedInv, AnnounceInv, Wrapper!Announced
  <1>5. NoZombie /\ UnheardIsGone /\ EndInv
    BY DEF NoZombie, UnheardIsGone, EndInv, UnInitLeavesNothing, ClosingPC
  <1> QED
    BY <1>1, <1>2, <1>3, <1>4, <1>5 DEF IInv

(* The parts of the invariant, together, are kept by every step.           *)
LEMMA StepKeeps == ConstantsOK /\ IInv /\ [Next]_vars => IInv'
  BY TypeStep, FreshStep, CreateStep, CloseStep, RemovedStep, AnnounceStep, ZombieStep,
     UnheardStep, EndStep DEF IInv

-----------------------------------------------------------------------------
(* The theorems.                                                           *)

(* The assumption on the constants is a state predicate without variables. *)
LEMMA ConstantsStay == ConstantsOK => []ConstantsOK
  <1>1. ConstantsOK => ConstantsOK'
    BY DEF ConstantsOK, Links
  <1> QED
    BY <1>1, PTL

(* The invariant holds throughout.                                         *)
LEMMA Invariance == ConstantsOK /\ Spec => []IInv
  <1>1. ConstantsOK /\ Init => IInv
    BY InitIsFine
  <1>2. ConstantsOK /\ IInv /\ [Next]_vars => IInv'
    BY StepKeeps
  <1> QED
    BY <1>1, <1>2, ConstantsStay, PTL DEF Spec

(* mo_link_map_lock and m_link_lock are held by the worker in the parts of *)
(* the code they guard, and it never has m_link_lock when it wants         *)
(* mo_link_map_lock, although link_create holds the latter when it calls   *)
(* tcp_get_link_addr, which takes m_link_lock (link-mgr.h).                *)
LockOrder ==
    /\ LockInv
    /\ pc["worker"] \in {"link_create", "link_remove", "link_recv_data"} => m_link_lock # "worker"

(* The variables keep their types, and the two mutexes their order.        *)
THEOREM TypeCorrect == ConstantsOK /\ Spec => [](TypeOK /\ LockOrder)
  <1>1. ConstantsOK /\ IInv => TypeOK /\ LockOrder
    BY DEF IInv, TypeInv, LockInv, LockOrder, ConstantsOK
  <1> QED
    BY <1>1, ConstantsStay, Invariance, PTL

(* A client that the wrapper has removed is in the table only while a      *)
(* thread is about to take it out (link_create, on_tcp_closed), or if its  *)
(* CLOSED came before link_create: the one way in which the table gets a   *)
(* zombie is the one that overtaken names.                                 *)
THEOREM NoZombies == ConstantsOK /\ Spec => []NoZombie
  <1>1. IInv => NoZombie
    BY DEF IInv
  <1> QED
    BY <1>1, Invariance, PTL

(* Who is served and was not reported DISCONNECTED is in the table once    *)
(* its ACCEPTED callback has returned, and data that finds no HANDLE is    *)
(* that of a client that was reported gone: one client's end never removes *)
(* another's entry (link_create, link_remove, link_recv_data).             *)
THEOREM ServedIsKnown == ConstantsOK /\ Spec => [](ClientIsKnown /\ UnheardIsGone)
  <1>1. ConstantsOK /\ IInv => ClientIsKnown
    BY DEF ClientIsKnown, Served, IInv, RemovedInv
  <1>2. IInv => UnheardIsGone
    BY DEF IInv
  <1> QED
    BY <1>1, <1>2, ConstantsStay, Invariance, PTL

(* Of the clients UnInit has destroyed none stays in the table, unless a   *)
(* thread has its removal in hand or it was overtaken; and when            *)
(* ms_tcp_uninit has returned there is none at all but the overtaken, and  *)
(* every link that was made is removed and, unless it was closed before it *)
(* had a handle, reported gone (main.cpp, link_remove_all).                *)
THEOREM UnInitIsComplete ==
    ConstantsOK /\ Spec => [](SnapshotIsRemoved /\ UnInitLeavesNothing)
  <1>1. ConstantsOK /\ IInv => SnapshotIsRemoved
    <2> SUFFICES ASSUME ConstantsOK, IInv, NEW l \in (m_link_map \cap destroyed) \ overtaken
                 PROVE  \E t \in Threads : LeavingIt(t, l)
      BY DEF SnapshotIsRemoved
    <2>1. CASE status[l] = "dead"
      BY <2>1 DEF IInv, NoZombie
    <2>2. CASE pc["main"] = "del_link" /\ at["main"] = l
      BY <2>2 DEF LeavingIt, Threads
    <2> QED
      BY <2>1, <2>2 DEF IInv, RemovedInv
  <1>2. IInv => UnInitLeavesNothing
    BY DEF IInv, EndInv
  <1> QED
    BY <1>1, <1>2, ConstantsStay, Invariance, PTL

(* The server needs of the wrapper what LinkContract promises, no more:    *)
(* when a thread comes to deliver an event or to remove a link, the        *)
(* contract lets it, so that none of its conditions keeps a thread of this *)
(* model from a step that the program would take.  The timeout thread may  *)
(* always remove: what is not announced it removes in a hurry.             *)
MayDeliver(l, e) ==
    /\ status[l] # "none"
    /\ e \in Wrapper!Announces \/ Wrapper!Announced(l) \/ l \in hasty
    /\ e = "CLOSED" => status[l] = "dead" \/ l \in hasty
MayRemove(l) == status[l] = "live" => Wrapper!Announced(l)
ContractLets ==
    /\ \A t \in Threads : /\ pc[t] = "closed" => MayDeliver(at[t], "CLOSED")
                          /\ t # "timer" /\ pc[t] = "del_link" => MayRemove(at[t])
    /\ pc["worker"] = "accepted" => MayDeliver(at["worker"], "ACCEPTED")
    /\ pc["worker"] = "found" => MayDeliver(at["worker"], "DISCONNECTED")
    /\ pc["worker"] \in {"read", "recv_end"} => MayDeliver(at["worker"], "RECEIVEDATA")
    /\ pc["worker"] = "hungup" => MayRemove(at["worker"])
    /\ pc["main"] = "created" => MayDeliver(Listener, "CREATED")
    /\ pc["main"] = "Init" => status[Listener] = "none"

(* No delivery or removal that a thread of the wrapper is about to make is *)
(* held up by the contract (tcp-link.cpp, ms-epoll.cpp).                   *)
THEOREM ContractIsEnough == ConstantsOK /\ Spec => []ContractLets
  <1>1. ConstantsOK /\ IInv => ContractLets
    <2> SUFFICES ASSUME ConstantsOK, IInv PROVE ContractLets
      OBVIOUS
    <2> USE DEF MayDeliver, MayRemove, IInv, TypeInv, ArgInv, Links, Threads
    <2>1. \A t \in Threads : Has(t, at[t]) /\ at[t] \in Links => status[at[t]] # "none"
      BY DEF FreshInv
    <2>2. ASSUME NEW t \in Threads, pc[t] = "closed"
          PROVE  MayDeliver(at[t], "CLOSED")
      <3>1. at[t] \in Links /\ (status[at[t]] = "dead" \/ at[t] \in hasty)
        BY <2>2 DEF CloseInv, ClosingPC
      <3>2. status[at[t]] # "none"
        BY <2>1, <2>2, <3>1 DEF Has, HandsPC, ClosingPC
      <3> QED
        BY <3>1, <3>2 DEF AnnounceInv
    <2>3. ASSUME NEW t \in Threads, t # "timer", pc[t] = "del_link", status[at[t]] = "live"
          PROVE  Wrapper!Announced(at[t])
      <3>1. at[t] \in Links /\ (t # "main" => at[t] # Listener)
        BY <2>3 DEF ClosingPC, ConstantsOK
      <3>2. ~(pc["worker"] = "accepted" /\ at["worker"] = at[t])
        BY <2>3 DEF CreateInv, Creating, LeavingIt
      <3> QED
        BY <2>3, <3>1, <3>2 DEF AnnounceInv
    <2>4. pc["worker"] = "accepted" => MayDeliver(at["worker"], "ACCEPTED")
      BY DEF CreateInv, Creating, Wrapper!Announces
    <2>5. /\ pc["worker"] = "found" => MayDeliver(at["worker"], "DISCONNECTED")
          /\ pc["worker"] \in {"read", "recv_end"} => MayDeliver(at["worker"], "RECEIVEDATA")
          /\ pc["worker"] = "hungup" => MayRemove(at["worker"])
      BY <2>1 DEF CloseInv, Has, HandsPC, HandlingPC
    <2>6. /\ pc["main"] = "created" => MayDeliver(Listener, "CREATED")
          /\ pc["main"] = "Init" => status[Listener] = "none"
      BY <2>1 DEF Has, HandsPC, Wrapper!Announces, AnnounceInv
    <2> QED
      BY <2>2, <2>3, <2>4, <2>5, <2>6 DEF ContractLets
  <1> QED
    BY <1>1, ConstantsStay, Invariance, PTL

(* Every behaviour of the server is, for the wrapper, one of LinkContract: *)
(* its threads publish, tell and remove in an order the contract allows.   *)
THEOREM KeepsContract == ConstantsOK /\ Spec => Wrapper!Spec
  <1>1. Init => Wrapper!Init
    BY DEF Init
  <1>2. ConstantsOK /\ IInv /\ [Next]_vars => [Wrapper!Next]_contractVars
    <2> SUFFICES ASSUME ConstantsOK, IInv, [Next]_vars PROVE [Wrapper!Next]_contractVars
      OBVIOUS
    <2> USE DEF IInv, TypeInv, TypeOK, ArgInv, Links, Threads, Wrapper!Next,
                Wrapper!Kinds
    <2>1. ASSUME NEW t \in Threads, DelLink(t) PROVE [Wrapper!Next]_contractVars
      BY <2>1 DEF DelLink, Wrapper!Remove, Wrapper!Hurry, contractVars, ClosingPC
    <2>2. ASSUME NEW t \in Threads, TellClosed(t) PROVE [Wrapper!Next]_contractVars
      BY <2>2 DEF TellClosed, Wrapper!Deliver, contractVars, ClosingPC
    <2>3. ASSUME NEW l \in Clients, Accept(l) PROVE [Wrapper!Next]_contractVars
      BY <2>3 DEF Accept, Wrapper!Publish, contractVars, HandlingPC, Creating, ClosingPC
    <2>4. ASSUME TellAccepted PROVE [Wrapper!Next]_contractVars
      BY <2>4
      DEF TellAccepted, Wrapper!Deliver, contractVars, HandlingPC, Creating, ClosingPC
    <2>5. ASSUME HangUp PROVE [Wrapper!Next]_contractVars
      BY <2>5 DEF HangUp, Wrapper!Deliver, contractVars, HandlingPC, Creating, ClosingPC
    <2>6. ASSUME HungUp PROVE [Wrapper!Next]_contractVars
      BY <2>6 DEF HungUp, Wrapper!Remove, Wrapper!Hurry, contractVars, HandlingPC, Creating, ClosingPC
    <2>7. ASSUME TellData PROVE [Wrapper!Next]_contractVars
      BY <2>7
      DEF TellData, Wrapper!Deliver, contractVars, HandlingPC, Creating, ClosingPC
    <2>8. ASSUME TcpCreate PROVE [Wrapper!Next]_contractVars
      BY <2>8
      DEF TcpCreate, Wrapper!Publish, contractVars, HandlingPC, Creating, ClosingPC
    <2>9. ASSUME TellCreated PROVE [Wrapper!Next]_contractVars
      BY <2>9
      DEF TellCreated, Wrapper!Deliver, contractVars, HandlingPC, Creating, ClosingPC
    <2>10. ASSUME \/ \E t \in Threads : TestSocket(t) \/ LinkRemove(t) \/ Exit(t)
                  \/ \E l \in Clients : FindLink(l) \/ Expire(l)
                  \/ LinkCreate \/ GetLinkAddr \/ Insert \/ LinkRecvData \/ RecvData
                  \/ Flush \/ EndFlush \/ Created \/ Listen \/ UnInit
                  \/ DestroyNext \/ TcpUninit \/ FreeAll
                  \/ UNCHANGED vars
           PROVE  UNCHANGED contractVars
      BY <2>10
      DEF TestSocket, LinkRemove, LinkCreate, GetLinkAddr, Insert, FindLink,
          LinkRecvData, RecvData, Flush, EndFlush, Expire, Exit, Created, Listen,
          UnInit, DestroyNext, TcpUninit, FreeAll,
                 contractVars, vars
    <2> QED
      BY <2>1, <2>2, <2>3, <2>4, <2>5, <2>6, <2>7, <2>8, <2>9, <2>10
      DEF Next, Destroying, WorkerStep, MainStep, Ended
  <1> QED
    BY <1>1, <1>2, ConstantsStay, Invariance, PTL
    DEF Spec, Wrapper!Spec, contractVars, Wrapper!contractVars

=============================================================================
