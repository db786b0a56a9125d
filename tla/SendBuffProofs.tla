--------------------------- MODULE SendBuffProofs ---------------------------
(***************************************************************************)
(* Proofs about SendBuff, for every value of its constants: the variables  *)
(* keep their types, do_send_buff writes to open sockets only, no data of  *)
(* a link in the table is forgotten by the flag protocol, and its peer     *)
(* reads every byte once, in the order of the sends as far as link_send    *)
(* keeps it.                                                               *)
(***************************************************************************)
EXTENDS SendBuff, SequenceTheorems, TLAPS

(* The names of sets of labels and of tuples of variables are expanded     *)
(* throughout.                                                             *)
USE DEF Threads, CallPC, DestroyPC, WorkerPC, tableVars, listVars, kernelVars,
        peerVars, batchVars, flushVars, histVars, sharedVars, osVars, workVars

-----------------------------------------------------------------------------
(* Writes: what a write() takes fits both the kernel and the chunk.        *)

LEMMA FittingBounds ==
    ASSUME TypeOK, NEW l \in Links, NEW c \in Chunk
    PROVE  /\ Fitting(l, c) \in Nat
           /\ Fitting(l, c) <= room[l]
           /\ Fitting(l, c) <= MsgSize + 1 - c.from
  BY SizeAssumption DEF TypeOK, Chunk, Fitting

(* The kernel's side of a write keeps its types.                           *)
LEMMA WriteType ==
    ASSUME TypeOK, NEW l \in Links, NEW c \in Chunk,
           Write(l, c, Fitting(l, c))
    PROVE  /\ wire' \in [Links -> Seq(Nat \X Nat)]
           /\ room' \in [Links -> 0..Room]
           /\ nospace' \subseteq Links
  <1> DEFINE n == Fitting(l, c)
             new == [i \in 1..n |-> <<c.msg, c.from + i - 1>>]
  <1>1. n \in Nat /\ n <= room[l]
    BY FittingBounds
  <1>2. new \in Seq(Nat \X Nat)
    <2>1. \A i \in 1..n : <<c.msg, c.from + i - 1>> \in Nat \X Nat
      BY SizeAssumption DEF Chunk
    <2> QED
      BY <1>1, <2>1, IsASeq
  <1>3. wire[l] \o new \in Seq(Nat \X Nat)
    BY <1>2, ConcatProperties DEF TypeOK
  <1>4. wire' = [wire EXCEPT ![l] = wire[l] \o new]
    BY DEF Write
  <1>5. wire' \in [Links -> Seq(Nat \X Nat)]
    BY <1>3, <1>4 DEF TypeOK
  <1>6. room' \in [Links -> 0..Room]
    BY <1>1, SizeAssumption DEF Write, TypeOK
  <1>7. nospace' \subseteq Links
    BY DEF Write, TypeOK
  <1> QED
    BY <1>5, <1>6, <1>7

(* Sending part of the first chunk leaves a list of chunks.                *)
LEMMA ListAfterType ==
    ASSUME NEW list \in Seq(Chunk), list # <<>>, NEW n \in Nat
    PROVE  ListAfter(list, n) \in Seq(Chunk)
  <1>1. Head(list) \in Chunk /\ Tail(list) \in Seq(Chunk)
    BY HeadTailProperties
  <1>2. CASE Head(list).from + n > MsgSize
    BY <1>1, <1>2 DEF ListAfter
  <1>3. CASE ~(Head(list).from + n > MsgSize)
    <2>1. After(Head(list), n) \in Chunk
      BY <1>1, <1>3, SizeAssumption DEF After, Chunk
    <2>2. <<After(Head(list), n)>> \in Seq(Chunk)
      BY <2>1
    <2> QED
      BY <1>1, <1>3, <2>2, ConcatProperties DEF ListAfter
  <1> QED
    BY <1>2, <1>3

-----------------------------------------------------------------------------
(* Type correctness.  A thread in a call holds a link (arg), a sender in   *)
(* "push" a chunk (rest): the type invariant is not inductive without.     *)

Busy(t) == pc[t] \notin {"idle", "wait", "batch", "check", "clear", "lock", "scan"}

ArgInv == /\ \A t \in Threads : Busy(t) => arg[t] \in Links
          /\ \A t \in App : pc[t] = "push" => rest[t] \in Chunk

TypeInv == TypeOK /\ ArgInv

LEMMA TypeInit == Init => TypeInv
  <1> SUFFICES ASSUME Init PROVE TypeInv
    OBVIOUS
  <1>1. \A l \in Links : <<>> \in Seq(Chunk) /\ <<>> \in Seq(Nat \X Nat) /\ <<>> \in Seq(Links)
    BY EmptySeq
  <1>2. m_send_buff_list \in [Links -> Seq(Chunk)] /\ wire \in [Links -> Seq(Nat \X Nat)]
    BY <1>1 DEF Init
  <1>3. log \in Seq(Links)
    BY EmptySeq DEF Init
  <1>4. pc \in [Threads -> {"idle", "wait"}] /\ pc[Worker] = "wait"
        /\ \A t \in App : pc[t] = "idle"
    BY NameAssumption DEF Init
  <1>5. TypeOK
    <2>1. pc \in [Threads -> CallPC \cup DestroyPC \cup WorkerPC]
      BY <1>4
    <2>2. room \in [Links -> 0..Room] /\ rest \in [App -> Chunk \cup {NoChunk}]
          /\ arg \in [Threads -> Links \cup {None}]
      BY SizeAssumption DEF Init
    <2> QED
      BY <1>2, <1>3, <1>4, <2>1, <2>2 DEF Init, TypeOK
  <1>6. ArgInv
    BY <1>4 DEF ArgInv, Busy
  <1> QED
    BY <1>5, <1>6 DEF TypeInv

LEMMA TypeStep == TypeInv /\ [Next]_vars => TypeInv'
  <1> SUFFICES ASSUME TypeInv, [Next]_vars PROVE TypeInv'
    OBVIOUS
  <1> USE SizeAssumption, NameAssumption DEF TypeInv, Goto, Enter, Busy
  <1>1. ASSUME NEW t \in App, NEW l \in Links, SendFind(t, l) PROVE TypeInv'
    <2>1. TypeOK'
      BY <1>1 DEF SendFind, TypeOK
    <2>2. ArgInv'
      BY <1>1 DEF SendFind, ArgInv, TypeOK
    <2> QED  BY <2>1, <2>2
  <1>2. ASSUME NEW t \in App, NEW l \in Links, DestroyFind(t, l) PROVE TypeInv'
    <2>1. TypeOK'
      BY <1>2 DEF DestroyFind, TypeOK
    <2>2. ArgInv'
      BY <1>2 DEF DestroyFind, ArgInv, TypeOK
    <2> QED  BY <2>1, <2>2
  <1>3. ASSUME NEW t \in App, SendWrite(t) PROVE TypeInv'
    <2> DEFINE l == arg[t]
               c == [msg |-> Len(log) + 1, from |-> 1]
               n == Fitting(l, c)
    <2>1. l \in Links /\ c \in Chunk /\ n \in Nat /\ n <= MsgSize
      <3>1. l \in Links
        BY <1>3 DEF SendWrite, ArgInv
      <3>2. Len(log) \in Nat
        BY LenProperties DEF TypeOK
      <3>3. c \in Chunk
        BY <3>2 DEF Chunk
      <3> QED
        BY <3>1, <3>3, FittingBounds
    <2>2. wire' \in [Links -> Seq(Nat \X Nat)] /\ room' \in [Links -> 0..Room]
          /\ nospace' \subseteq Links
      BY <1>3, <2>1, WriteType DEF SendWrite
    <2>3. log' \in Seq(Links)
      BY <1>3, <2>1 DEF SendWrite, TypeOK
    <2>4. n # MsgSize => After(c, n) \in Chunk
      BY <2>1 DEF After, Chunk
    <2>a. pc' \in [Threads -> CallPC \cup DestroyPC \cup WorkerPC]
          /\ (\A u \in App : pc'[u] \in CallPC \cup DestroyPC)
          /\ pc'[Worker] \in DestroyPC \cup WorkerPC
          /\ arg' \in [Threads -> Links \cup {None}]
      <3>1. CASE Enter(t, "idle", None)
        BY <3>1 DEF TypeOK
      <3>2. CASE Goto(t, "push") /\ UNCHANGED arg
        BY <3>2 DEF TypeOK
      <3> QED
        BY <1>3, <3>1, <3>2 DEF SendWrite
    <2>b. rest' \in [App -> Chunk \cup {NoChunk}]
      BY <1>3, <2>1, <2>4 DEF SendWrite, TypeOK
    <2>5. TypeOK'
      BY <1>3, <2>1, <2>2, <2>3, <2>a, <2>b
         DEF SendWrite, TypeOK
    <2>6. ArgInv'
      BY <1>3, <2>1, <2>4 DEF SendWrite, ArgInv, TypeOK
    <2> QED  BY <2>5, <2>6
  <1>4. ASSUME NEW t \in App, SendError(t) PROVE TypeInv'
    <2>0. arg[t] \in Links
      BY <1>4 DEF SendError, ArgInv
    <2>1. TypeOK'
      BY <1>4, <2>0 DEF SendError, TypeOK, Edge
    <2>2. ArgInv'
      BY <1>4 DEF SendError, ArgInv, TypeOK
    <2> QED  BY <2>1, <2>2
  <1>5. ASSUME NEW t \in App, SendPush(t) PROVE TypeInv'
    <2>0. arg[t] \in Links /\ rest[t] \in Chunk
      BY <1>5 DEF SendPush, ArgInv
    <2>1. Append(m_send_buff_list[arg[t]], rest[t]) \in Seq(Chunk)
      BY <2>0 DEF TypeOK
    <2>2. m_send_buff_list' \in [Links -> Seq(Chunk)]
      BY <1>5, <2>0, <2>1 DEF SendPush, TypeOK
    <2>3. TypeOK'
      BY <1>5, <2>0, <2>2 DEF SendPush, TypeOK
    <2>4. ArgInv'
      BY <1>5, <2>0 DEF SendPush, ArgInv, TypeOK
    <2> QED  BY <2>3, <2>4
  <1>6. ASSUME NEW t \in App, SendFlag(t) PROVE TypeInv'
    <2>0. arg[t] \in Links
      BY <1>6 DEF SendFlag, ArgInv
    <2>1. TypeOK'
      BY <1>6, <2>0 DEF SendFlag, ListUnlocked, TypeOK
    <2>2. ArgInv'
      BY <1>6 DEF SendFlag, ArgInv, TypeOK
    <2> QED  BY <2>1, <2>2
  <1>7. ASSUME NEW t \in Threads, LinkDestroy(t) PROVE TypeInv'
    <2>0. arg[t] \in Links
      BY <1>7 DEF LinkDestroy, DelSendBuff, DelLink, DestroySocket, ArgInv
    <2>1. CASE DelSendBuff(t)
      <3>1. m_send_buff_list' \in [Links -> Seq(Chunk)]
        BY <2>0, <2>1, EmptySeq DEF DelSendBuff, TypeOK
      <3>2. TypeOK'
        BY <2>0, <2>1, <3>1 DEF DelSendBuff, TypeOK
      <3>3. ArgInv'
        BY <2>0, <2>1 DEF DelSendBuff, ArgInv, TypeOK
      <3> QED  BY <3>2, <3>3
    <2>2. CASE DelLink(t)
      <3>0. pc' \in [Threads -> CallPC \cup DestroyPC \cup WorkerPC]
            /\ (\A u \in App : pc'[u] \in CallPC \cup DestroyPC)
            /\ pc'[Worker] \in DestroyPC \cup WorkerPC
            /\ arg' \in [Threads -> Links \cup {None}]
        <4>1. CASE Goto(t, "destSock") /\ UNCHANGED arg
          BY <4>1 DEF TypeOK
        <4>2. CASE t = Worker /\ Enter(t, "batch", None)
          BY <4>2 DEF TypeOK
        <4>3. pc[t] # "destLink" => t = Worker
          BY <2>2 DEF DelLink, TypeOK
        <4> QED
          BY <2>2, <4>1, <4>2, <4>3 DEF DelLink
      <3>1. TypeOK'
        BY <2>0, <2>2, <3>0 DEF DelLink, TypeOK
      <3>2. ArgInv'
        BY <2>0, <2>2 DEF DelLink, ArgInv, TypeOK
      <3> QED  BY <3>1, <3>2
    <2>3. CASE DestroySocket(t)
      <3>1. TypeOK'
        BY <2>0, <2>3 DEF DestroySocket, TypeOK
      <3>2. ArgInv'
        BY <2>0, <2>3 DEF DestroySocket, ArgInv, TypeOK
      <3> QED  BY <3>1, <3>2
    <2> QED
      BY <1>7, <2>1, <2>2, <2>3 DEF LinkDestroy
  <1>8. ASSUME EpollWait PROVE TypeInv'
    <2>1. TypeOK'
      BY <1>8 DEF EpollWait, TypeOK
    <2>2. ArgInv'
      BY <1>8 DEF EpollWait, ArgInv, TypeOK
    <2> QED  BY <2>1, <2>2
  <1>9. ASSUME BatchDone PROVE TypeInv'
    <2>1. TypeOK'
      BY <1>9 DEF BatchDone, TypeOK
    <2>2. ArgInv'
      BY <1>9 DEF BatchDone, ArgInv, TypeOK
    <2> QED  BY <2>1, <2>2
  <1>9a. ASSUME Interrupted PROVE TypeInv'
    <2>1. TypeOK'
      BY <1>9a DEF Interrupted, TypeOK
    <2>2. ArgInv'
      BY <1>9a DEF Interrupted, ArgInv, TypeOK
    <2> QED  BY <2>1, <2>2
  <1>10. ASSUME NEW l \in Links, HandleEvent(l) PROVE TypeInv'
    <2>0. pc' \in [Threads -> CallPC \cup DestroyPC \cup WorkerPC]
          /\ (\A u \in App : pc'[u] \in CallPC \cup DestroyPC)
          /\ pc'[Worker] \in DestroyPC \cup WorkerPC
          /\ arg' \in [Threads -> Links \cup {None}]
      <3>1. CASE UNCHANGED <<pc, arg>>
        BY <3>1 DEF TypeOK
      <3>2. CASE \E label \in {"discBuf", "destBuf"} : Enter(Worker, label, l)
        BY <3>2 DEF TypeOK
      <3> QED
        BY <1>10, <3>1, <3>2 DEF HandleEvent
    <2>1. TypeOK'
      BY <1>10, <2>0 DEF HandleEvent, TypeOK
    <2>2. ArgInv'
      BY <1>10 DEF HandleEvent, ArgInv, TypeOK
    <2> QED  BY <2>1, <2>2
  <1>11. ASSUME FlushCheck PROVE TypeInv'
    <2>1. TypeOK'
      BY <1>11 DEF FlushCheck, TypeOK
    <2>2. ArgInv'
      BY <1>11 DEF FlushCheck, ArgInv, TypeOK
    <2> QED  BY <2>1, <2>2
  <1>12. ASSUME FlushClear PROVE TypeInv'
    <2>1. TypeOK'
      BY <1>12 DEF FlushClear, TypeOK
    <2>2. ArgInv'
      BY <1>12 DEF FlushClear, ArgInv, TypeOK
    <2> QED  BY <2>1, <2>2
  <1>13. ASSUME FlushLock PROVE TypeInv'
    <2>1. TypeOK'
      BY <1>13 DEF FlushLock, TypeOK
    <2>2. ArgInv'
      BY <1>13 DEF FlushLock, ArgInv, TypeOK
    <2> QED  BY <2>1, <2>2
  <1>14. ASSUME NEW l \in Links, FlushVisit(l) PROVE TypeInv'
    <2>1. TypeOK'
      BY <1>14 DEF FlushVisit, TypeOK
    <2>2. ArgInv'
      BY <1>14 DEF FlushVisit, ArgInv, TypeOK
    <2> QED  BY <2>1, <2>2
  <1>15. ASSUME FlushWrite PROVE TypeInv'
    <2> DEFINE l == arg[Worker]
               list == m_send_buff_list[l]
               n == Fitting(l, Head(list))
    <2>1. l \in Links /\ list \in Seq(Chunk) /\ list # <<>>
      BY <1>15 DEF FlushWrite, ArgInv, TypeOK
    <2>2. Head(list) \in Chunk
      BY <2>1
    <2>3. n \in Nat
      BY <2>1, <2>2, FittingBounds
    <2>4. wire' \in [Links -> Seq(Nat \X Nat)] /\ room' \in [Links -> 0..Room]
          /\ nospace' \subseteq Links
      BY <1>15, <2>1, <2>2, WriteType DEF FlushWrite
    <2>5. ListAfter(list, n) \in Seq(Chunk)
      BY <2>1, <2>3, ListAfterType
    <2>6. m_send_buff_list' \in [Links -> Seq(Chunk)]
      BY <1>15, <2>1, <2>5 DEF FlushWrite, TypeOK
    <2>7. TypeOK'
      BY <1>15, <2>4, <2>6 DEF FlushWrite, TypeOK
    <2>8. ArgInv'
      BY <1>15 DEF FlushWrite, ArgInv, TypeOK
    <2> QED  BY <2>7, <2>8
  <1>16. ASSUME FlushSpin PROVE TypeInv'
    <2>1. arg[Worker] \in Links
      BY <1>16 DEF FlushSpin, ArgInv
    <2>2. TypeOK'
      BY <1>16, <2>1 DEF FlushSpin, TypeOK
    <2>3. ArgInv'
      BY <1>16 DEF FlushSpin, ArgInv, TypeOK
    <2> QED  BY <2>2, <2>3
  <1>17. ASSUME FlushLeave PROVE TypeInv'
    <2>1. arg[Worker] \in Links
      BY <1>17 DEF FlushLeave, ArgInv
    <2>2. TypeOK'
      BY <1>17, <2>1 DEF FlushLeave, FlagAfter, ListUnlocked, TypeOK
    <2>3. ArgInv'
      BY <1>17 DEF FlushLeave, ArgInv, TypeOK
    <2> QED  BY <2>2, <2>3
  <1>18. ASSUME FlushDone PROVE TypeInv'
    <2>1. TypeOK'
      BY <1>18 DEF FlushDone, TypeOK
    <2>2. ArgInv'
      BY <1>18 DEF FlushDone, ArgInv, TypeOK
    <2> QED  BY <2>1, <2>2
  <1>19. ASSUME NEW l \in Links, AddTcpLink(l) PROVE TypeInv'
    <2>1. TypeOK'
      BY <1>19 DEF AddTcpLink, TypeOK
    <2>2. ArgInv'
      BY <1>19 DEF AddTcpLink, ArgInv, TypeOK
    <2> QED  BY <2>1, <2>2
  <1>20. ASSUME NEW l \in Links, Drain(l) PROVE TypeInv'
    <2>1. TypeOK'
      BY <1>20 DEF Drain, Edge, TypeOK
    <2>2. ArgInv'
      BY <1>20 DEF Drain, ArgInv, TypeOK
    <2> QED  BY <2>1, <2>2
  <1>21. ASSUME NEW l \in Links, Arrives(l) PROVE TypeInv'
    <2>1. TypeOK'
      BY <1>21 DEF Arrives, TypeOK
    <2>2. ArgInv'
      BY <1>21 DEF Arrives, ArgInv, TypeOK
    <2> QED  BY <2>1, <2>2
  <1>22. ASSUME NEW l \in Links, PeerCloses(l) PROVE TypeInv'
    <2>1. TypeOK'
      BY <1>22 DEF PeerCloses, Edge, TypeOK
    <2>2. ArgInv'
      BY <1>22 DEF PeerCloses, ArgInv, TypeOK
    <2> QED  BY <2>1, <2>2
  <1>23. CASE UNCHANGED vars
    <2>1. TypeOK'
      BY <1>23 DEF vars, TypeOK
    <2>2. ArgInv'
      BY <1>23 DEF vars, ArgInv, TypeOK
    <2> QED  BY <2>1, <2>2
  <1> QED
    BY <1>1, <1>2, <1>3, <1>4, <1>5, <1>6, <1>7, <1>8, <1>9, <1>9a, <1>10, <1>11, <1>12,
       <1>13, <1>14, <1>15, <1>16, <1>17, <1>18, <1>19, <1>20, <1>21, <1>22, <1>23
       DEF Next, InCall, WorkerStep, Flush, Environment

(* The types hold in every state of every behaviour.                       *)
THEOREM TypeCorrect == Spec => []TypeOK
  <1>1. TypeInv => TypeOK
    BY DEF TypeInv
  <1> QED
    BY TypeInit, TypeStep, <1>1, PTL DEF Spec

-----------------------------------------------------------------------------
(* The table and the threads.                                              *)

(* A link in the table is open; one not yet published holds no data.       *)
LinkInv == \A l \in Links : /\ l \in m_maplink => mi_socket[l] = "open"
                            /\ mi_socket[l] = "new" => m_send_buff_list[l] = <<>>

(* A call works on a published link, and link_destroy gives up the socket  *)
(* of a link that has left the table.                                      *)
CallInv == \A t \in Threads : /\ Busy(t) => mi_socket[arg[t]] # "new"
                              /\ pc[t] = "destSock" => arg[t] \notin m_maplink

(* The scan of do_send_buff holds m_link_lock, so what it has still to     *)
(* visit, the link it is at included, stays in the table.                  *)
FlushInv == LET scanning == pc[Worker] \in {"scan", "chunk"}
            IN  /\ scanning <=> m_link_lock = Worker
                /\ todo # {} => scanning
                /\ todo \subseteq m_maplink
                /\ pc[Worker] = "chunk" => arg[Worker] \in todo

TableInv == LinkInv /\ CallInv /\ FlushInv

IInv == TypeInv /\ TableInv /\ NoLostSend

LEMMA TableInit == Init => TableInv
  BY NameAssumption DEF Init, TableInv, LinkInv, CallInv, FlushInv, Busy

LEMMA TableStep == TypeInv /\ TableInv /\ [Next]_vars => TableInv'
  <1> SUFFICES ASSUME TypeInv, TableInv, [Next]_vars PROVE TableInv'
    OBVIOUS
  <1> USE NameAssumption DEF TypeInv, TypeOK, ArgInv, Busy, TableInv, LinkInv, CallInv,
                             FlushInv, TableFree, Goto, Enter
  <1>1. ASSUME NEW t \in App, NEW l \in Links, SendFind(t, l) PROVE TableInv'
    <2>1. LinkInv'
      BY <1>1 DEF SendFind
    <2>2. CallInv'
      BY <1>1 DEF SendFind
    <2>3. FlushInv'
      BY <1>1 DEF SendFind
    <2> QED  BY <2>1, <2>2, <2>3
  <1>2. ASSUME NEW t \in App, NEW l \in Links, DestroyFind(t, l) PROVE TableInv'
    <2>1. LinkInv'
      BY <1>2 DEF DestroyFind
    <2>2. CallInv'
      BY <1>2 DEF DestroyFind
    <2>3. FlushInv'
      BY <1>2 DEF DestroyFind
    <2> QED  BY <2>1, <2>2, <2>3
  <1>3. ASSUME NEW t \in App, SendWrite(t) PROVE TableInv'
    <2>1. LinkInv'
      BY <1>3 DEF SendWrite, Write
    <2>2. CallInv'
      <3>1. CASE Enter(t, "idle", None)
        BY <1>3, <3>1 DEF SendWrite
      <3>2. CASE Goto(t, "push") /\ UNCHANGED arg
        BY <1>3, <3>2 DEF SendWrite
      <3> QED
        BY <1>3, <3>1, <3>2 DEF SendWrite
    <2>3. FlushInv'
      BY <1>3 DEF SendWrite, Write
    <2> QED  BY <2>1, <2>2, <2>3
  <1>4. ASSUME NEW t \in App, SendError(t) PROVE TableInv'
    <2>1. LinkInv'
      BY <1>4 DEF SendError
    <2>2. CallInv'
      BY <1>4 DEF SendError
    <2>3. FlushInv'
      BY <1>4 DEF SendError
    <2> QED  BY <2>1, <2>2, <2>3
  <1>5. ASSUME NEW t \in App, SendPush(t) PROVE TableInv'
    <2>1. LinkInv'
      <3>1. mi_socket[arg[t]] # "new"
        BY <1>5 DEF SendPush
      <3>2. \A l \in Links : l # arg[t] => m_send_buff_list'[l] = m_send_buff_list[l]
        BY <1>5 DEF SendPush
      <3> QED
        BY <1>5, <3>1, <3>2 DEF SendPush
    <2>2. CallInv'
      BY <1>5 DEF SendPush
    <2>3. FlushInv'
      BY <1>5 DEF SendPush
    <2> QED  BY <2>1, <2>2, <2>3
  <1>6. ASSUME NEW t \in App, SendFlag(t) PROVE TableInv'
    <2>1. LinkInv'
      BY <1>6 DEF SendFlag
    <2>2. CallInv'
      BY <1>6 DEF SendFlag
    <2>3. FlushInv'
      BY <1>6 DEF SendFlag
    <2> QED  BY <2>1, <2>2, <2>3
  <1>7. ASSUME NEW t \in Threads, DelSendBuff(t) PROVE TableInv'
    <2>1. LinkInv'
      BY <1>7 DEF DelSendBuff
    <2>2. CallInv'
      BY <1>7 DEF DelSendBuff
    <2>3. FlushInv'
      BY <1>7 DEF DelSendBuff
    <2> QED  BY <2>1, <2>2, <2>3
  <1>8. ASSUME NEW t \in Threads, DelLink(t) PROVE TableInv'
    <2>1. LinkInv'
      BY <1>8 DEF DelLink
    <2>2. CallInv'
      BY <1>8 DEF DelLink
    <2>3. FlushInv'
      BY <1>8 DEF DelLink
    <2> QED  BY <2>1, <2>2, <2>3
  <1>9. ASSUME NEW t \in Threads, DestroySocket(t) PROVE TableInv'
    <2>1. LinkInv'
      BY <1>9 DEF DestroySocket
    <2>2. CallInv'
      BY <1>9 DEF DestroySocket
    <2>3. FlushInv'
      BY <1>9 DEF DestroySocket
    <2> QED  BY <2>1, <2>2, <2>3
  <1>10. ASSUME EpollWait PROVE TableInv'
    <2>1. LinkInv'
      BY <1>10 DEF EpollWait
    <2>2. CallInv'
      BY <1>10 DEF EpollWait
    <2>3. FlushInv'
      BY <1>10 DEF EpollWait
    <2> QED  BY <2>1, <2>2, <2>3
  <1>11. ASSUME BatchDone PROVE TableInv'
    <2>1. LinkInv'
      BY <1>11 DEF BatchDone
    <2>2. CallInv'
      BY <1>11 DEF BatchDone
    <2>3. FlushInv'
      BY <1>11 DEF BatchDone
    <2> QED  BY <2>1, <2>2, <2>3
  <1>11a. ASSUME Interrupted PROVE TableInv'
    <2>1. LinkInv'
      BY <1>11a DEF Interrupted
    <2>2. CallInv'
      BY <1>11a DEF Interrupted
    <2>3. FlushInv'
      BY <1>11a DEF Interrupted
    <2> QED  BY <2>1, <2>2, <2>3
  <1>12. ASSUME NEW l \in Links, HandleEvent(l) PROVE TableInv'
    <2>1. LinkInv'
      BY <1>12 DEF HandleEvent
    <2>2. CallInv'
      BY <1>12 DEF HandleEvent
    <2>3. FlushInv'
      BY <1>12 DEF HandleEvent
    <2> QED  BY <2>1, <2>2, <2>3
  <1>13. ASSUME FlushCheck PROVE TableInv'
    <2>1. LinkInv'
      BY <1>13 DEF FlushCheck
    <2>2. CallInv'
      BY <1>13 DEF FlushCheck
    <2>3. FlushInv'
      BY <1>13 DEF FlushCheck
    <2> QED  BY <2>1, <2>2, <2>3
  <1>14. ASSUME FlushClear PROVE TableInv'
    <2>1. LinkInv'
      BY <1>14 DEF FlushClear
    <2>2. CallInv'
      BY <1>14 DEF FlushClear
    <2>3. FlushInv'
      BY <1>14 DEF FlushClear
    <2> QED  BY <2>1, <2>2, <2>3
  <1>15. ASSUME FlushLock PROVE TableInv'
    <2>1. LinkInv'
      BY <1>15 DEF FlushLock
    <2>2. CallInv'
      BY <1>15 DEF FlushLock
    <2>3. FlushInv'
      BY <1>15 DEF FlushLock
    <2> QED  BY <2>1, <2>2, <2>3
  <1>16. ASSUME NEW l \in Links, FlushVisit(l) PROVE TableInv'
    <2>1. LinkInv'
      BY <1>16 DEF FlushVisit
    <2>2. CallInv'
      BY <1>16 DEF FlushVisit
    <2>3. FlushInv'
      BY <1>16 DEF FlushVisit
    <2> QED  BY <2>1, <2>2, <2>3
  <1>17. ASSUME FlushWrite PROVE TableInv'
    <2>1. LinkInv'
      BY <1>17 DEF FlushWrite, Write
    <2>2. CallInv'
      BY <1>17 DEF FlushWrite, Write
    <2>3. FlushInv'
      BY <1>17 DEF FlushWrite, Write
    <2> QED  BY <2>1, <2>2, <2>3
  <1>18. ASSUME FlushSpin PROVE TableInv'
    <2>1. LinkInv'
      BY <1>18 DEF FlushSpin
    <2>2. CallInv'
      BY <1>18 DEF FlushSpin
    <2>3. FlushInv'
      BY <1>18 DEF FlushSpin
    <2> QED  BY <2>1, <2>2, <2>3
  <1>19. ASSUME FlushLeave PROVE TableInv'
    <2>1. LinkInv'
      BY <1>19 DEF FlushLeave, FlagAfter
    <2>2. CallInv'
      BY <1>19 DEF FlushLeave, FlagAfter
    <2>3. FlushInv'
      BY <1>19 DEF FlushLeave, FlagAfter
    <2> QED  BY <2>1, <2>2, <2>3
  <1>20. ASSUME FlushDone PROVE TableInv'
    <2>1. LinkInv'
      BY <1>20 DEF FlushDone
    <2>2. CallInv'
      BY <1>20 DEF FlushDone
    <2>3. FlushInv'
      BY <1>20 DEF FlushDone
    <2> QED  BY <2>1, <2>2, <2>3
  <1>21. ASSUME NEW l \in Links, AddTcpLink(l) PROVE TableInv'
    <2>1. LinkInv'
      BY <1>21 DEF AddTcpLink
    <2>2. CallInv'
      BY <1>21 DEF AddTcpLink
    <2>3. FlushInv'
      BY <1>21 DEF AddTcpLink
    <2> QED  BY <2>1, <2>2, <2>3
  <1>22. ASSUME NEW l \in Links, Drain(l) PROVE TableInv'
    <2>1. LinkInv'
      BY <1>22 DEF Drain
    <2>2. CallInv'
      BY <1>22 DEF Drain
    <2>3. FlushInv'
      BY <1>22 DEF Drain
    <2> QED  BY <2>1, <2>2, <2>3
  <1>23. ASSUME NEW l \in Links, Arrives(l) PROVE TableInv'
    <2>1. LinkInv'
      BY <1>23 DEF Arrives
    <2>2. CallInv'
      BY <1>23 DEF Arrives
    <2>3. FlushInv'
      BY <1>23 DEF Arrives
    <2> QED  BY <2>1, <2>2, <2>3
  <1>24. ASSUME NEW l \in Links, PeerCloses(l) PROVE TableInv'
    <2>1. LinkInv'
      BY <1>24 DEF PeerCloses
    <2>2. CallInv'
      BY <1>24 DEF PeerCloses
    <2>3. FlushInv'
      BY <1>24 DEF PeerCloses
    <2> QED  BY <2>1, <2>2, <2>3
  <1>25. ASSUME UNCHANGED vars PROVE TableInv'
    <2>1. LinkInv'
      BY <1>25 DEF vars
    <2>2. CallInv'
      BY <1>25 DEF vars
    <2>3. FlushInv'
      BY <1>25 DEF vars
    <2> QED  BY <2>1, <2>2, <2>3
  <1> QED
    BY <1>1, <1>2, <1>3, <1>4, <1>5, <1>6, <1>7, <1>8, <1>9, <1>10, <1>11, <1>11a, <1>12,
       <1>13, <1>14, <1>15, <1>16, <1>17, <1>18, <1>19, <1>20, <1>21, <1>22, <1>23, <1>24,
       <1>25
       DEF Next, InCall, LinkDestroy, WorkerStep, Flush, Environment, Threads

-----------------------------------------------------------------------------
(* The flag protocol.                                                      *)

LEMMA FlagInit == Init => NoLostSend
  BY DEF Init, NoLostSend

(* NoLostSend is inductive relative to TableInv.  The steps that matter:   *)
(* the worker takes the flag down and at once owes every link a visit; the *)
(* visits are those of the links in the table, which the lock freezes; a   *)
(* visit that leaves data behind puts the flag up; a push is followed by   *)
(* SendFlag; a link enters the table empty.                                *)
LEMMA FlagStep == TypeInv /\ TableInv /\ NoLostSend /\ [Next]_vars => NoLostSend'
  <1> SUFFICES ASSUME TypeInv, TableInv, NoLostSend, [Next]_vars PROVE NoLostSend'
    OBVIOUS
  <1> USE NameAssumption DEF TypeInv, TypeOK, ArgInv, Busy, TableInv, LinkInv, CallInv,
                             FlushInv, TableFree, Goto, Enter,
                             NoLostSend, AboutToFlag, FlushWillVisit
  <1>1. ASSUME NEW t \in App, NEW l \in Links, SendFind(t, l) PROVE NoLostSend'
    BY <1>1 DEF SendFind
  <1>2. ASSUME NEW t \in App, NEW l \in Links, DestroyFind(t, l) PROVE NoLostSend'
    BY <1>2 DEF DestroyFind
  <1>3. ASSUME NEW t \in App, SendWrite(t) PROVE NoLostSend'
    <2>1. /\ \A u \in App : pc[u] = "flag" => pc'[u] = "flag" /\ arg'[u] = arg[u]
          /\ pc[Worker] = "lock" => pc'[Worker] = "lock"
      <3>1. CASE Enter(t, "idle", None)
        BY <1>3, <3>1 DEF SendWrite
      <3>2. CASE Goto(t, "push") /\ UNCHANGED arg
        BY <1>3, <3>2 DEF SendWrite
      <3> QED
        BY <1>3, <3>1, <3>2 DEF SendWrite
    <2> QED
      BY <1>3, <2>1 DEF SendWrite
  <1>4. ASSUME NEW t \in App, SendError(t) PROVE NoLostSend'
    BY <1>4 DEF SendError
  <1>5. ASSUME NEW t \in App, SendPush(t) PROVE NoLostSend'
    BY <1>5 DEF SendPush
  <1>6. ASSUME NEW t \in App, SendFlag(t) PROVE NoLostSend'
    BY <1>6 DEF SendFlag
  <1>7. ASSUME NEW t \in Threads, DelSendBuff(t) PROVE NoLostSend'
    BY <1>7 DEF DelSendBuff
  <1>8. ASSUME NEW t \in Threads, DelLink(t) PROVE NoLostSend'
    <2>1. /\ \A u \in App : pc[u] = "flag" => pc'[u] = "flag" /\ arg'[u] = arg[u]
          /\ pc[Worker] = "lock" => pc'[Worker] = "lock"
      <3>1. CASE Goto(t, "destSock") /\ UNCHANGED arg
        BY <1>8, <3>1 DEF DelLink
      <3>2. CASE Enter(t, "batch", None)
        BY <1>8, <3>2 DEF DelLink
      <3> QED
        BY <1>8, <3>1, <3>2 DEF DelLink
    <2> QED
      BY <1>8, <2>1 DEF DelLink
  <1>9. ASSUME NEW t \in Threads, DestroySocket(t) PROVE NoLostSend'
    BY <1>9 DEF DestroySocket
  <1>10. ASSUME EpollWait PROVE NoLostSend'
    BY <1>10 DEF EpollWait
  <1>11. ASSUME BatchDone PROVE NoLostSend'
    BY <1>11 DEF BatchDone
  <1>11a. ASSUME Interrupted PROVE NoLostSend'
    BY <1>11a DEF Interrupted
  <1>12. ASSUME NEW l \in Links, HandleEvent(l) PROVE NoLostSend'
    <2>1. /\ \A u \in App : pc[u] = "flag" => pc'[u] = "flag" /\ arg'[u] = arg[u]
          /\ pc[Worker] = "lock" => pc'[Worker] = "lock"
      <3>1. CASE UNCHANGED <<pc, arg>>
        BY <1>12, <3>1 DEF HandleEvent
      <3>2. CASE \E label \in {"discBuf", "destBuf"} : Enter(Worker, label, l)
        BY <1>12, <3>2 DEF HandleEvent
      <3> QED
        BY <1>12, <3>1, <3>2 DEF HandleEvent
    <2> QED
      BY <1>12, <2>1 DEF HandleEvent
  <1>13. ASSUME FlushCheck PROVE NoLostSend'
    BY <1>13 DEF FlushCheck
  <1>14. ASSUME FlushClear PROVE NoLostSend'
    BY <1>14 DEF FlushClear
  <1>15. ASSUME FlushLock PROVE NoLostSend'
    BY <1>15 DEF FlushLock
  <1>16. ASSUME NEW l \in Links, FlushVisit(l) PROVE NoLostSend'
    BY <1>16 DEF FlushVisit
  <1>17. ASSUME FlushWrite PROVE NoLostSend'
    BY <1>17 DEF FlushWrite
  <1>18. ASSUME FlushSpin PROVE NoLostSend'
    BY <1>18 DEF FlushSpin
  <1>19. ASSUME FlushLeave PROVE NoLostSend'
    BY <1>19 DEF FlagAfter, FlushLeave
  <1>20. ASSUME FlushDone PROVE NoLostSend'
    BY <1>20 DEF FlushDone
  <1>21. ASSUME NEW l \in Links, AddTcpLink(l) PROVE NoLostSend'
    BY <1>21 DEF AddTcpLink
  <1>22. ASSUME NEW l \in Links, Drain(l) PROVE NoLostSend'
    BY <1>22 DEF Drain
  <1>23. ASSUME NEW l \in Links, Arrives(l) PROVE NoLostSend'
    BY <1>23 DEF Arrives
  <1>24. ASSUME NEW l \in Links, PeerCloses(l) PROVE NoLostSend'
    BY <1>24 DEF PeerCloses
  <1>25. ASSUME UNCHANGED vars PROVE NoLostSend'
    BY <1>25 DEF vars
  <1> QED
    BY <1>1, <1>2, <1>3, <1>4, <1>5, <1>6, <1>7, <1>8, <1>9, <1>10, <1>11, <1>11a, <1>12,
       <1>13, <1>14, <1>15, <1>16, <1>17, <1>18, <1>19, <1>20, <1>21, <1>22, <1>23, <1>24,
       <1>25
       DEF Next, InCall, LinkDestroy, WorkerStep, Flush, Environment, Threads

LEMMA Inductive == Spec => []IInv
  <1>1. Init => IInv
    BY TypeInit, TableInit, FlagInit DEF IInv
  <1>2. IInv /\ [Next]_vars => IInv'
    BY TypeStep, TableStep, FlagStep DEF IInv
  <1> QED
    BY <1>1, <1>2, PTL DEF Spec

(* No data of a link in the table is forgotten, for any number of links,   *)
(* threads, messages and bytes: the flag is up, or about to be raised by a *)
(* sender, or the flush under way will still come to the link.             *)
THEOREM FlagNeverLosesData == Spec => []NoLostSend
  <1>1. IInv => NoLostSend
    BY DEF IInv
  <1> QED
    BY Inductive, <1>1, PTL

(* do_send_buff never writes to a socket that link_destroy has given up.   *)
THEOREM FlushIsSafe == Spec => []FlushWritesOpenSocket
  <1>1. IInv => FlushWritesOpenSocket
    BY DEF IInv, TypeInv, TypeOK, TableInv, LinkInv, FlushInv, FlushWritesOpenSocket
  <1> QED
    BY Inductive, <1>1, PTL

-----------------------------------------------------------------------------
(* The stream of a link.  Where the bytes of a message are can be said     *)
(* without counting: those of an unsent chunk are all the wire lacks.      *)

(* The bytes of a stream; each message's in order; messages in order.      *)
BytesIn(w) == {w[i] : i \in DOMAIN w}
Rises(w) == \A i, j \in DOMAIN w : i < j /\ w[i][1] = w[j][1] => w[i][2] < w[j][2]
Sorted(w) == \A i, j \in DOMAIN w : i < j => w[i][1] <= w[j][1]

(* The wire w, and the first n bytes of chunk c written to it.             *)
Written(w, c, n) == w \o [i \in 1..n |-> <<c.msg, c.from + i - 1>>]
(* These bytes.                                                            *)
BytesOf(c, n) == {<<c.msg, p>> : p \in c.from .. c.from + n - 1}

(* Sender t has a chunk in its hands.                                      *)
Holds(t) == pc[t] = "push"

(* What is on the wire, on a list or in a sender's hands is of a message   *)
(* begun on that link, and a message is begun on a published link.         *)
HomeInv ==
    /\ \A l \in Links : \A b \in BytesIn(wire[l]) :
          b[1] \in DOMAIN log /\ log[b[1]] = l /\ b[2] \in 1..MsgSize
    /\ \A l \in Links : \A i \in DOMAIN m_send_buff_list[l] :
          LET m == m_send_buff_list[l][i].msg IN m \in DOMAIN log /\ log[m] = l
    /\ \A t \in App : Holds(t) =>
          rest[t].msg \in DOMAIN log /\ log[rest[t].msg] = arg[t]
    /\ \A m \in DOMAIN log : mi_socket[log[m]] # "new"

(* A message has one chunk at most.                                        *)
OneInv ==
    /\ \A l \in Links : \A i, j \in DOMAIN m_send_buff_list[l] :
          m_send_buff_list[l][i].msg = m_send_buff_list[l][j].msg => i = j
    /\ \A t, u \in App : Holds(t) /\ Holds(u) /\ rest[t].msg = rest[u].msg => t = u
    /\ \A t \in App, l \in Links : \A i \in DOMAIN m_send_buff_list[l] :
          Holds(t) => m_send_buff_list[l][i].msg # rest[t].msg

(* The bytes before a chunk are on the wire, its own are not.              *)
Split(c, w) == \A p \in 1..MsgSize : <<c.msg, p>> \in BytesIn(w) <=> p < c.from
SplitInv ==
    /\ \A l \in Links : \A i \in DOMAIN m_send_buff_list[l] :
          Split(m_send_buff_list[l][i], wire[l])
    /\ \A t \in App : Holds(t) => Split(rest[t], wire[arg[t]])
    /\ \A l \in Links : Rises(wire[l])

(* A message of a link not dropped has a chunk or is all on the wire.      *)
KeptInv ==
    \A m \in DOMAIN log :
        \/ \E i \in DOMAIN m_send_buff_list[log[m]] : m_send_buff_list[log[m]][i].msg = m
        \/ \E t \in App : Holds(t) /\ rest[t].msg = m
        \/ \A p \in 1..MsgSize : <<m, p>> \in BytesIn(wire[log[m]])
        \/ Dropped(log[m])

(* Unless a send overtook an earlier one, wire, list and hands are in the  *)
(* order of the sends, and in this order.                                  *)
OrderInv ==
    \A l \in Links \ overtaken :
        /\ Sorted(wire[l])
        /\ \A i, j \in DOMAIN m_send_buff_list[l] :
              i < j => m_send_buff_list[l][i].msg <= m_send_buff_list[l][j].msg
        /\ \A b \in BytesIn(wire[l]), i \in DOMAIN m_send_buff_list[l] :
              b[1] <= m_send_buff_list[l][i].msg
        /\ \A t \in App : Holds(t) /\ arg[t] = l =>
              /\ \A b \in BytesIn(wire[l]) : b[1] <= rest[t].msg
              /\ \A i \in DOMAIN m_send_buff_list[l] : m_send_buff_list[l][i].msg <= rest[t].msg

StreamInv == HomeInv /\ OneInv /\ SplitInv /\ KeptInv /\ OrderInv

(* The lemmas on sequences: a write, a list one write shorter, one longer. *)
LEMMA WireExtends ==
    ASSUME NEW w \in Seq(Nat \X Nat), NEW c \in Chunk, NEW n \in Nat
    PROVE  LET v == Written(w, c, n) IN
           /\ \A i \in DOMAIN w : i \in DOMAIN v /\ v[i] = w[i]
           /\ \A i \in DOMAIN v \ DOMAIN w :
                 /\ v[i] = <<c.msg, c.from + (i - Len(w)) - 1>>
                 /\ i \in Nat /\ i - Len(w) \in 1..n
           /\ \A i \in 1..n : Len(w) + i \in DOMAIN v \ DOMAIN w
           /\ Len(w) \in Nat /\ DOMAIN w = 1..Len(w)
  <1> DEFINE new == [i \in 1..n |-> <<c.msg, c.from + i - 1>>]
             v == Written(w, c, n)
  <1>1. new \in Seq(Nat \X Nat)
    <2>1. \A i \in 1..n : <<c.msg, c.from + i - 1>> \in Nat \X Nat
      BY SizeAssumption DEF Chunk
    <2> QED
      BY <2>1, IsASeq
  <1>2. DOMAIN new = 1..n /\ \A i \in 1..n : new[i] = <<c.msg, c.from + i - 1>>
    OBVIOUS
  <1>3. Len(new) = n
    BY <1>1, <1>2, LenProperties
  <1> HIDE DEF new
  <1>4. Len(w) \in Nat /\ DOMAIN w = 1..Len(w)
    BY LenProperties
  <1>5. /\ v \in Seq(Nat \X Nat) /\ Len(v) = Len(w) + n
        /\ \A i \in 1..Len(w) + n : v[i] = IF i <= Len(w) THEN w[i] ELSE new[i - Len(w)]
    <2>1. v = w \o new
      BY DEF new, Written
    <2>2. /\ w \o new \in Seq(Nat \X Nat) /\ Len(w \o new) = Len(w) + Len(new)
          /\ \A i \in 1..Len(w) + Len(new) :
                (w \o new)[i] = IF i <= Len(w) THEN w[i] ELSE new[i - Len(w)]
      BY <1>1, ConcatProperties
    <2> QED
      BY <1>3, <2>1, <2>2
  <1> HIDE DEF v
  <1>6. DOMAIN v = 1..Len(w) + n
    BY <1>5, LenProperties
  <1>7. ASSUME NEW i \in DOMAIN w PROVE i \in DOMAIN v /\ v[i] = w[i]
    <2>1. i \in 1..Len(w) + n /\ i <= Len(w)
      BY <1>4
    <2> QED
      BY <1>5, <1>6, <2>1
  <1>8. ASSUME NEW i \in DOMAIN v \ DOMAIN w
        PROVE  /\ v[i] = <<c.msg, c.from + (i - Len(w)) - 1>>
               /\ i \in Nat /\ i - Len(w) \in 1..n
    <2>1. i \in Nat /\ i - Len(w) \in 1..n /\ ~(i <= Len(w)) /\ i \in 1..Len(w) + n
      BY <1>4, <1>6
    <2>2. v[i] = new[i - Len(w)]
      BY <1>5, <2>1
    <2> QED
      BY <1>2, <2>1, <2>2
  <1>9. ASSUME NEW i \in 1..n PROVE Len(w) + i \in DOMAIN v \ DOMAIN w
    BY <1>4, <1>6
  <1> QED
    BY <1>4, <1>7, <1>8, <1>9 DEF v

LEMMA WrittenBytes ==
    ASSUME NEW w \in Seq(Nat \X Nat), NEW c \in Chunk, NEW n \in Nat
    PROVE  LET v == Written(w, c, n) IN
           /\ BytesIn(v) = BytesIn(w) \cup BytesOf(c, n)
           /\ (\A b \in BytesIn(w) : b[1] = c.msg => b[2] < c.from) /\ Rises(w) => Rises(v)
           /\ (\A b \in BytesIn(w) : b[1] <= c.msg) /\ Sorted(w) => Sorted(v)
  <1> DEFINE v == Written(w, c, n)
  <1>1. c.msg \in Nat /\ c.from \in Nat
    BY SizeAssumption DEF Chunk
  <1>2. /\ \A i \in DOMAIN w : i \in DOMAIN v /\ v[i] = w[i]
        /\ \A i \in DOMAIN v \ DOMAIN w :
              /\ v[i] = <<c.msg, c.from + (i - Len(w)) - 1>>
              /\ i \in Nat /\ i - Len(w) \in 1..n
        /\ \A i \in 1..n : Len(w) + i \in DOMAIN v \ DOMAIN w
        /\ Len(w) \in Nat /\ DOMAIN w = 1..Len(w)
    BY WireExtends
  <1> HIDE DEF v
  <1>3. \A i \in DOMAIN w : w[i] \in Nat \X Nat
    BY <1>2, ElementOfSeq
  <1>4. \A i \in DOMAIN v \ DOMAIN w : v[i][1] = c.msg /\ v[i][2] = c.from + (i - Len(w)) - 1
    BY <1>2
  <1>5. BytesIn(v) = BytesIn(w) \cup BytesOf(c, n)
    <2> DEFINE new == BytesOf(c, n)
    <2>1. ASSUME NEW i \in DOMAIN v PROVE v[i] \in BytesIn(w) \cup new
      <3>1. CASE i \in DOMAIN w
        BY <1>2, <3>1 DEF BytesIn
      <3>2. CASE i \notin DOMAIN w
        <4>1. /\ v[i] = <<c.msg, c.from + (i - Len(w)) - 1>>
              /\ i - Len(w) \in 1..n
          BY <1>2, <3>2
        <4>2. c.from + (i - Len(w)) - 1 \in c.from .. c.from + n - 1
          BY <1>1, <4>1
        <4> QED
          BY <4>1, <4>2 DEF BytesOf
      <3> QED
        BY <3>1, <3>2
    <2>2. ASSUME NEW p \in c.from .. c.from + n - 1 PROVE <<c.msg, p>> \in BytesIn(v)
      <3> DEFINE i == p - c.from + 1
      <3>1. i \in 1..n /\ c.from + i - 1 = p
        BY <1>1
      <3>2. Len(w) + i \in DOMAIN v \ DOMAIN w
        BY <1>2, <3>1
      <3>3. v[Len(w) + i] = <<c.msg, c.from + ((Len(w) + i) - Len(w)) - 1>>
        BY <1>2, <3>2
      <3>4. c.from + ((Len(w) + i) - Len(w)) - 1 = p
        BY <1>1, <1>2, <3>1
      <3>5. v[Len(w) + i] = <<c.msg, p>>
        BY <3>3, <3>4
      <3> QED
        BY <3>2, <3>5 DEF BytesIn
    <2>3. BytesIn(w) \subseteq BytesIn(v)
      <3> SUFFICES ASSUME NEW i \in DOMAIN w PROVE w[i] \in BytesIn(v)
        BY DEF BytesIn
      <3>1. i \in DOMAIN v /\ w[i] = v[i]
        BY <1>2
      <3> QED
        BY <3>1 DEF BytesIn
    <2>4. BytesIn(v) \subseteq BytesIn(w) \cup new
      BY <2>1 DEF BytesIn
    <2> QED
      BY <2>2, <2>3, <2>4 DEF BytesOf
  <1>6. ASSUME \A b \in BytesIn(w) : b[1] = c.msg => b[2] < c.from, Rises(w)
        PROVE  Rises(v)
    <2> SUFFICES ASSUME NEW i \in DOMAIN v, NEW j \in DOMAIN v, i < j, v[i][1] = v[j][1]
                 PROVE  v[i][2] < v[j][2]
      BY DEF Rises
    <2>1. CASE j \in DOMAIN w /\ i \in DOMAIN w
      <3>1. v[i] = w[i] /\ v[j] = w[j]
        BY <1>2, <2>1
      <3> QED
        BY <2>1, <3>1, <1>6 DEF Rises
    <2>2. CASE j \in DOMAIN w /\ i \notin DOMAIN w
      BY <1>2, <2>2
    <2>3. CASE j \notin DOMAIN w /\ i \in DOMAIN w
      <3>1. v[j][1] = c.msg /\ v[j][2] = c.from + (j - Len(w)) - 1 /\ j - Len(w) \in 1..n
        BY <1>2, <1>4, <2>3
      <3>2. v[i] = w[i] /\ v[i] \in BytesIn(w) /\ v[i] \in Nat \X Nat
        BY <1>2, <1>3, <2>3 DEF BytesIn
      <3>3. v[i][2] < c.from /\ v[i][2] \in Nat
        BY <1>6, <3>1, <3>2
      <3>4. PICK e \in 1..n : e = j - Len(w)
        BY <3>1
      <3>5. v[j][2] = c.from + e - 1
        BY <3>1, <3>4
      <3>6. \A x \in Nat : x < c.from => x < c.from + e - 1
        BY <1>1
      <3> QED
        BY <3>3, <3>5, <3>6
    <2>4. CASE j \notin DOMAIN w /\ i \notin DOMAIN w
      <3>1. /\ v[i][2] = c.from + (i - Len(w)) - 1 /\ i \in Nat
            /\ v[j][2] = c.from + (j - Len(w)) - 1 /\ j \in Nat
        BY <1>2, <1>4, <2>4
      <3>2. \A x, y, z, f \in Nat : x < y => f + (x - z) - 1 < f + (y - z) - 1
        OBVIOUS
      <3>3. c.from + (i - Len(w)) - 1 < c.from + (j - Len(w)) - 1
        BY <1>1, <1>2, <3>1, <3>2
      <3> QED
        BY <3>1, <3>3
    <2> QED
      BY <2>1, <2>2, <2>3, <2>4
  <1>7. ASSUME \A b \in BytesIn(w) : b[1] <= c.msg, Sorted(w)
        PROVE  Sorted(v)
    <2> SUFFICES ASSUME NEW i \in DOMAIN v, NEW j \in DOMAIN v, i < j
                 PROVE  v[i][1] <= v[j][1]
      BY DEF Sorted
    <2>1. CASE j \in DOMAIN w /\ i \in DOMAIN w
      <3>1. v[i] = w[i] /\ v[j] = w[j]
        BY <1>2, <2>1
      <3> QED
        BY <2>1, <3>1, <1>7 DEF Sorted
    <2>2. CASE j \in DOMAIN w /\ i \notin DOMAIN w
      BY <1>2, <2>2
    <2>3. CASE j \notin DOMAIN w /\ i \in DOMAIN w
      <3>1. v[i] = w[i] /\ v[i] \in BytesIn(w)
        BY <1>2, <2>3 DEF BytesIn
      <3> QED
        BY <1>4, <1>7, <2>3, <3>1
    <2>4. CASE j \notin DOMAIN w /\ i \notin DOMAIN w
      <3>1. v[i][1] = c.msg /\ v[j][1] = c.msg
        BY <1>4, <2>4
      <3> QED
        BY <1>1, <3>1
    <2> QED
      BY <2>1, <2>2, <2>3, <2>4
  <1> QED
    BY <1>5, <1>6, <1>7 DEF v

LEMMA Shortened ==
    ASSUME NEW list \in Seq(Chunk), list # <<>>, NEW n \in Nat
    PROVE  LET x == ListAfter(list, n)
           IN  \E d \in {0, 1} :
                 /\ d = 1 <=> Head(list).from + n > MsgSize
                 /\ \A i \in DOMAIN x :
                       /\ i + d \in DOMAIN list
                       /\ x[i] = IF i + d = 1 THEN After(Head(list), n) ELSE list[i + d]
                 /\ \A i \in DOMAIN list : i # 1 \/ d = 0 => i - d \in DOMAIN x
                 /\ DOMAIN x \subseteq Nat /\ DOMAIN list = 1..Len(list) /\ 1 \in DOMAIN list
                 /\ Head(list) = list[1] /\ Head(list) \in Chunk
  <1> DEFINE x == ListAfter(list, n)
  <1>1. /\ Head(list) = list[1] /\ Head(list) \in Chunk /\ Tail(list) \in Seq(Chunk)
        /\ Len(list) \in Nat \ {0} /\ DOMAIN list = 1..Len(list)
        /\ Len(Tail(list)) = Len(list) - 1
        /\ \A i \in 1..Len(Tail(list)) : Tail(list)[i] = list[i + 1]
    BY HeadTailProperties, LenProperties, EmptySeq
  <1>2. DOMAIN Tail(list) = 1..Len(list) - 1
    BY <1>1, LenProperties
  <1>3. 1 \in DOMAIN list
    BY <1>1
  <1>4. CASE Head(list).from + n > MsgSize
    <2>1. x = Tail(list)
      BY <1>4 DEF ListAfter
    <2> HIDE DEF x
    <2>2. \A i \in DOMAIN x : i \in Nat /\ i + 1 \in DOMAIN list /\ i + 1 # 1 /\ x[i] = list[i + 1]
      BY <1>1, <1>2, <2>1
    <2>3. \A i \in DOMAIN list : i # 1 => i - 1 \in DOMAIN x
      BY <1>1, <1>2, <2>1
    <2> SUFFICES /\ 1 = 1 <=> Head(list).from + n > MsgSize
                 /\ \A i \in DOMAIN x :
                       /\ i + 1 \in DOMAIN list
                       /\ x[i] = IF i + 1 = 1 THEN After(Head(list), n) ELSE list[i + 1]
                 /\ \A i \in DOMAIN list : i # 1 \/ 1 = 0 => i - 1 \in DOMAIN x
                 /\ DOMAIN x \subseteq Nat
      BY <1>1, <1>3 DEF x
    <2> QED
      BY <1>4, <2>2, <2>3
  <1>5. CASE ~(Head(list).from + n > MsgSize)
    <2> DEFINE a == After(Head(list), n)
    <2>1. x = <<a>> \o Tail(list)
      BY <1>5 DEF ListAfter
    <2>2. a \in Chunk
      BY <1>1, <1>5, SizeAssumption DEF After, Chunk
    <2> HIDE DEF x, a
    <2>3. <<a>> \in Seq(Chunk) /\ Len(<<a>>) = 1 /\ <<a>>[1] = a
      BY <2>2
    <2>4. /\ x \in Seq(Chunk) /\ Len(x) = Len(list)
          /\ \A i \in 1..Len(list) : x[i] = IF i <= 1 THEN a ELSE Tail(list)[i - 1]
      <3>1. /\ <<a>> \o Tail(list) \in Seq(Chunk)
            /\ Len(<<a>> \o Tail(list)) = Len(<<a>>) + Len(Tail(list))
            /\ \A i \in 1..Len(<<a>>) + Len(Tail(list)) :
                  (<<a>> \o Tail(list))[i] = IF i <= Len(<<a>>) THEN <<a>>[i]
                                             ELSE Tail(list)[i - Len(<<a>>)]
        BY <1>1, <2>3, ConcatProperties
      <3>2. Len(<<a>>) + Len(Tail(list)) = Len(list)
        BY <1>1, <2>3
      <3>3. \A i \in 1..Len(list) : i <= 1 => i = 1
        BY <1>1
      <3> QED
        BY <2>1, <2>3, <3>1, <3>2, <3>3
    <2>5. DOMAIN x = DOMAIN list
      BY <1>1, <2>4, LenProperties
    <2>6. ASSUME NEW i \in DOMAIN list, i # 1 PROVE x[i] = list[i]
      <3>1. i - 1 \in 1..Len(Tail(list)) /\ ~(i <= 1) /\ i \in 1..Len(list) /\ (i - 1) + 1 = i
        BY <1>1, <2>6
      <3> QED
        BY <1>1, <2>4, <3>1
    <2>7. x[1] = a
      BY <1>1, <1>3, <2>4
    <2>8. \A i \in DOMAIN list : i + 0 = i /\ i - 0 = i /\ i \in Nat
      BY <1>1
    <2> SUFFICES /\ 0 = 1 <=> Head(list).from + n > MsgSize
                 /\ \A i \in DOMAIN x :
                       /\ i + 0 \in DOMAIN list
                       /\ x[i] = IF i + 0 = 1 THEN After(Head(list), n) ELSE list[i + 0]
                 /\ \A i \in DOMAIN list : i # 1 \/ 0 = 0 => i - 0 \in DOMAIN x
                 /\ DOMAIN x \subseteq Nat
      BY <1>1, <1>3 DEF x
    <2> QED
      BY <1>5, <2>5, <2>6, <2>7, <2>8 DEF a
  <1> QED
    BY <1>4, <1>5

LEMMA Lengthened ==
    ASSUME NEW list \in Seq(Chunk), NEW c \in Chunk, NEW x, x = Append(list, c)
    PROVE  /\ DOMAIN x = DOMAIN list \cup {Len(list) + 1} /\ DOMAIN list \subseteq Nat
           /\ \A i \in DOMAIN list : x[i] = list[i] /\ i < Len(list) + 1
           /\ x[Len(list) + 1] = c
  <1>1. /\ x \in Seq(Chunk) /\ Len(x) = Len(list) + 1
        /\ \A i \in 1..Len(list) : x[i] = list[i]
        /\ x[Len(list) + 1] = c
    BY AppendProperties
  <1>2. Len(list) \in Nat /\ DOMAIN list = 1..Len(list) /\ DOMAIN x = 1..Len(list) + 1
    BY <1>1, LenProperties
  <1> QED
    BY <1>1, <1>2

LEMMA StreamInit == Init => StreamInv
  <1> SUFFICES ASSUME Init PROVE StreamInv
    OBVIOUS
  <1>1. DOMAIN log = {} /\ \A l \in Links : wire[l] = <<>> /\ m_send_buff_list[l] = <<>>
    BY DEF Init
  <1>2. \A t \in App : ~Holds(t)
    BY NameAssumption DEF Init, Holds
  <1>3. \A l \in Links : DOMAIN wire[l] = {} /\ DOMAIN m_send_buff_list[l] = {}
    BY <1>1
  <1> QED
    BY <1>1, <1>2, <1>3 DEF StreamInv, HomeInv, OneInv, SplitInv, KeptInv, OrderInv,
                            BytesIn, Rises, Sorted

(* A chunk as a record.                                                    *)
LEMMA ChunkIs == ASSUME NEW c \in Chunk PROVE c = [msg |-> c.msg, from |-> c.from]
  BY DEF Chunk

(* What the invariant says of one message.                                 *)
LEMMA OneChunk ==
    ASSUME TypeInv, StreamInv, NEW m \in DOMAIN log,
           NEW c \in Chunk, c.msg = m, Split(c, wire[log[m]]),
           NEW y, y \in ChunksOf(m, log[m]), \A z \in ChunksOf(m, log[m]) : z = y,
           NEW p \in {"list", "hand"}, NEW x \in App \cup DOMAIN m_send_buff_list[log[m]],
           y = <<p, x, c>>
    PROVE  LET l == log[m]
           IN  \E k \in 0..MsgSize :
                 /\ {wire[l][i][2] : i \in OnWire(m, l)} = 1..k
                 /\ k = MsgSize => ChunksOf(m, l) = {}
                 /\ k < MsgSize =>
                       \E q \in {"list", "hand"}, z \in App \cup DOMAIN m_send_buff_list[l] :
                          ChunksOf(m, l) = {<<q, z, [msg |-> m, from |-> k + 1]>>}
  <1> DEFINE l == log[m]
             k == c.from - 1
  <1>1. l \in Links /\ m \in Nat
    BY ElementOfSeq, LenProperties DEF TypeInv, TypeOK
  <1>2. c.from \in 1..MsgSize /\ k \in 0..MsgSize /\ k < MsgSize /\ k # MsgSize /\ k + 1 = c.from
    BY SizeAssumption DEF Chunk
  <1>3. {wire[l][i][2] : i \in OnWire(m, l)} = 1..k
    <2>1. ASSUME NEW i \in OnWire(m, l) PROVE wire[l][i][2] \in 1..k
      <3>1. wire[l][i] \in BytesIn(wire[l]) /\ wire[l][i][1] = m /\ wire[l][i] \in Nat \X Nat
        BY <1>1, LenProperties, ElementOfSeq DEF OnWire, BytesIn, TypeInv, TypeOK
      <3>2. wire[l][i] = <<m, wire[l][i][2]>> /\ wire[l][i][2] \in 1..MsgSize
        BY <1>1, <3>1 DEF StreamInv, HomeInv
      <3>3. wire[l][i][2] < c.from
        BY <3>1, <3>2 DEF Split
      <3> QED
        BY <1>2, <3>2, <3>3
    <2>2. ASSUME NEW n \in 1..k PROVE \E i \in OnWire(m, l) : wire[l][i][2] = n
      <3>1. n \in 1..MsgSize /\ n < c.from
        BY <1>2, SizeAssumption
      <3>2. <<m, n>> \in BytesIn(wire[l])
        BY <3>1 DEF Split
      <3>3. PICK i \in DOMAIN wire[l] : wire[l][i] = <<m, n>>
        BY <3>2 DEF BytesIn
      <3> QED
        BY <3>3 DEF OnWire
    <2> QED
      BY <2>1, <2>2
  <1>4. ChunksOf(m, l) = {<<p, x, [msg |-> m, from |-> k + 1]>>}
    <2>1. c = [msg |-> m, from |-> k + 1]
      BY <1>2, ChunkIs
    <2> QED
      BY <2>1
  <1> HIDE DEF k
  <1> QED
    BY <1>2, <1>3, <1>4

LEMMA StreamFollows == ASSUME TypeInv, StreamInv PROVE StreamIsIntact
  <1>1. EveryByteOnce
    <2> SUFFICES ASSUME NEW m \in DOMAIN log, ~Dropped(log[m])
                 PROVE  LET l == log[m]
                        IN  /\ \A i, j \in OnWire(m, l) : i < j => wire[l][i][2] < wire[l][j][2]
                            /\ \E k \in 0..MsgSize :
                                 /\ {wire[l][i][2] : i \in OnWire(m, l)} = 1..k
                                 /\ k = MsgSize => ChunksOf(m, l) = {}
                                 /\ k < MsgSize =>
                                      \E p \in {"list", "hand"},
                                         x \in App \cup DOMAIN m_send_buff_list[l] :
                                           ChunksOf(m, l) = {<<p, x, [msg |-> m, from |-> k + 1]>>}
      BY DEF EveryByteOnce
    <2> DEFINE l == log[m]
    <2>1. l \in Links
      BY ElementOfSeq, LenProperties DEF TypeInv, TypeOK
    <2>2. \A i, j \in OnWire(m, l) : i < j => wire[l][i][2] < wire[l][j][2]
      BY <2>1 DEF StreamInv, SplitInv, Rises, OnWire
    <2>3. \A z \in ChunksOf(m, l) :
             \/ \E i \in DOMAIN m_send_buff_list[l] :
                   m_send_buff_list[l][i].msg = m /\ z = <<"list", i, m_send_buff_list[l][i]>>
             \/ \E t \in App : Holds(t) /\ rest[t].msg = m /\ z = <<"hand", t, rest[t]>>
      BY DEF ChunksOf, Holds
    <2>4. \A i \in DOMAIN m_send_buff_list[l] :
             m_send_buff_list[l][i] \in Chunk /\ Split(m_send_buff_list[l][i], wire[l])
      BY <2>1, LenProperties, ElementOfSeq DEF TypeInv, TypeOK, StreamInv, SplitInv
    <2>5. \A t \in App : Holds(t) /\ rest[t].msg = m =>
             rest[t] \in Chunk /\ Split(rest[t], wire[l])
      BY DEF TypeInv, ArgInv, Holds, StreamInv, SplitInv, HomeInv
    <2>6. CASE \E i \in DOMAIN m_send_buff_list[l] : m_send_buff_list[l][i].msg = m
      <3>1. PICK i \in DOMAIN m_send_buff_list[l] : m_send_buff_list[l][i].msg = m
        BY <2>6
      <3> DEFINE y == <<"list", i, m_send_buff_list[l][i]>>
      <3>2. y \in ChunksOf(m, l)
        BY <3>1 DEF ChunksOf
      <3>3. \A j \in DOMAIN m_send_buff_list[l] : m_send_buff_list[l][j].msg = m => j = i
        BY <2>1, <3>1 DEF StreamInv, OneInv
      <3>4. \A t \in App : Holds(t) => rest[t].msg # m
        BY <2>1, <3>1 DEF StreamInv, OneInv
      <3>5. \A z \in ChunksOf(m, l) : z = y
        BY <2>3, <3>3, <3>4
      <3> HIDE DEF l
      <3> QED
        BY <2>2, <2>4, <3>1, <3>2, <3>5, OneChunk DEF l
    <2>7. CASE \E t \in App : Holds(t) /\ rest[t].msg = m
      <3>1. PICK t \in App : Holds(t) /\ rest[t].msg = m
        BY <2>7
      <3> DEFINE y == <<"hand", t, rest[t]>>
      <3>2. y \in ChunksOf(m, l)
        BY <3>1 DEF ChunksOf, Holds
      <3>3. \A u \in App : Holds(u) /\ rest[u].msg = m => u = t
        BY <3>1 DEF StreamInv, OneInv
      <3>4. \A j \in DOMAIN m_send_buff_list[l] : m_send_buff_list[l][j].msg # m
        BY <2>1, <3>1 DEF StreamInv, OneInv
      <3>5. \A z \in ChunksOf(m, l) : z = y
        BY <2>3, <3>3, <3>4
      <3> HIDE DEF l
      <3> QED
        BY <2>2, <2>5, <3>1, <3>2, <3>5, OneChunk DEF l
    <2>8. CASE ~(\E i \in DOMAIN m_send_buff_list[l] : m_send_buff_list[l][i].msg = m)
               /\ ~(\E t \in App : Holds(t) /\ rest[t].msg = m)
      <3>1. ChunksOf(m, l) = {}
        BY <2>3, <2>8
      <3>2. \A p \in 1..MsgSize : <<m, p>> \in BytesIn(wire[l])
        BY <2>8 DEF StreamInv, KeptInv
      <3>3. {wire[l][i][2] : i \in OnWire(m, l)} = 1..MsgSize
        <4>1. ASSUME NEW i \in OnWire(m, l) PROVE wire[l][i][2] \in 1..MsgSize
          BY <2>1 DEF OnWire, BytesIn, StreamInv, HomeInv
        <4>2. ASSUME NEW n \in 1..MsgSize PROVE \E i \in OnWire(m, l) : wire[l][i][2] = n
          <5>1. PICK i \in DOMAIN wire[l] : wire[l][i] = <<m, n>>
            BY <3>2 DEF BytesIn
          <5> QED
            BY <5>1 DEF OnWire
        <4> QED
          BY <4>1, <4>2
      <3>4. MsgSize \in 0..MsgSize /\ ~(MsgSize < MsgSize)
        BY SizeAssumption
      <3> QED
        BY <2>2, <3>1, <3>3, <3>4
    <2> QED
      BY <2>6, <2>7, <2>8
  <1>2. StreamInOrder
    <2> SUFFICES ASSUME NEW l \in Links \ overtaken,
                        NEW i \in DOMAIN wire[l], NEW j \in DOMAIN wire[l], i < j
                 PROVE  Precedes(wire[l][i], wire[l][j])
      BY DEF StreamInOrder
    <2>1. wire[l][i] \in Nat \X Nat /\ wire[l][j] \in Nat \X Nat
      BY LenProperties, ElementOfSeq DEF TypeInv, TypeOK
    <2>2. wire[l][i][1] <= wire[l][j][1]
      BY DEF StreamInv, OrderInv, Sorted
    <2>3. wire[l][i][1] = wire[l][j][1] => wire[l][i][2] < wire[l][j][2]
      BY DEF StreamInv, SplitInv, Rises
    <2>4. wire[l][i][1] \in Nat /\ wire[l][j][1] \in Nat
      BY <2>1
    <2> QED
      BY <2>2, <2>3, <2>4 DEF Precedes
  <1> QED
    BY <1>1, <1>2 DEF StreamIsIntact

(* A step that leaves data, and who holds it, where it is; a link once     *)
(* dropped remains so, as a handle is not used twice.                      *)
Still ==
    /\ UNCHANGED <<wire, m_send_buff_list, log, overtaken>>
    /\ \A t \in App : /\ Holds(t)' <=> Holds(t)
                      /\ Holds(t) => arg'[t] = arg[t] /\ rest'[t] = rest[t]
StillDropped ==
    \A l \in Links : mi_socket[l] # "new" =>
        /\ mi_socket'[l] # "new"
        /\ mi_socket[l] # "open" => mi_socket'[l] # "open"
        /\ l \notin m_maplink => l \notin m_maplink'
        /\ \A t \in Threads : arg[t] = l /\ pc[t] \in {"destLink", "discLink"} =>
              (arg'[t] = l /\ pc'[t] \in {"destLink", "discLink"}) \/ l \notin m_maplink'

LEMMA DroppedStays ==
    ASSUME StillDropped, NEW l \in Links, mi_socket[l] # "new", Dropped(l)
    PROVE  Dropped(l)'
  BY DEF StillDropped, Dropped

LEMMA StreamKept == ASSUME TypeInv, StreamInv, Still, StillDropped PROVE StreamInv'
  <1>1. \A m \in DOMAIN log : log[m] \in Links
    BY ElementOfSeq, LenProperties DEF TypeInv, TypeOK
  <1>2. HomeInv'
    BY <1>1 DEF StreamInv, HomeInv, Still, StillDropped
  <1>3. OneInv'
    BY DEF StreamInv, OneInv, Still
  <1>4. SplitInv'
    BY DEF StreamInv, SplitInv, Still
  <1>5. KeptInv'
    <2> SUFFICES ASSUME NEW m \in DOMAIN log
                 PROVE  \/ \E i \in DOMAIN m_send_buff_list[log[m]] :
                              m_send_buff_list[log[m]][i].msg = m
                        \/ \E t \in App : Holds(t) /\ rest[t].msg = m
                        \/ \A p \in 1..MsgSize : <<m, p>> \in BytesIn(wire[log[m]])
                        \/ Dropped(log[m])'
      BY DEF KeptInv, Still
    <2>1. mi_socket[log[m]] # "new"
      BY DEF StreamInv, HomeInv
    <2>2. PICK l \in Links : l = log[m]
      BY <1>1
    <2>3. Dropped(l) => Dropped(l)'
      BY <2>1, <2>2, DroppedStays
    <2>4. log'[m] = log[m]
      BY DEF Still
    <2> QED
      BY <2>2, <2>3, <2>4 DEF StreamInv, KeptInv, Dropped
  <1>6. OrderInv'
    BY DEF StreamInv, OrderInv, Still
  <1> QED
    BY <1>2, <1>3, <1>4, <1>5, <1>6 DEF StreamInv

(* All steps but four are such.                                            *)
LEMMA OthersAreStill ==
    ASSUME TypeInv, TableInv, [Next]_vars
    PROVE  \/ Still /\ StillDropped
           \/ \E t \in App : SendWrite(t) \/ SendPush(t)
           \/ \E t \in Threads : DelSendBuff(t)
           \/ FlushWrite
  <1> DEFINE Stays == Still /\ StillDropped
  <1> USE NameAssumption DEF TypeInv, TypeOK, Still, StillDropped, Goto, Enter, Holds
  <1>1. ASSUME NEW t \in App, NEW l \in Links, SendFind(t, l) PROVE Stays
    BY <1>1 DEF SendFind
  <1>2. ASSUME NEW t \in App, NEW l \in Links, DestroyFind(t, l) PROVE Stays
    BY <1>2 DEF DestroyFind
  <1>3. ASSUME NEW t \in App, SendError(t) PROVE Stays
    BY <1>3 DEF SendError
  <1>4. ASSUME NEW t \in App, SendFlag(t) PROVE Stays
    BY <1>4 DEF SendFlag
  <1>5. ASSUME NEW t \in Threads, DelLink(t) PROVE Stays
    BY <1>5 DEF DelLink
  <1>6. ASSUME NEW t \in Threads, DestroySocket(t) PROVE Stays
    BY <1>6 DEF DestroySocket
  <1>7. ASSUME EpollWait PROVE Stays
    BY <1>7 DEF EpollWait
  <1>8. ASSUME BatchDone PROVE Stays
    BY <1>8 DEF BatchDone
  <1>9. ASSUME NEW l \in Links, HandleEvent(l) PROVE Stays
    BY <1>9 DEF HandleEvent
  <1>10. ASSUME FlushCheck PROVE Stays
    BY <1>10 DEF FlushCheck
  <1>11. ASSUME FlushClear PROVE Stays
    BY <1>11 DEF FlushClear
  <1>12. ASSUME FlushLock PROVE Stays
    BY <1>12 DEF FlushLock
  <1>13. ASSUME NEW l \in Links, FlushVisit(l) PROVE Stays
    BY <1>13 DEF FlushVisit
  <1>14. ASSUME FlushSpin PROVE Stays
    BY <1>14 DEF FlushSpin
  <1>15. ASSUME FlushLeave PROVE Stays
    BY <1>15 DEF FlushLeave
  <1>16. ASSUME FlushDone PROVE Stays
    BY <1>16 DEF FlushDone
  <1>17. ASSUME NEW l \in Links, AddTcpLink(l) PROVE Stays
    BY <1>17 DEF AddTcpLink
  <1>18. ASSUME NEW l \in Links, Drain(l) PROVE Stays
    BY <1>18 DEF Drain
  <1>19. ASSUME NEW l \in Links, Arrives(l) PROVE Stays
    BY <1>19 DEF Arrives
  <1>20. ASSUME NEW l \in Links, PeerCloses(l) PROVE Stays
    BY <1>20 DEF PeerCloses
  <1>21. ASSUME Interrupted PROVE Stays
    BY <1>21 DEF Interrupted
  <1>22. ASSUME UNCHANGED vars PROVE Stays
    BY <1>22 DEF vars
  <1> HIDE DEF Stays, TypeInv, TypeOK, Still, StillDropped, Goto, Enter, Holds
  <1> QED
    BY <1>1, <1>2, <1>3, <1>4, <1>5, <1>6, <1>7, <1>8, <1>9, <1>10, <1>11, <1>12, <1>13,
       <1>14, <1>15, <1>16, <1>17, <1>18, <1>19, <1>20, <1>21, <1>22
    DEF Next, InCall, LinkDestroy, WorkerStep, Flush, Environment, Stays

(* A write of the first n bytes of a chunk that is split from the wire.    *)
LEMMA WriteStream ==
    ASSUME TypeInv, StreamInv, NEW l \in Links, NEW c \in Chunk, NEW n \in Nat,
           Write(l, c, n), Split(c, wire[l])
    PROVE  /\ \A k \in Links \ {l} : wire'[k] = wire[k]
           /\ \A b \in BytesIn(wire'[l]) : b \in BytesIn(wire[l])
                 \/ (b[1] = c.msg /\ b[2] \in c.from .. c.from + n - 1)
           /\ \A b \in BytesIn(wire[l]) : b \in BytesIn(wire'[l])
           /\ \A d : d.msg # c.msg /\ Split(d, wire[l]) => Split(d, wire'[l])
           /\ \A p \in 1..MsgSize : <<c.msg, p>> \in BytesIn(wire'[l]) <=> p < c.from + n
           /\ Rises(wire'[l])
           /\ (\A b \in BytesIn(wire[l]) : b[1] <= c.msg) /\ Sorted(wire[l]) => Sorted(wire'[l])
  <1> DEFINE new == BytesOf(c, n)
  <1>1. wire[l] \in Seq(Nat \X Nat) /\ wire \in [Links -> Seq(Nat \X Nat)]
    BY DEF TypeInv, TypeOK
  <1>2. /\ wire'[l] = Written(wire[l], c, n)
        /\ \A k \in Links \ {l} : wire'[k] = wire[k]
    BY <1>1 DEF Write, Written
  <1>3. \A b \in BytesIn(wire[l]) : b[1] = c.msg => b[2] < c.from
    <2> SUFFICES ASSUME NEW b \in BytesIn(wire[l]), b[1] = c.msg PROVE b[2] < c.from
      OBVIOUS
    <2>1. b \in Nat \X Nat
      BY <1>1, LenProperties, ElementOfSeq DEF BytesIn
    <2>2. b = <<c.msg, b[2]>> /\ b[2] \in 1..MsgSize
      BY <2>1 DEF StreamInv, HomeInv
    <2> QED
      BY <2>2 DEF Split
  <1>4. Rises(wire[l])
    BY DEF StreamInv, SplitInv
  <1>5. /\ BytesIn(wire'[l]) = BytesIn(wire[l]) \cup new
        /\ Rises(wire'[l])
        /\ (\A b \in BytesIn(wire[l]) : b[1] <= c.msg) /\ Sorted(wire[l]) => Sorted(wire'[l])
    <2>1. PICK w \in Seq(Nat \X Nat) : w = wire[l]
      BY <1>1
    <2>2. LET v == Written(w, c, n)
          IN  /\ BytesIn(v) = BytesIn(w) \cup BytesOf(c, n)
              /\ (\A b \in BytesIn(w) : b[1] = c.msg => b[2] < c.from) /\ Rises(w) => Rises(v)
              /\ (\A b \in BytesIn(w) : b[1] <= c.msg) /\ Sorted(w) => Sorted(v)
      BY WrittenBytes
    <2> QED
      BY <1>2, <1>3, <1>4, <2>1, <2>2
  <1>6. ASSUME NEW p \in 1..MsgSize
        PROVE  <<c.msg, p>> \in BytesIn(wire'[l]) <=> p < c.from + n
    <2>1. <<c.msg, p>> \in BytesIn(wire[l]) <=> p < c.from
      BY DEF Split
    <2>2. <<c.msg, p>> \in new <=> p \in c.from .. c.from + n - 1
      BY DEF BytesOf
    <2>3. p < c.from \/ p \in c.from .. c.from + n - 1 <=> p < c.from + n
      BY SizeAssumption DEF Chunk
    <2> QED
      BY <1>5, <2>1, <2>2, <2>3
  <1>7. ASSUME NEW d, d.msg # c.msg, Split(d, wire[l])
        PROVE  Split(d, wire'[l])
    <2>1. \A p : <<d.msg, p>> \notin new
      BY <1>7 DEF BytesOf
    <2> QED
      BY <1>5, <1>7, <2>1 DEF Split
  <1>8. \A b \in new : b[1] = c.msg /\ b[2] \in c.from .. c.from + n - 1
    BY DEF BytesOf
  <1> HIDE DEF new
  <1> QED
    BY <1>2, <1>5, <1>6, <1>7, <1>8

(* del_send_buff empties the list of a link that is on its way out.        *)
LEMMA DelSendBuffStream ==
    ASSUME TypeInv, TableInv, StreamInv, NEW t \in Threads, DelSendBuff(t)
    PROVE  StreamInv'
  <1>1. PICK l \in Links : l = arg[t]
    BY DEF DelSendBuff, TypeInv, ArgInv, Busy
  <1>2. /\ m_send_buff_list'[l] = <<>> /\ DOMAIN m_send_buff_list'[l] = {}
        /\ \A k \in Links \ {l} : m_send_buff_list'[k] = m_send_buff_list[k]
        /\ UNCHANGED <<wire, log, overtaken, rest, arg, mi_socket, m_maplink>>
    BY <1>1 DEF DelSendBuff, TypeInv, TypeOK
  <1>3. /\ \A u \in App : Holds(u)' <=> Holds(u)
        /\ pc'[t] \in {"destLink", "discLink"}
        /\ \A u \in Threads : pc[u] \in {"destLink", "discLink"} => pc'[u] = pc[u]
    BY DEF DelSendBuff, Goto, Holds, TypeInv, TypeOK
  <1>4. \A m \in DOMAIN log : log[m] \in Links
    BY ElementOfSeq, LenProperties DEF TypeInv, TypeOK
  <1>5. Dropped(l)' /\ \A k \in Links : Dropped(k) => Dropped(k)'
    BY <1>1, <1>2, <1>3 DEF Dropped
  <1>6. HomeInv'
    BY <1>2, <1>3, <1>4 DEF StreamInv, HomeInv
  <1>7. OneInv'
    BY <1>2, <1>3 DEF StreamInv, OneInv
  <1>8. SplitInv'
    BY <1>2, <1>3 DEF StreamInv, SplitInv
  <1>9. KeptInv'
    <2> SUFFICES ASSUME NEW m \in DOMAIN log
                 PROVE  \/ \E i \in DOMAIN m_send_buff_list'[log[m]] :
                              m_send_buff_list'[log[m]][i].msg = m
                        \/ \E u \in App : Holds(u) /\ rest[u].msg = m
                        \/ \A p \in 1..MsgSize : <<m, p>> \in BytesIn(wire[log[m]])
                        \/ Dropped(log[m])'
      BY <1>2, <1>3 DEF KeptInv
    <2>1. PICK k \in Links : k = log[m]
      BY <1>4
    <2>2. CASE k = l
      BY <1>2, <1>5, <2>1, <2>2 DEF Dropped
    <2>3. CASE k # l
      <3>1. Dropped(k) => Dropped(log[m])'
        BY <1>2, <1>5, <2>1 DEF Dropped
      <3> QED
        BY <1>2, <2>1, <2>3, <3>1 DEF StreamInv, KeptInv
    <2> QED
      BY <2>2, <2>3
  <1>10. OrderInv'
    BY <1>2, <1>3 DEF StreamInv, OrderInv
  <1> QED
    BY <1>6, <1>7, <1>8, <1>9, <1>10 DEF StreamInv

(* A sender puts its chunk at the end of the list.                         *)
LEMMA SendPushStream ==
    ASSUME TypeInv, TableInv, StreamInv, NEW t \in App, SendPush(t)
    PROVE  StreamInv'
  <1> DEFINE e == Len(m_send_buff_list[arg[t]]) + 1
  <1>1. PICK l \in Links : l = arg[t]
    BY DEF SendPush, TypeInv, ArgInv, Busy
  <1>2. PICK c \in Chunk : c = rest[t]
    BY DEF SendPush, TypeInv, ArgInv
  <1>3. /\ Holds(t) /\ UNCHANGED <<wire, log, arg, mi_socket, m_maplink>>
        /\ m_send_buff_list[l] \in Seq(Chunk)
        /\ m_send_buff_list'[l] = Append(m_send_buff_list[l], c)
        /\ \A k \in Links \ {l} : m_send_buff_list'[k] = m_send_buff_list[k]
    BY <1>1, <1>2 DEF SendPush, Holds, TypeInv, TypeOK
  <1>4. PICK n : n = e
    OBVIOUS
  <1>5. /\ DOMAIN m_send_buff_list'[l] = DOMAIN m_send_buff_list[l] \cup {n}
        /\ DOMAIN m_send_buff_list[l] \subseteq Nat
        /\ \A i \in DOMAIN m_send_buff_list[l] :
              m_send_buff_list'[l][i] = m_send_buff_list[l][i] /\ i < n
        /\ m_send_buff_list'[l][n] = c
    BY <1>1, <1>3, <1>4, Lengthened
  <1>6. /\ ~Holds(t)'
        /\ \A u \in App \ {t} : (Holds(u)' <=> Holds(u)) /\ rest'[u] = rest[u]
        /\ \A u \in Threads : pc[u] \in {"destLink", "discLink"} => pc'[u] = pc[u]
    BY DEF SendPush, Goto, Holds, TypeInv, TypeOK
  <1>7. \A m \in DOMAIN log : log[m] \in Links
    BY ElementOfSeq, LenProperties DEF TypeInv, TypeOK
  <1>8. \A k \in Links : Dropped(k) => Dropped(k)'
    BY <1>3, <1>6 DEF Dropped
  <1>9. /\ c.msg \in DOMAIN log /\ log[c.msg] = l /\ Split(c, wire[l])
        /\ \A u \in App \ {t} : Holds(u) => rest[u].msg # c.msg
        /\ \A k \in Links : \A i \in DOMAIN m_send_buff_list[k] :
              m_send_buff_list[k][i].msg # c.msg
    BY <1>1, <1>2, <1>3 DEF StreamInv, HomeInv, OneInv, SplitInv
  <1>10. \A i \in DOMAIN m_send_buff_list[l] : i # n
    BY <1>5
  <1> HIDE DEF e
  <1>11. ASSUME NEW k \in Links, NEW i \in DOMAIN m_send_buff_list'[k], ~(k = l /\ i = n)
         PROVE  i \in DOMAIN m_send_buff_list[k] /\ m_send_buff_list'[k][i] = m_send_buff_list[k][i]
    BY <1>3, <1>5, <1>11
  <1>12. HomeInv'
    <2>1. ASSUME NEW k \in Links, NEW i \in DOMAIN m_send_buff_list'[k]
          PROVE  /\ m_send_buff_list'[k][i].msg \in DOMAIN log
                 /\ log[m_send_buff_list'[k][i].msg] = k
      <3>1. CASE k = l /\ i = n
        BY <1>5, <1>9, <3>1
      <3>2. CASE ~(k = l /\ i = n)
        BY <1>11, <3>2 DEF StreamInv, HomeInv
      <3> QED
        BY <3>1, <3>2
    <2>2. \A u \in App : Holds(u)' =>
             rest'[u].msg \in DOMAIN log /\ log[rest'[u].msg] = arg'[u]
      BY <1>3, <1>6 DEF StreamInv, HomeInv
    <2> QED
      BY <1>3, <2>1, <2>2 DEF StreamInv, HomeInv
  <1>13. OneInv'
    <2>1. ASSUME NEW k \in Links, NEW i \in DOMAIN m_send_buff_list'[k],
                 NEW j \in DOMAIN m_send_buff_list'[k],
                 m_send_buff_list'[k][i].msg = m_send_buff_list'[k][j].msg
          PROVE  i = j
      <3>1. CASE k = l /\ i = n /\ j # n
        BY <1>5, <1>9, <1>11, <2>1, <3>1
      <3>2. CASE k = l /\ i # n /\ j = n
        BY <1>5, <1>9, <1>11, <2>1, <3>2
      <3>3. CASE ~(k = l /\ i = n) /\ ~(k = l /\ j = n)
        BY <1>11, <2>1, <3>3 DEF StreamInv, OneInv
      <3> QED
        BY <3>1, <3>2, <3>3
    <2>2. \A u, v \in App : Holds(u)' /\ Holds(v)' /\ rest'[u].msg = rest'[v].msg => u = v
      BY <1>6 DEF StreamInv, OneInv
    <2>3. ASSUME NEW u \in App, NEW k \in Links, NEW i \in DOMAIN m_send_buff_list'[k], Holds(u)'
          PROVE  m_send_buff_list'[k][i].msg # rest'[u].msg
      <3>1. u # t /\ Holds(u) /\ rest'[u] = rest[u]
        BY <1>6, <2>3
      <3>2. CASE k = l /\ i = n
        BY <1>5, <1>9, <3>1, <3>2
      <3>3. CASE ~(k = l /\ i = n)
        BY <1>11, <3>1, <3>3 DEF StreamInv, OneInv
      <3> QED
        BY <3>2, <3>3
    <2> QED
      BY <2>1, <2>2, <2>3 DEF OneInv
  <1>14. SplitInv'
    <2>1. ASSUME NEW k \in Links, NEW i \in DOMAIN m_send_buff_list'[k]
          PROVE  Split(m_send_buff_list'[k][i], wire[k])
      BY <1>3, <1>5, <1>9 DEF StreamInv, SplitInv
    <2>2. \A u \in App : Holds(u)' => Split(rest'[u], wire[arg[u]])
      BY <1>6 DEF StreamInv, SplitInv
    <2> QED
      BY <1>3, <2>1, <2>2 DEF StreamInv, SplitInv
  <1>15. KeptInv'
    <2> SUFFICES ASSUME NEW m \in DOMAIN log
                 PROVE  \/ \E i \in DOMAIN m_send_buff_list'[log[m]] :
                              m_send_buff_list'[log[m]][i].msg = m
                        \/ \E u \in App : Holds(u)' /\ rest'[u].msg = m
                        \/ \A p \in 1..MsgSize : <<m, p>> \in BytesIn(wire[log[m]])
                        \/ Dropped(log[m])'
      BY <1>3 DEF KeptInv
    <2>1. PICK k \in Links : k = log[m]
      BY <1>7
    <2>2. Dropped(k) => Dropped(log[m])'
      BY <1>3, <1>8, <2>1 DEF Dropped
    <2>3. CASE \E i \in DOMAIN m_send_buff_list[k] : m_send_buff_list[k][i].msg = m
      BY <1>3, <1>5, <2>1, <2>3
    <2>4. CASE \E u \in App : Holds(u) /\ rest[u].msg = m
      <3>1. PICK u \in App : Holds(u) /\ rest[u].msg = m
        BY <2>4
      <3>2. CASE u = t
        BY <1>2, <1>5, <1>9, <2>1, <3>1, <3>2
      <3>3. CASE u # t
        BY <1>6, <3>1, <3>3
      <3> QED
        BY <3>2, <3>3
    <2> QED
      BY <2>1, <2>2, <2>3, <2>4 DEF StreamInv, KeptInv
  <1>16. OrderInv'
    <2>1. overtaken' = overtaken \/ overtaken' = overtaken \cup {l}
      BY <1>1 DEF SendPush
    <2>2. ASSUME l \notin overtaken', NEW u \in App, Holds(u), arg[u] = l
          PROVE  c.msg <= rest[u].msg
      <3>1. rest[u] \in InHand(l)
        BY <2>2 DEF InHand, Holds
      <3>2. ~(rest[u].msg < c.msg)
        BY <1>1, <1>2, <2>2, <3>1 DEF SendPush
      <3>3. rest[u].msg \in Nat /\ c.msg \in Nat
        BY <2>2 DEF TypeInv, ArgInv, Holds, Chunk
      <3> QED
        BY <3>2, <3>3
    <2>3. ASSUME NEW k \in Links \ overtaken'
          PROVE  /\ Sorted(wire[k])
                 /\ \A i, j \in DOMAIN m_send_buff_list'[k] :
                       i < j => m_send_buff_list'[k][i].msg <= m_send_buff_list'[k][j].msg
                 /\ \A b \in BytesIn(wire[k]), i \in DOMAIN m_send_buff_list'[k] :
                       b[1] <= m_send_buff_list'[k][i].msg
                 /\ \A u \in App : Holds(u)' /\ arg[u] = k =>
                       /\ \A b \in BytesIn(wire[k]) : b[1] <= rest'[u].msg
                       /\ \A i \in DOMAIN m_send_buff_list'[k] :
                             m_send_buff_list'[k][i].msg <= rest'[u].msg
      <3>1. k \notin overtaken
        BY <2>1
      <3>2. CASE k # l
        BY <1>3, <1>6, <3>1, <3>2 DEF StreamInv, OrderInv
      <3>3. CASE k = l
        <4>1. /\ \A b \in BytesIn(wire[l]) : b[1] <= c.msg
              /\ \A i \in DOMAIN m_send_buff_list[l] : m_send_buff_list[l][i].msg <= c.msg
          BY <1>1, <1>2, <1>3, <3>1, <3>3 DEF StreamInv, OrderInv
        <4>2. \A i \in DOMAIN m_send_buff_list[l] : ~(n < i) /\ ~(n < n)
          BY <1>5, <1>4, <1>1, <1>3, LenProperties DEF e
        <4>3. ASSUME NEW i \in DOMAIN m_send_buff_list'[l], NEW j \in DOMAIN m_send_buff_list'[l],
                     i < j
              PROVE  m_send_buff_list'[l][i].msg <= m_send_buff_list'[l][j].msg
          <5>1. i \in DOMAIN m_send_buff_list[l]
            BY <1>5, <4>2, <4>3, <1>4, <1>1, <1>3, LenProperties DEF e
          <5>2. CASE j = n
            BY <1>5, <4>1, <5>1, <5>2
          <5>3. CASE j # n
            BY <1>5, <3>1, <3>3, <4>3, <5>1, <5>3 DEF StreamInv, OrderInv
          <5> QED
            BY <5>2, <5>3
        <4>4. \A b \in BytesIn(wire[l]), i \in DOMAIN m_send_buff_list'[l] :
                 b[1] <= m_send_buff_list'[l][i].msg
          BY <1>5, <3>1, <3>3, <4>1 DEF StreamInv, OrderInv
        <4>5. ASSUME NEW u \in App, Holds(u)', arg[u] = l
              PROVE  /\ \A b \in BytesIn(wire[l]) : b[1] <= rest'[u].msg
                     /\ \A i \in DOMAIN m_send_buff_list'[l] :
                           m_send_buff_list'[l][i].msg <= rest'[u].msg
          <5>1. Holds(u) /\ rest'[u] = rest[u]
            BY <1>6, <4>5
          <5>2. c.msg <= rest[u].msg
            BY <2>2, <2>3, <3>3, <4>5, <5>1
          <5> QED
            BY <1>5, <3>1, <3>3, <4>5, <5>1, <5>2 DEF StreamInv, OrderInv
        <4>6. Sorted(wire[l])
          BY <3>1, <3>3 DEF StreamInv, OrderInv
        <4> QED
          BY <3>3, <4>3, <4>4, <4>5, <4>6
      <3> QED
        BY <3>2, <3>3
    <2> QED
      BY <1>3, <2>3 DEF OrderInv
  <1> QED
    BY <1>12, <1>13, <1>14, <1>15, <1>16 DEF StreamInv

(* link_send's write: a message gets its number, and its unsent rest, if   *)
(* any, is in the sender's hands.                                          *)
LEMMA SendWriteStream ==
    ASSUME TypeInv, TableInv, StreamInv, NEW t \in App, SendWrite(t)
    PROVE  StreamInv'
  <1>1. PICK l \in Links : l = arg[t]
    BY DEF SendWrite, TypeInv, ArgInv, Busy
  <1>2. PICK m : m = Len(log) + 1
    OBVIOUS
  <1>3. /\ DOMAIN log = 1..Len(log) /\ Len(log) \in Nat /\ m \in Nat \ {0} /\ m \notin DOMAIN log
        /\ \A k \in DOMAIN log : k <= m /\ log[k] \in Links
    BY <1>2, LenProperties, ElementOfSeq DEF TypeInv, TypeOK
  <1>4. PICK c \in Chunk : c = [msg |-> m, from |-> 1]
    <2>1. 1 \in 1..MsgSize
      BY SizeAssumption
    <2>2. [msg |-> m, from |-> 1] \in Chunk
      BY <1>3, <2>1 DEF Chunk
    <2> QED
      BY <2>2
  <1>5. PICK n : n = Fitting(l, c)
    OBVIOUS
  <1>6. c.msg = m /\ c.from = 1 /\ n \in 0..MsgSize
    <2>1. n \in Nat /\ n <= MsgSize + 1 - c.from
      BY <1>5, FittingBounds DEF TypeInv
    <2> QED
      BY <1>4, <2>1, SizeAssumption
  <1>7. /\ Write(l, c, n) /\ log' = Append(log, l)
        /\ UNCHANGED <<m_send_buff_list, mi_socket, m_maplink>>
        /\ overtaken' = IF n > 0 /\ (m_send_buff_list[l] # <<>> \/ InHand(l) # {})
                        THEN overtaken \cup {l} ELSE overtaken
        /\ mi_socket[l] # "new" /\ ~Holds(t)
    BY <1>1, <1>2, <1>4, <1>5 DEF SendWrite, Holds, TableInv, CallInv, Busy
  <1>8. /\ n = MsgSize => ~Holds(t)'
        /\ n # MsgSize => Holds(t)' /\ arg'[t] = l /\ rest'[t] = After(c, n)
        /\ \A u \in App \ {t} : /\ Holds(u)' <=> Holds(u)
                                /\ rest'[u] = rest[u] /\ arg'[u] = arg[u]
        /\ \A u \in Threads : pc[u] \in {"destLink", "discLink"} =>
                                 pc'[u] = pc[u] /\ arg'[u] = arg[u]
    <2>1. CASE n = MsgSize
      BY <1>1, <1>2, <1>4, <1>5, <2>1 DEF SendWrite, Holds, Enter, Goto, TypeInv, TypeOK
    <2>2. CASE n # MsgSize
      BY <1>1, <1>2, <1>4, <1>5, <2>2 DEF SendWrite, Holds, Enter, Goto, TypeInv, TypeOK
    <2> QED
      BY <2>1, <2>2
  <1>9. /\ DOMAIN log' = DOMAIN log \cup {m} /\ log'[m] = l
        /\ \A k \in DOMAIN log : log'[k] = log[k]
    <2>1. /\ Append(log, l) \in Seq(Links) /\ Len(Append(log, l)) = Len(log) + 1
          /\ \A i \in 1..Len(log) : Append(log, l)[i] = log[i]
          /\ Append(log, l)[Len(log) + 1] = l
      BY AppendProperties DEF TypeInv, TypeOK
    <2>2. DOMAIN Append(log, l) = 1..Len(log) + 1
      BY <2>1, LenProperties
    <2> QED
      BY <1>2, <1>3, <1>7, <2>1, <2>2
  <1>10. /\ \A k \in Links : \A b \in BytesIn(wire[k]) : b[1] # m
         /\ \A k \in Links : \A i \in DOMAIN m_send_buff_list[k] : m_send_buff_list[k][i].msg # m
         /\ \A u \in App : Holds(u) => rest[u].msg # m
    BY <1>3 DEF StreamInv, HomeInv
  <1>11. Split(c, wire[l])
    BY <1>6, <1>10 DEF Split
  <1>12. /\ \A k \in Links \ {l} : wire'[k] = wire[k]
         /\ \A b \in BytesIn(wire'[l]) : b \in BytesIn(wire[l]) \/ (b[1] = m /\ b[2] \in 1..n)
         /\ \A b \in BytesIn(wire[l]) : b \in BytesIn(wire'[l])
         /\ \A d : d.msg # m /\ Split(d, wire[l]) => Split(d, wire'[l])
         /\ \A p \in 1..MsgSize : <<m, p>> \in BytesIn(wire'[l]) <=> p < n + 1
         /\ Rises(wire'[l])
         /\ (\A b \in BytesIn(wire[l]) : b[1] <= m) /\ Sorted(wire[l]) => Sorted(wire'[l])
    <2>1. n \in Nat /\ c.from .. c.from + n - 1 = 1..n /\ c.from + n = n + 1
      BY <1>6, SizeAssumption
    <2> QED
      BY <1>6, <1>7, <1>11, <2>1, WriteStream
  <1>13. /\ After(c, n).msg = m
         /\ n # MsgSize => Split(After(c, n), wire'[l])
    BY <1>6, <1>12 DEF After, Split
  <1>14. \A k \in Links : Dropped(k) => Dropped(k)'
    BY <1>7, <1>8 DEF Dropped
  <1>15. HomeInv'
    <2>1. ASSUME NEW k \in Links, NEW b \in BytesIn(wire'[k])
          PROVE  b[1] \in DOMAIN log' /\ log'[b[1]] = k /\ b[2] \in 1..MsgSize
      <3>1. CASE b \in BytesIn(wire[k])
        BY <1>9, <3>1 DEF StreamInv, HomeInv
      <3>2. CASE b \notin BytesIn(wire[k])
        <4>1. k = l /\ b[1] = m /\ b[2] \in 1..n
          BY <1>12, <2>1, <3>2
        <4> QED
          BY <1>6, <1>9, <4>1, SizeAssumption
      <3> QED
        BY <3>1, <3>2
    <2>2. \A k \in Links : \A i \in DOMAIN m_send_buff_list[k] :
             /\ m_send_buff_list[k][i].msg \in DOMAIN log'
             /\ log'[m_send_buff_list[k][i].msg] = k
      BY <1>9 DEF StreamInv, HomeInv
    <2>3. \A u \in App : Holds(u)' =>
             rest'[u].msg \in DOMAIN log' /\ log'[rest'[u].msg] = arg'[u]
      <3> SUFFICES ASSUME NEW u \in App, Holds(u)'
                   PROVE  rest'[u].msg \in DOMAIN log' /\ log'[rest'[u].msg] = arg'[u]
        OBVIOUS
      <3>1. CASE u = t
        BY <1>8, <1>9, <1>13, <3>1
      <3>2. CASE u # t
        BY <1>8, <1>9, <3>2 DEF StreamInv, HomeInv
      <3> QED
        BY <3>1, <3>2
    <2>4. \A k \in DOMAIN log' : mi_socket[log'[k]] # "new"
      BY <1>7, <1>9 DEF StreamInv, HomeInv
    <2> QED
      BY <1>7, <2>1, <2>2, <2>3, <2>4 DEF HomeInv
  <1>16. OneInv'
    <2>1. \A u, v \in App : Holds(u)' /\ Holds(v)' /\ rest'[u].msg = rest'[v].msg => u = v
      <3> SUFFICES ASSUME NEW u \in App, NEW v \in App, Holds(u)', Holds(v)',
                          rest'[u].msg = rest'[v].msg
                   PROVE  u = v
        OBVIOUS
      <3>1. CASE u # t /\ v # t
        BY <1>8, <3>1 DEF StreamInv, OneInv
      <3>2. CASE u = t /\ v # t
        BY <1>8, <1>10, <1>13, <3>2
      <3>3. CASE u # t /\ v = t
        BY <1>8, <1>10, <1>13, <3>3
      <3> QED
        BY <3>1, <3>2, <3>3
    <2>2. ASSUME NEW u \in App, NEW k \in Links, NEW i \in DOMAIN m_send_buff_list[k], Holds(u)'
          PROVE  m_send_buff_list[k][i].msg # rest'[u].msg
      <3>1. CASE u = t
        BY <1>8, <1>10, <1>13, <2>2, <3>1
      <3>2. CASE u # t
        BY <1>8, <2>2, <3>2 DEF StreamInv, OneInv
      <3> QED
        BY <3>1, <3>2
    <2> QED
      BY <1>7, <2>1, <2>2 DEF StreamInv, OneInv
  <1>17. SplitInv'
    <2>1. ASSUME NEW k \in Links, NEW i \in DOMAIN m_send_buff_list[k]
          PROVE  Split(m_send_buff_list[k][i], wire'[k])
      BY <1>10, <1>12 DEF StreamInv, SplitInv
    <2>2. ASSUME NEW u \in App, Holds(u)' PROVE Split(rest'[u], wire'[arg'[u]])
      <3>1. CASE u = t
        BY <1>8, <1>13, <2>2, <3>1
      <3>2. CASE u # t
        <4>1. Holds(u) /\ rest'[u] = rest[u] /\ arg'[u] = arg[u] /\ arg[u] \in Links
          BY <1>8, <2>2, <3>2 DEF TypeInv, ArgInv, Busy, Holds
        <4>2. Split(rest[u], wire[arg[u]]) /\ rest[u].msg # m
          BY <1>10, <4>1 DEF StreamInv, SplitInv
        <4> QED
          BY <1>12, <4>1, <4>2
      <3> QED
        BY <3>1, <3>2
    <2>3. \A k \in Links : Rises(wire'[k])
      BY <1>12 DEF StreamInv, SplitInv
    <2> QED
      BY <1>7, <2>1, <2>2, <2>3 DEF SplitInv
  <1>18. KeptInv'
    <2> SUFFICES ASSUME NEW j \in DOMAIN log'
                 PROVE  \/ \E i \in DOMAIN m_send_buff_list[log'[j]] :
                              m_send_buff_list[log'[j]][i].msg = j
                        \/ \E u \in App : Holds(u)' /\ rest'[u].msg = j
                        \/ \A p \in 1..MsgSize : <<j, p>> \in BytesIn(wire'[log'[j]])
                        \/ Dropped(log[j])'
      BY <1>7 DEF KeptInv
    <2>1. CASE j = m /\ n = MsgSize
      <3>1. \A p \in 1..MsgSize : p < n + 1
        BY <2>1, SizeAssumption
      <3> QED
        BY <1>9, <1>12, <2>1, <3>1
    <2>2. CASE j = m /\ n # MsgSize
      BY <1>8, <1>13, <2>2
    <2>3. CASE j # m
      <3>1. PICK k \in Links : k = log[j] /\ j \in DOMAIN log /\ log'[j] = k
        BY <1>3, <1>9, <2>3
      <3>2. Dropped(k) => Dropped(log[j])'
        BY <1>14, <3>1 DEF Dropped
      <3>3. \A u \in App : Holds(u) => Holds(u)' /\ rest'[u] = rest[u]
        BY <1>7, <1>8
      <3>4. \A b \in BytesIn(wire[k]) : b \in BytesIn(wire'[k])
        BY <1>12
      <3> QED
        BY <3>1, <3>2, <3>3, <3>4 DEF StreamInv, KeptInv
    <2> QED
      BY <2>1, <2>2, <2>3
  <1>19. OrderInv'
    <2> SUFFICES ASSUME NEW k \in Links, k \notin overtaken'
                 PROVE  /\ Sorted(wire'[k])
                        /\ \A i, j \in DOMAIN m_send_buff_list[k] :
                              i < j => m_send_buff_list[k][i].msg <= m_send_buff_list[k][j].msg
                        /\ \A b \in BytesIn(wire'[k]), i \in DOMAIN m_send_buff_list[k] :
                              b[1] <= m_send_buff_list[k][i].msg
                        /\ \A u \in App : Holds(u)' /\ arg'[u] = k =>
                              /\ \A b \in BytesIn(wire'[k]) : b[1] <= rest'[u].msg
                              /\ \A i \in DOMAIN m_send_buff_list[k] :
                                    m_send_buff_list[k][i].msg <= rest'[u].msg
      BY <1>7 DEF OrderInv
    <2>1. k \notin overtaken
      BY <1>7
    <2>2. /\ \A b \in BytesIn(wire[k]) : b[1] <= m
          /\ \A i \in DOMAIN m_send_buff_list[k] : m_send_buff_list[k][i].msg <= m
      BY <1>3 DEF StreamInv, HomeInv
    <2>3. CASE k # l
      BY <1>7, <1>8, <1>12, <2>1, <2>3 DEF StreamInv, OrderInv
    <2>4. CASE k = l
      <3>1. Sorted(wire'[l])
        BY <1>12, <2>1, <2>2, <2>4 DEF StreamInv, OrderInv
      <3>2. n > 0 => DOMAIN m_send_buff_list[l] = {} /\ \A u \in App : ~(Holds(u) /\ arg[u] = l)
        <4> SUFFICES ASSUME n > 0
                     PROVE  DOMAIN m_send_buff_list[l] = {} /\ \A u \in App : ~(Holds(u) /\ arg[u] = l)
          OBVIOUS
        <4>1. m_send_buff_list[l] = <<>> /\ InHand(l) = {}
          BY <1>7, <2>4
        <4>2. \A u \in App : Holds(u) /\ arg[u] = l => rest[u] \in InHand(l)
          BY DEF InHand, Holds
        <4> QED
          BY <4>1, <4>2
      <3>3. \A b \in BytesIn(wire'[l]) : b[1] <= m
        <4> SUFFICES ASSUME NEW b \in BytesIn(wire'[l]) PROVE b[1] <= m
          OBVIOUS
        <4>1. b \in BytesIn(wire[l]) \/ b[1] = m
          BY <1>12
        <4> QED
          BY <1>3, <2>2, <2>4, <4>1
      <3>4. ~(n > 0) => \A b \in BytesIn(wire'[l]) : b \in BytesIn(wire[l])
        <4>1. ~(n > 0) => 1..n = {}
          BY <1>6, SizeAssumption
        <4> QED
          BY <1>12, <4>1
      <3>5. ASSUME NEW b \in BytesIn(wire'[l]), NEW i \in DOMAIN m_send_buff_list[l]
            PROVE  b[1] <= m_send_buff_list[l][i].msg
        <4>1. b \in BytesIn(wire[l])
          BY <3>2, <3>4, <3>5
        <4> QED
          BY <2>1, <2>4, <4>1 DEF StreamInv, OrderInv
      <3>6. ASSUME NEW u \in App, Holds(u)', arg'[u] = l
            PROVE  /\ \A b \in BytesIn(wire'[l]) : b[1] <= rest'[u].msg
                   /\ \A i \in DOMAIN m_send_buff_list[l] : m_send_buff_list[l][i].msg <= rest'[u].msg
        <4>1. CASE u = t
          <5>1. rest'[u].msg = m
            BY <1>8, <1>13, <3>6, <4>1
          <5> QED
            BY <2>2, <2>4, <3>3, <5>1
        <4>2. CASE u # t
          <5>1. Holds(u) /\ rest'[u] = rest[u] /\ arg[u] = l
            BY <1>8, <3>6, <4>2
          <5>2. \A b \in BytesIn(wire'[l]) : b \in BytesIn(wire[l])
            BY <3>2, <3>4, <5>1
          <5> QED
            BY <2>1, <2>4, <5>1, <5>2 DEF StreamInv, OrderInv
        <4> QED
          BY <4>1, <4>2
      <3>7. \A i, j \in DOMAIN m_send_buff_list[l] :
               i < j => m_send_buff_list[l][i].msg <= m_send_buff_list[l][j].msg
        BY <2>1, <2>4 DEF StreamInv, OrderInv
      <3> QED
        BY <2>4, <3>1, <3>5, <3>6, <3>7
    <2> QED
      BY <2>3, <2>4
  <1> QED
    BY <1>15, <1>16, <1>17, <1>18, <1>19 DEF StreamInv

(* do_send_buff writes some of the first chunk of a list.                  *)
LEMMA FlushWriteStream ==
    ASSUME TypeInv, TableInv, StreamInv, FlushWrite
    PROVE  StreamInv'
  <1>1. PICK l \in Links : l = arg[Worker]
    BY DEF FlushWrite, TypeInv, ArgInv, Busy
  <1>2. PICK list \in Seq(Chunk) : list = m_send_buff_list[l]
    BY DEF TypeInv, TypeOK
  <1>3. PICK c : c = Head(list)
    OBVIOUS
  <1>4. PICK n : n = Fitting(l, c)
    OBVIOUS
  <1>5. /\ Write(l, c, n) /\ list # <<>>
        /\ m_send_buff_list' = [m_send_buff_list EXCEPT ![l] = ListAfter(list, n)]
        /\ UNCHANGED <<log, overtaken, pc, arg, rest, mi_socket, m_maplink>>
    BY <1>1, <1>2, <1>3, <1>4 DEF FlushWrite
  <1>6. c \in Chunk
    BY <1>3, <1>5, HeadTailProperties
  <1>7. /\ n \in Nat /\ c.from \in 1..MsgSize /\ n <= MsgSize + 1 - c.from
        /\ c.from + n - 1 <= MsgSize
    <2>1. n \in Nat /\ n <= MsgSize + 1 - c.from
      BY <1>4, <1>6, FittingBounds DEF TypeInv
    <2> QED
      BY <1>6, <2>1, SizeAssumption DEF Chunk
  <1>8. PICK d \in {0, 1} :
           LET x == ListAfter(list, n)
           IN  /\ d = 1 <=> Head(list).from + n > MsgSize
               /\ \A i \in DOMAIN x :
                     /\ i + d \in DOMAIN list
                     /\ x[i] = IF i + d = 1 THEN After(Head(list), n) ELSE list[i + d]
               /\ \A i \in DOMAIN list : i # 1 \/ d = 0 => i - d \in DOMAIN x
               /\ DOMAIN x \subseteq Nat /\ DOMAIN list = 1..Len(list) /\ 1 \in DOMAIN list
               /\ Head(list) = list[1] /\ Head(list) \in Chunk
    BY <1>5, <1>7, Shortened
  <1>9. PICK x : x = ListAfter(list, n)
    OBVIOUS
  <1>10. /\ d = 1 <=> c.from + n > MsgSize
         /\ \A i \in DOMAIN x :
               /\ i + d \in DOMAIN list
               /\ x[i] = IF i + d = 1 THEN After(c, n) ELSE list[i + d]
         /\ \A i \in DOMAIN list : i # 1 \/ d = 0 => i - d \in DOMAIN x
         /\ DOMAIN x \subseteq Nat /\ DOMAIN list \subseteq Nat /\ 1 \in DOMAIN list
         /\ list[1] = c
    BY <1>3, <1>8, <1>9
  <1>11. /\ m_send_buff_list'[l] = x
         /\ \A k \in Links \ {l} : m_send_buff_list'[k] = m_send_buff_list[k]
    BY <1>5, <1>9 DEF TypeInv, TypeOK
  <1>12. After(c, n).msg = c.msg /\ After(c, n).from = c.from + n
    BY DEF After
  <1>13. \A i \in DOMAIN x : x[i].msg = list[i + d].msg
    BY <1>10, <1>12
  <1>14. \A u \in App : Holds(u)' <=> Holds(u)
    BY <1>5 DEF Holds
  <1>15. /\ c.msg \in DOMAIN log /\ log[c.msg] = l /\ Split(c, wire[l])
         /\ \A i \in DOMAIN list : i # 1 => list[i].msg # c.msg
         /\ \A u \in App : Holds(u) => rest[u].msg # c.msg
    <2>1. 1 \in DOMAIN m_send_buff_list[l] /\ m_send_buff_list[l][1] = c
      BY <1>2, <1>10
    <2> QED
      BY <1>2, <2>1 DEF StreamInv, HomeInv, OneInv, SplitInv
  <1>16. /\ \A k \in Links \ {l} : wire'[k] = wire[k]
         /\ \A b \in BytesIn(wire'[l]) : b \in BytesIn(wire[l])
               \/ (b[1] = c.msg /\ b[2] \in c.from .. c.from + n - 1)
         /\ \A b \in BytesIn(wire[l]) : b \in BytesIn(wire'[l])
         /\ \A e : e.msg # c.msg /\ Split(e, wire[l]) => Split(e, wire'[l])
         /\ \A p \in 1..MsgSize : <<c.msg, p>> \in BytesIn(wire'[l]) <=> p < c.from + n
         /\ Rises(wire'[l])
         /\ (\A b \in BytesIn(wire[l]) : b[1] <= c.msg) /\ Sorted(wire[l]) => Sorted(wire'[l])
    BY <1>5, <1>6, <1>7, <1>15, WriteStream
  <1>17. \A m \in DOMAIN log : log[m] \in Links
    BY ElementOfSeq, LenProperties DEF TypeInv, TypeOK
  <1>18. HomeInv'
    <2>1. ASSUME NEW k \in Links, NEW b \in BytesIn(wire'[k])
          PROVE  b[1] \in DOMAIN log /\ log[b[1]] = k /\ b[2] \in 1..MsgSize
      <3>1. CASE b \in BytesIn(wire[k])
        BY <3>1 DEF StreamInv, HomeInv
      <3>2. CASE b \notin BytesIn(wire[k])
        <4>1. k = l /\ b[1] = c.msg /\ b[2] \in c.from .. c.from + n - 1
          BY <1>16, <2>1, <3>2
        <4>2. b[2] \in 1..MsgSize
          BY <1>7, <4>1, SizeAssumption
        <4> QED
          BY <1>15, <4>1, <4>2
      <3> QED
        BY <3>1, <3>2
    <2>2. ASSUME NEW k \in Links, NEW i \in DOMAIN m_send_buff_list'[k]
          PROVE  /\ m_send_buff_list'[k][i].msg \in DOMAIN log
                 /\ log[m_send_buff_list'[k][i].msg] = k
      <3>1. CASE k = l
        <4>1. i \in DOMAIN x /\ i + d \in DOMAIN list
          BY <1>10, <1>11, <2>2, <3>1
        <4>2. m_send_buff_list'[k][i].msg = list[i + d].msg
          BY <1>11, <1>13, <3>1, <4>1
        <4> QED
          BY <1>2, <3>1, <4>1, <4>2 DEF StreamInv, HomeInv
      <3>2. CASE k # l
        BY <1>11, <2>2, <3>2 DEF StreamInv, HomeInv
      <3> QED
        BY <3>1, <3>2
    <2>3. \A u \in App : Holds(u)' =>
             rest[u].msg \in DOMAIN log /\ log[rest[u].msg] = arg[u]
      BY <1>14 DEF StreamInv, HomeInv
    <2>4. \A m \in DOMAIN log : mi_socket[log[m]] # "new"
      BY DEF StreamInv, HomeInv
    <2> QED
      BY <1>5, <2>1, <2>2, <2>3, <2>4 DEF HomeInv
  <1>19. OneInv'
    <2>1. ASSUME NEW k \in Links, NEW i \in DOMAIN m_send_buff_list'[k],
                 NEW j \in DOMAIN m_send_buff_list'[k],
                 m_send_buff_list'[k][i].msg = m_send_buff_list'[k][j].msg
          PROVE  i = j
      <3>1. CASE k = l
        <4>1. i \in DOMAIN x /\ j \in DOMAIN x /\ i \in Nat /\ j \in Nat
          BY <1>10, <1>11, <2>1, <3>1
        <4>2. list[i + d].msg = list[j + d].msg /\ i + d \in DOMAIN list /\ j + d \in DOMAIN list
          BY <1>10, <1>11, <1>13, <2>1, <3>1, <4>1
        <4>3. i + d = j + d
          BY <1>2, <4>2 DEF StreamInv, OneInv
        <4> QED
          BY <4>1, <4>3
      <3>2. CASE k # l
        BY <1>11, <2>1, <3>2 DEF StreamInv, OneInv
      <3> QED
        BY <3>1, <3>2
    <2>2. \A u, v \in App : Holds(u)' /\ Holds(v)' /\ rest[u].msg = rest[v].msg => u = v
      BY <1>14 DEF StreamInv, OneInv
    <2>3. ASSUME NEW u \in App, NEW k \in Links, NEW i \in DOMAIN m_send_buff_list'[k], Holds(u)'
          PROVE  m_send_buff_list'[k][i].msg # rest[u].msg
      <3>1. CASE k = l
        <4>1. i \in DOMAIN x /\ i + d \in DOMAIN list
          BY <1>10, <1>11, <2>3, <3>1
        <4>2. m_send_buff_list'[k][i].msg = list[i + d].msg
          BY <1>11, <1>13, <3>1, <4>1
        <4> QED
          BY <1>2, <1>14, <2>3, <4>1, <4>2 DEF StreamInv, OneInv
      <3>2. CASE k # l
        BY <1>11, <1>14, <2>3, <3>2 DEF StreamInv, OneInv
      <3> QED
        BY <3>1, <3>2
    <2> QED
      BY <1>5, <2>1, <2>2, <2>3 DEF OneInv
  <1>20. SplitInv'
    <2>1. ASSUME NEW k \in Links, NEW i \in DOMAIN m_send_buff_list'[k]
          PROVE  Split(m_send_buff_list'[k][i], wire'[k])
      <3>1. CASE k = l
        <4>1. i \in DOMAIN x /\ i + d \in DOMAIN list /\ m_send_buff_list'[k][i] = x[i]
          BY <1>10, <1>11, <2>1, <3>1
        <4>2. CASE i + d = 1
          <5>1. x[i] = After(c, n)
            BY <1>10, <4>1, <4>2
          <5>2. Split(After(c, n), wire'[l])
            BY <1>12, <1>16 DEF Split
          <5> QED
            BY <3>1, <4>1, <5>1, <5>2
        <4>3. CASE i + d # 1
          <5>1. x[i] = list[i + d] /\ list[i + d].msg # c.msg
            BY <1>10, <1>15, <4>1, <4>3
          <5>2. Split(list[i + d], wire[l])
            BY <1>2, <4>1 DEF StreamInv, SplitInv
          <5> QED
            BY <1>16, <3>1, <4>1, <5>1, <5>2
        <4> QED
          BY <4>2, <4>3
      <3>2. CASE k # l
        BY <1>11, <1>16, <2>1, <3>2 DEF StreamInv, SplitInv
      <3> QED
        BY <3>1, <3>2
    <2>2. ASSUME NEW u \in App, Holds(u)' PROVE Split(rest[u], wire'[arg[u]])
      <3>1. Split(rest[u], wire[arg[u]]) /\ rest[u].msg # c.msg /\ arg[u] \in Links
        BY <1>14, <1>15, <2>2 DEF StreamInv, SplitInv, TypeInv, ArgInv, Busy, Holds
      <3> QED
        BY <1>16, <3>1
    <2>3. \A k \in Links : Rises(wire'[k])
      BY <1>16 DEF StreamInv, SplitInv
    <2> QED
      BY <1>5, <2>1, <2>2, <2>3 DEF SplitInv
  <1>21. KeptInv'
    <2> SUFFICES ASSUME NEW m \in DOMAIN log
                 PROVE  \/ \E i \in DOMAIN m_send_buff_list'[log[m]] :
                              m_send_buff_list'[log[m]][i].msg = m
                        \/ \E u \in App : Holds(u)' /\ rest[u].msg = m
                        \/ \A p \in 1..MsgSize : <<m, p>> \in BytesIn(wire'[log[m]])
                        \/ Dropped(log[m])'
      BY <1>5 DEF KeptInv
    <2>1. PICK k \in Links : k = log[m]
      BY <1>17
    <2>2. Dropped(k) => Dropped(log[m])'
      BY <1>5, <2>1 DEF Dropped
    <2>3. \A b \in BytesIn(wire[k]) : b \in BytesIn(wire'[k])
      BY <1>16
    <2>4. ASSUME NEW j \in DOMAIN m_send_buff_list[k], m_send_buff_list[k][j].msg = m
          PROVE  \/ \E i \in DOMAIN m_send_buff_list'[k] : m_send_buff_list'[k][i].msg = m
                 \/ \A p \in 1..MsgSize : <<m, p>> \in BytesIn(wire'[k])
      <3>1. CASE k # l
        BY <1>11, <2>4, <3>1
      <3>2. CASE k = l /\ j = 1 /\ d = 1
        <4>1. \A p \in 1..MsgSize : p < c.from + n
          BY <1>7, <1>10, <3>2, SizeAssumption
        <4>2. c.msg = m
          BY <1>2, <1>10, <2>4, <3>2
        <4> QED
          BY <1>16, <3>2, <4>1, <4>2
      <3>3. CASE k = l /\ (j # 1 \/ d = 0)
        <4>1. j \in DOMAIN list /\ j \in Nat /\ j - d \in DOMAIN x /\ (j - d) + d = j
          BY <1>2, <1>10, <2>4, <3>3
        <4>2. x[j - d].msg = m
          BY <1>2, <1>13, <2>4, <3>3, <4>1
        <4> QED
          BY <1>11, <3>3, <4>1, <4>2
      <3> QED
        BY <3>1, <3>2, <3>3
    <2> QED
      BY <1>14, <2>1, <2>2, <2>3, <2>4 DEF StreamInv, KeptInv
  <1>22. OrderInv'
    <2> SUFFICES ASSUME NEW k \in Links, k \notin overtaken
                 PROVE  /\ Sorted(wire'[k])
                        /\ \A i, j \in DOMAIN m_send_buff_list'[k] :
                              i < j => m_send_buff_list'[k][i].msg <= m_send_buff_list'[k][j].msg
                        /\ \A b \in BytesIn(wire'[k]), i \in DOMAIN m_send_buff_list'[k] :
                              b[1] <= m_send_buff_list'[k][i].msg
                        /\ \A u \in App : Holds(u)' /\ arg[u] = k =>
                              /\ \A b \in BytesIn(wire'[k]) : b[1] <= rest[u].msg
                              /\ \A i \in DOMAIN m_send_buff_list'[k] :
                                    m_send_buff_list'[k][i].msg <= rest[u].msg
      BY <1>5 DEF OrderInv
    <2>1. CASE k # l
      BY <1>11, <1>14, <1>16, <2>1 DEF StreamInv, OrderInv
    <2>2. CASE k = l
      <3>1. /\ Sorted(wire[l])
            /\ \A i, j \in DOMAIN list : i < j => list[i].msg <= list[j].msg
            /\ \A b \in BytesIn(wire[l]), i \in DOMAIN list : b[1] <= list[i].msg
            /\ \A u \in App : Holds(u) /\ arg[u] = l =>
                  /\ \A b \in BytesIn(wire[l]) : b[1] <= rest[u].msg
                  /\ \A i \in DOMAIN list : list[i].msg <= rest[u].msg
        BY <1>2, <2>2 DEF StreamInv, OrderInv
      <3>2. Sorted(wire'[l])
        BY <1>10, <1>16, <3>1
      <3>3. ASSUME NEW i \in DOMAIN x, NEW j \in DOMAIN x, i < j
            PROVE  x[i].msg <= x[j].msg
        <4>1. i + d < j + d /\ i + d \in DOMAIN list /\ j + d \in DOMAIN list
          BY <1>10, <3>3
        <4> QED
          BY <1>13, <3>1, <4>1
      <3>4. ASSUME NEW j \in DOMAIN list PROVE c.msg <= list[j].msg
        <4>1. CASE j = 1
          BY <1>6, <1>10, <4>1 DEF Chunk
        <4>2. CASE j # 1
          <5>1. 1 < j
            BY <1>8, <4>2
          <5> QED
            BY <1>10, <3>1, <5>1
        <4> QED
          BY <4>1, <4>2
      <3>5. ASSUME NEW b \in BytesIn(wire'[l])
            PROVE  \A j \in DOMAIN list : b[1] <= list[j].msg
        <4>1. CASE b \in BytesIn(wire[l])
          BY <3>1, <4>1
        <4>2. CASE b \notin BytesIn(wire[l])
          BY <1>16, <3>4, <4>2
        <4> QED
          BY <4>1, <4>2
      <3>6. \A b \in BytesIn(wire'[l]), i \in DOMAIN x : b[1] <= x[i].msg
        BY <1>10, <1>13, <3>5
      <3>7. ASSUME NEW u \in App, Holds(u)', arg[u] = l
            PROVE  /\ \A b \in BytesIn(wire'[l]) : b[1] <= rest[u].msg
                   /\ \A i \in DOMAIN x : x[i].msg <= rest[u].msg
        <4>1. /\ \A b \in BytesIn(wire[l]) : b[1] <= rest[u].msg
              /\ \A i \in DOMAIN list : list[i].msg <= rest[u].msg
          BY <1>14, <3>1, <3>7
        <4>2. c.msg <= rest[u].msg
          BY <1>10, <4>1
        <4>3. ASSUME NEW b \in BytesIn(wire'[l]) PROVE b[1] <= rest[u].msg
          <5>1. b \in BytesIn(wire[l]) \/ b[1] = c.msg
            BY <1>16
          <5> QED
            BY <4>1, <4>2, <5>1
        <4> QED
          BY <1>10, <1>13, <4>1, <4>3
      <3> QED
        BY <1>11, <2>2, <3>2, <3>3, <3>6, <3>7
    <2> QED
      BY <2>1, <2>2
  <1> QED
    BY <1>18, <1>19, <1>20, <1>21, <1>22 DEF StreamInv

LEMMA StreamStep == TypeInv /\ TableInv /\ StreamInv /\ [Next]_vars => StreamInv'
  BY OthersAreStill, StreamKept, SendWriteStream, SendPushStream, DelSendBuffStream,
     FlushWriteStream

(* Whatever the writes of link_send and do_send_buff send short, for any   *)
(* number of links, threads and messages, any message size and any kernel  *)
(* buffer: each message of a link that is not being taken down is on the   *)
(* wire up to some byte and from there on in one chunk, and the stream of  *)
(* a link on which no send overtook another is in the order of the sends.  *)
THEOREM StreamIsKept == Spec => []StreamIsIntact
  <1>1. Init => TypeInv /\ TableInv /\ StreamInv
    BY TypeInit, TableInit, StreamInit
  <1>2. TypeInv /\ TableInv /\ StreamInv /\ [Next]_vars => (TypeInv /\ TableInv /\ StreamInv)'
    BY TypeStep, TableStep, StreamStep
  <1>3. TypeInv /\ TableInv /\ StreamInv => StreamIsIntact
    BY StreamFollows
  <1> QED
    BY <1>1, <1>2, <1>3, PTL DEF Spec
=============================================================================
