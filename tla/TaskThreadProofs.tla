-------------------------- MODULE TaskThreadProofs --------------------------
(***************************************************************************)
(* Proofs about TaskThread, for any number of pool threads, callers, tasks *)
(* and timers: no wakeup is lost, no task runs twice, and timers fire when *)
(* they are due, whatever the clock does.                                  *)
(***************************************************************************)
EXTENDS TaskThread, FiniteSetTheorems, WellFoundedInduction, SequenceTheorems, TLAPS

-----------------------------------------------------------------------------
(* The inductive invariant.                                                *)

(* Only end() goes on to broadcast and join, after it has set the flag.    *)
ExitInv == \A c \in Callers : pc[c] \in {"broadcast", "join", "ended"} => m_exit_flag

(* A task is in the list at most once, and only before it is begun.        *)
TaskInv ==
    /\ \A j, k \in 1 .. Len(m_task_queue) : m_task_queue[j] = m_task_queue[k] => j = k
    /\ \A k \in 1 .. Len(m_task_queue) :
          m_task_queue[k] \in posted /\ begun[m_task_queue[k]] = 0
    /\ \A x \in Tasks \ posted : begun[x] = 0
    /\ \A x \in posted : begun[x] = 1 \/ \E k \in 1 .. Len(m_task_queue) : m_task_queue[k] = x

(* There is one timer for each id that is armed, its period began a whole  *)
(* number of intervals after it was set, and that was not in the future.   *)
TimerInv ==
    /\ \A x, y \in ms_timers : x.id = y.id => x = y
    /\ \A i \in TimerIds : i \in armed <=> \E x \in ms_timers : x.id = i
    /\ \A i \in TimerIds : now <= latest[i]
    /\ \A x \in ms_timers : /\ x.start = fired[x.id].since + fired[x.id].times * x.interval
                            /\ x.start <= latest[x.id]

(* When nothing is under way one sleeper wakes in time for every timer:    *)
(* the one that was last to fall asleep has seen them all.                 *)
InTime(t, x) == deadline[t] <= End(x) + back[t] \/ deadline[t] <= latest[x.id]
CoverInv ==
    Sleepers = Pool /\ Signals = {} => \E t \in Pool : \A x \in ms_timers : InTime(t, x)

(* One thread at a time keeps the mutex from the test of the list to the   *)
(* wait, so the list stays empty, and what the thread has read of the      *)
(* clock was shown after the last timer was set.                           *)
HoldInv ==
    /\ \A s, t \in Holding : s = t
    /\ Holding # {} => m_task_queue = <<>>
    /\ \A t \in Pool : pc[t] = "reading" => \A i \in TimerIds : st_now <= latest[i]

IInv == TypeOK /\ ExitInv /\ TaskInv /\ TimerInv /\ HoldInv /\ CoverInv /\ NoTaskForgotten

-----------------------------------------------------------------------------
(* The steps of a pool thread, by what it does with the mutex.             *)

OnFeet == {"begin", "task", "timer", "woken"}
Leaves(t) ==
    /\ Holding = {} /\ pc[t] \in OnFeet /\ m_exit_flag /\ Leave(t)
    /\ UNCHANGED <<clockVars, m_exit_flag>>
GoesToWait(t) ==
    /\ Holding = {} /\ pc[t] \in OnFeet /\ m_task_queue = <<>> /\ Sleep(t)
    /\ UNCHANGED <<clockVars, m_exit_flag>>
FiresTimer(t) ==
    /\ Holding = {} /\ pc[t] \in OnFeet \ {"timer"} /\ IsDue /\ TakeTimer(t)
    /\ UNCHANGED <<clockVars, m_exit_flag>>
RunsTask(t) ==
    /\ Holding = {} /\ pc[t] \in OnFeet /\ m_task_queue # <<>> /\ TakeTask(t)
    /\ UNCHANGED <<clockVars, m_exit_flag>>

(* The code between two points without the mutex does one of four things.  *)
LEMMA AwakeIs ==
    ASSUME NEW t \in Pool, Awake(t)
    PROVE  Leaves(t) \/ GoesToWait(t) \/ FiresTimer(t) \/ RunsTask(t)
  BY DEF Awake, LoopTop, TimerTaskOrSleep, TaskOrSleep, Leaves, GoesToWait, FiresTimer,
         RunsTask, OnFeet


(* The order of the timers has a least element because that of the numbers *)
(* does; the library's well-founded ordering of finite sets gives it.      *)
LEMMA NatMinimum ==
    ASSUME NEW S \in SUBSET Nat, S # {}
    PROVE  \E n \in S : \A m \in S : n <= m
  <1> DEFINE Below == {0 .. (n - 1) : n \in S}
  <1>1. Below \subseteq FiniteSubsetsOf(Nat)
    <2> SUFFICES ASSUME NEW n \in S PROVE 0 .. (n - 1) \in FiniteSubsetsOf(Nat)
      OBVIOUS
    <2> QED
      BY FS_Interval, n - 1 \in Int, 0 \in Int DEF FiniteSubsetsOf
  <1>2. Below # {}
    OBVIOUS
  <1>3. PICK T \in Below : \A U \in Below : <<U, T>> \notin StrictSubsetOrdering(Nat)
    <2> HIDE DEF Below
    <2> QED
      BY <1>1, <1>2, WFMin, FS_StrictSubsetOrderingWellFounded
  <1>4. PICK n \in S : T = 0 .. (n - 1)
    OBVIOUS
  <1>5. ASSUME NEW m \in S, m < n PROVE FALSE
    <2>1. 0 .. (m - 1) \subseteq 0 .. (n - 1) /\ 0 .. (m - 1) \in SUBSET Nat /\ 0 .. (n - 1) \in SUBSET Nat
      BY <1>5
    <2>2. m \in 0 .. (n - 1) /\ m \notin 0 .. (m - 1)
      BY <1>5
    <2>3. <<0 .. (m - 1), 0 .. (n - 1)>> \in StrictSubsetOrdering(Nat)
      BY <2>1, <2>2 DEF StrictSubsetOrdering
    <2> QED
      BY <2>3, <1>3, <1>4
  <1> QED
    BY <1>5

(* A timer's fields are numbers.                                           *)
LEMMA TimerFields ==
    ASSUME TypeOK, ConstantsOK, NEW x \in ms_timers
    PROVE  /\ x \in Timer /\ x.id \in TimerIds /\ x.start \in Nat /\ x.interval \in Elapse
           /\ x.id \in Nat /\ x.interval \in Nat \ {0} /\ End(x) \in Nat
  <1>1. x \in Timer /\ x.id \in TimerIds /\ x.start \in Nat /\ x.interval \in Elapse
    BY DEF TypeOK, Timer
  <1>2. TimerIds \subseteq Nat /\ Elapse \subseteq Nat \ {0}
    BY DEF ConstantsOK
  <1>3. x.id \in Nat /\ x.interval \in Nat \ {0}
    BY <1>1, <1>2
  <1> QED
    BY <1>1, <1>3 DEF End

(* The set's begin() is a timer, and none is due before it.                *)
LEMMA FirstIsFirst ==
    ASSUME TypeOK, TimerInv, ConstantsOK, ms_timers # {}
    PROVE  First \in ms_timers /\ \A x \in ms_timers : End(First) <= End(x)
  <1>1. \A x \in ms_timers : x.id \in Nat /\ End(x) \in Nat
    BY TimerFields
  <1>2. \A x, y \in ms_timers : x.id = y.id => x = y
    BY DEF TimerInv
  <1>3. PICK e \in {End(x) : x \in ms_timers} : \A d \in {End(x) : x \in ms_timers} : e <= d
    <2>1. {End(x) : x \in ms_timers} \in SUBSET Nat
      BY <1>1
    <2> QED
      BY <2>1, NatMinimum
  <1> DEFINE Soonest == {x \in ms_timers : End(x) = e}
  <1>4. PICK i \in {x.id : x \in Soonest} : \A j \in {x.id : x \in Soonest} : i <= j
    <2>1. {x.id : x \in Soonest} \in SUBSET Nat
      BY <1>1
    <2>2. {x.id : x \in Soonest} # {}
      BY <1>3
    <2> QED
      BY <2>1, <2>2, NatMinimum
  <1>5. PICK x \in Soonest : x.id = i
    BY <1>4
  <1>6. \A y \in ms_timers \ {x} : Before(x, y)
    <2> SUFFICES ASSUME NEW y \in ms_timers \ {x} PROVE Before(x, y)
      OBVIOUS
    <2>1. e <= End(y) /\ End(x) = e /\ e \in Nat /\ End(y) \in Nat
      BY <1>1, <1>3, <1>5
    <2>2. End(y) = e => i <= y.id
      BY <1>4
    <2>3. i # y.id /\ i \in Nat /\ y.id \in Nat /\ x.id = i
      BY <1>1, <1>2, <1>5
    <2> QED
      BY <2>1, <2>2, <2>3 DEF Before
  <1>7. First \in ms_timers /\ \A y \in ms_timers \ {First} : Before(First, y)
    BY <1>5, <1>6 DEF First
  <1> QED
    BY <1>1, <1>7 DEF Before

(* There is one timer of an id, so taking one out takes out all of them.   *)
LEMMA EraseIs ==
    ASSUME TypeOK, TimerInv, NEW i \in TimerIds
    PROVE  Erase(i) = {x \in ms_timers : x.id # i}
  <1> DEFINE same == {x \in ms_timers : x.id = i}
  <1>1. CASE same = {}
    BY <1>1 DEF Erase
  <1>2. CASE same # {}
    <2>1. PICK x : same = {x}
      BY <1>2 DEF TimerInv
    <2>2. (CHOOSE y \in same : \A z \in same \ {y} : Before(y, z)) = x
      BY <2>1
    <2> QED
      BY <1>2, <2>1, <2>2 DEF Erase
  <1> QED
    BY <1>1, <1>2

(* The wait ends when the first timer is due.                              *)
LEMMA WaitIs ==
    ASSUME TypeOK, TimerInv, ConstantsOK
    PROVE  /\ WaitTime \in Nat
           /\ \A x \in ms_timers : now + WaitTime <= End(x) \/ WaitTime = 0
  <1>1. now \in Nat /\ Hour \in Nat
    BY DEF TypeOK, ConstantsOK
  <1>2. CASE ms_timers = {}
    BY <1>1, <1>2 DEF WaitTime
  <1>3. CASE ms_timers # {}
    <2>1. End(First) \in Nat /\ \A x \in ms_timers : End(x) \in Nat /\ End(First) <= End(x)
      BY <1>3, FirstIsFirst, TimerFields
    <2> QED
      BY <1>1, <1>3, <2>1 DEF WaitTime
  <1> QED
    BY <1>2, <1>3

(* What posting does to the list, wherever the task is put.                *)
LEMMA PostIs ==
    ASSUME TypeOK, NEW c \in Callers, NEW x \in Tasks, Post(c, x)
    PROVE  /\ m_task_queue' \in Seq(Tasks) /\ Len(m_task_queue') = Len(m_task_queue) + 1
           /\ \E at \in 1 .. Len(m_task_queue') :
                /\ m_task_queue'[at] = x
                /\ \A k \in 1 .. Len(m_task_queue) :
                      m_task_queue'[IF k < at THEN k ELSE k + 1] = m_task_queue[k]
  <1>1. m_task_queue \in Seq(Tasks) /\ Len(m_task_queue) \in Nat
    BY LenProperties DEF TypeOK
  <1>2. CASE m_task_queue' = Append(m_task_queue, x)
    <2>1. /\ m_task_queue' \in Seq(Tasks) /\ Len(m_task_queue') = Len(m_task_queue) + 1
          /\ \A k \in 1 .. Len(m_task_queue) : m_task_queue'[k] = m_task_queue[k]
          /\ m_task_queue'[Len(m_task_queue) + 1] = x
      BY <1>1, <1>2, AppendProperties
    <2> QED
      BY <1>1, <2>1
  <1>3. CASE m_task_queue' = <<x>> \o m_task_queue
    <2>1. <<x>> \in Seq(Tasks) /\ Len(<<x>>) = 1
      OBVIOUS
    <2>2. /\ m_task_queue' \in Seq(Tasks) /\ Len(m_task_queue') = Len(m_task_queue) + 1
          /\ \A k \in 1 .. Len(m_task_queue) + 1 :
                m_task_queue'[k] = IF k <= 1 THEN <<x>>[k] ELSE m_task_queue[k - 1]
      BY <1>1, <1>3, <2>1, ConcatProperties
    <2>3. \A k \in 1 .. Len(m_task_queue) : m_task_queue'[k + 1] = m_task_queue[k]
      BY <1>1, <2>2
    <2>4. m_task_queue'[1] = x
      BY <1>1, <2>2
    <2>5. 1 \in 1 .. Len(m_task_queue') /\ \A k \in 1 .. Len(m_task_queue) : ~(k < 1)
      BY <1>1, <2>2
    <2> QED
      BY <2>2, <2>3, <2>4, <2>5
  <1> QED
    BY <1>2, <1>3 DEF Post

-----------------------------------------------------------------------------
(* One lemma per part of the invariant, one step per action.               *)

(* Types, and the flag's order with end().                                 *)
LEMMA TypeStep ==
    ASSUME ConstantsOK, TypeOK, ExitInv, TimerInv, [Next]_vars
    PROVE  (TypeOK /\ ExitInv)'
  <1> USE DEF ConstantsOK, TypeOK, ExitInv, Goto, PoolPC, CallerPC, waitVars
  <1>1. ASSUME NEW t \in Pool, Leaves(t) PROVE (TypeOK /\ ExitInv)'
    BY <1>1 DEF Leaves, Leave, OnFeet, queueVars, timerVars, clockVars
  <1>2. ASSUME NEW t \in Pool, GoesToWait(t) PROVE (TypeOK /\ ExitInv)'
    BY <1>2, WaitIs DEF GoesToWait, Sleep, OnFeet, queueVars, timerVars, clockVars
  <1>3. ASSUME NEW t \in Pool, FiresTimer(t) PROVE (TypeOK /\ ExitInv)'
    <2>1. First \in ms_timers
      BY <1>3, FirstIsFirst DEF FiresTimer, IsDue
    <2>2. First.id \in TimerIds /\ First.start \in Nat /\ First.interval \in Nat /\ First \in Timer
      BY <2>1, TimerFields
    <2>3. Rearmed(First) \in Timer
      <3> HIDE DEF TypeOK, ConstantsOK, ExitInv
      <3>1. First.start + First.interval \in Nat
        BY <2>2
      <3> QED
        BY <2>2, <3>1 DEF Timer, Rearmed
    <2>4. fired' \in [TimerIds -> [times : Nat, since : Nat]]
      <3> DEFINE f == fired[First.id]
      <3>1. f \in [times : Nat, since : Nat] /\ fired' = [fired EXCEPT ![First.id] = [f EXCEPT !.times = @ + 1]]
        BY <1>3, <2>2 DEF FiresTimer, TakeTimer
      <3>2. \A g \in [times : Nat, since : Nat] :
                [g EXCEPT !.times = @ + 1] \in [times : Nat, since : Nat]
        <4> HIDE DEF TypeOK, ConstantsOK, ExitInv
        <4> QED
          OBVIOUS
      <3> QED
        BY <3>1, <3>2
    <2> QED
      BY <1>3, <2>1, <2>3, <2>4 DEF FiresTimer, TakeTimer, OnFeet, queueVars, clockVars
  <1>4. ASSUME NEW t \in Pool, RunsTask(t) PROVE (TypeOK /\ ExitInv)'
    <2>1. m_task_queue # <<>>
      BY <1>4 DEF RunsTask
    <2>2. Tail(m_task_queue) \in Seq(Tasks) /\ Head(m_task_queue) \in Tasks
      BY <2>1, HeadTailProperties
    <2>3. begun' \in [Tasks -> Nat] /\ m_task_queue' \in Seq(Tasks)
      BY <1>4, <2>2 DEF RunsTask, TakeTask
    <2> QED
      BY <1>4, <2>3 DEF RunsTask, TakeTask, OnFeet, timerVars, clockVars
  <1>5. ASSUME NEW t \in Pool, WakeUp(t) PROVE (TypeOK /\ ExitInv)'
    BY <1>5 DEF WakeUp, queueVars, timerVars, clockVars
  <1>6. ASSUME NEW c \in Callers, Signal(c) PROVE (TypeOK /\ ExitInv)'
    <2>1. CASE \A t \in Pool : pc[t] # "asleep"
      BY <1>6, <2>1 DEF Signal, queueVars, timerVars, clockVars
    <2>2. ASSUME NEW t \in Pool, pc' = [pc EXCEPT ![c] = "idle", ![t] = "woken"],
                 deadline' = [deadline EXCEPT ![t] = 0], back' = [back EXCEPT ![t] = 0]
          PROVE  (TypeOK /\ ExitInv)'
      BY <1>6, <2>2 DEF Signal, queueVars, timerVars, clockVars
    <2> QED
      BY <1>6, <2>1, <2>2 DEF Signal
  <1>7. ASSUME NEW c \in Callers, Broadcast(c) PROVE (TypeOK /\ ExitInv)'
    BY <1>7 DEF Broadcast, queueVars, timerVars, clockVars
  <1>8. ASSUME NEW c \in Callers, Joined(c) PROVE (TypeOK /\ ExitInv)'
    BY <1>8 DEF Joined, queueVars, timerVars, clockVars
  <1>9. ASSUME NEW c \in Callers, NotifyExit(c) PROVE (TypeOK /\ ExitInv)'
    BY <1>9 DEF NotifyExit, MayCall, queueVars, timerVars, clockVars
  <1>10. ASSUME NEW c \in Callers, NEW x \in Tasks, Post(c, x)
         PROVE  (TypeOK /\ ExitInv)'
    BY <1>10, PostIs DEF Post, MayCall, timerVars, clockVars
  <1>11. ASSUME NEW c \in Callers, NEW i \in TimerIds, KillTimer(c, i)
         PROVE  (TypeOK /\ ExitInv)'
    BY <1>11, EraseIs DEF KillTimer, MayCall, queueVars, clockVars
  <1>12. ASSUME NEW c \in Callers, NEW i \in TimerIds, NEW e \in Elapse, SetTimer(c, i,
                e)
         PROVE  (TypeOK /\ ExitInv)'
    <2>1. [id |-> i, start |-> now, interval |-> e] \in Timer
      BY DEF Timer
    <2> QED
      BY <1>12, <2>1, EraseIs DEF SetTimer, MayCall, queueVars
  <1>13. ASSUME Clock PROVE (TypeOK /\ ExitInv)'
    <2>1. now' \in Nat
      BY <1>13 DEF Clock
    <2> QED
      BY <1>13, <2>1 DEF Clock, queueVars, timerVars
  <1>14. ASSUME UNCHANGED vars PROVE (TypeOK /\ ExitInv)'
    BY <1>14 DEF vars, queueVars, timerVars, clockVars
  <1>15. ASSUME NEW t \in Pool, ReadNow(t) PROVE (TypeOK /\ ExitInv)'
    BY <1>15 DEF ReadNow, queueVars, timerVars, clockVars
  <1>16. ASSUME NEW t \in Pool, TimedWait(t) PROVE (TypeOK /\ ExitInv)'
    <2>1. /\ deadline' = [deadline EXCEPT ![t] = st_now + WaitTime] /\ st_now' = 0
          /\ st_now + WaitTime \in Nat
      BY <1>16, WaitIs DEF TimedWait
    <2>2. back' \in [Pool -> Nat]
      <3>1. (IF now < st_now THEN st_now - now ELSE 0) \in Nat
        OBVIOUS
      <3> QED
        BY <1>16, <3>1 DEF TimedWait
    <2> QED
      BY <1>16, <2>1, <2>2 DEF TimedWait, queueVars, timerVars, clockVars
  <1> QED
    BY AwakeIs, <1>1, <1>2, <1>3, <1>4, <1>5, <1>6, <1>7, <1>8, <1>9, <1>10, <1>11,
       <1>12, <1>13, <1>14, <1>15, <1>16
    DEF Next, Return, ThreadStep

(* No task is in the list twice, none in it has been begun.                *)
LEMMA TaskStep ==
    ASSUME ConstantsOK, TypeOK, TaskInv, [Next]_vars
    PROVE  TaskInv'
  <1> USE DEF TaskInv
  <1>1. ASSUME NEW t \in Pool, Leaves(t) PROVE TaskInv'
    BY <1>1 DEF Leaves, Leave, OnFeet, queueVars, timerVars, clockVars
  <1>2. ASSUME NEW t \in Pool, GoesToWait(t) PROVE TaskInv'
    BY <1>2 DEF GoesToWait, Sleep, OnFeet, queueVars, timerVars, clockVars
  <1>3. ASSUME NEW t \in Pool, FiresTimer(t) PROVE TaskInv'
    BY <1>3 DEF FiresTimer, TakeTimer, OnFeet, queueVars, clockVars
  <1>4. ASSUME NEW t \in Pool, RunsTask(t) PROVE TaskInv'
    <2> DEFINE q == m_task_queue
    <2>1. q \in Seq(Tasks) /\ q # <<>> /\ q' = Tail(q) /\ posted' = posted /\ posted \subseteq Tasks
      BY <1>4 DEF RunsTask, TakeTask, TypeOK
    <2>2. /\ Len(q) \in Nat /\ q[1] \in Tasks /\ q[1] = Head(q) /\ 1 \in 1 .. Len(q)
          /\ Len(q') = Len(q) - 1
          /\ \A k \in 1 .. Len(q) - 1 : q'[k] = q[k + 1]
      BY <2>1, HeadTailProperties, LenProperties, EmptySeq
    <2>4. begun \in [Tasks -> Nat] /\ begun[q[1]] = 0
      BY <2>2 DEF TypeOK
    <2>3. begun' = [begun EXCEPT ![q[1]] = 1]
      <3>1. begun' = [begun EXCEPT ![q[1]] = begun[q[1]] + 1]
        BY <1>4, <2>2 DEF RunsTask, TakeTask
      <3> QED
        BY <2>4, <3>1
    <2>5. \A k \in 1 .. Len(q') : k + 1 \in 1 .. Len(q) /\ k + 1 # 1 /\ q'[k] = q[k + 1]
      BY <2>2
    <2>6. ASSUME NEW j \in 1 .. Len(q'), NEW k \in 1 .. Len(q'), q'[j] = q'[k]
          PROVE  j = k
      <3>1. q[j + 1] = q[k + 1] /\ j + 1 \in 1 .. Len(q) /\ k + 1 \in 1 .. Len(q)
        BY <2>5, <2>6
      <3> QED
        BY <3>1
    <2>7. ASSUME NEW k \in 1 .. Len(q') PROVE q'[k] \in posted' /\ begun'[q'[k]] = 0
      <3>1. q[k + 1] \in posted /\ begun[q[k + 1]] = 0 /\ q[k + 1] # q[1]
        BY <2>2, <2>5
      <3> QED
        BY <2>1, <2>3, <2>4, <2>5, <3>1
    <2>8. \A x \in Tasks \ posted' : begun'[x] = 0
      BY <2>1, <2>2, <2>3, <2>4
    <2>9. ASSUME NEW x \in posted'
          PROVE  begun'[x] = 1 \/ \E k \in 1 .. Len(q') : q'[k] = x
      <3>1. CASE x = q[1] \/ begun[x] = 1
        BY <2>1, <2>2, <2>3, <2>4, <3>1
      <3>2. ASSUME x # q[1], NEW k \in 1 .. Len(q), q[k] = x
            PROVE  \E j \in 1 .. Len(q') : q'[j] = x
        <4>1. k - 1 \in 1 .. Len(q') /\ q'[k - 1] = q[k]
          BY <2>2, <3>2
        <4> QED
          BY <3>2, <4>1
      <3> QED
        BY <2>1, <3>1, <3>2
    <2> QED
      BY <2>6, <2>7, <2>8, <2>9
  <1>5. ASSUME NEW t \in Pool, WakeUp(t) PROVE TaskInv'
    BY <1>5 DEF WakeUp, queueVars, timerVars, clockVars
  <1>6. ASSUME NEW c \in Callers, Signal(c) PROVE TaskInv'
    BY <1>6 DEF Signal, queueVars, timerVars, clockVars
  <1>7. ASSUME NEW c \in Callers, Broadcast(c) PROVE TaskInv'
    BY <1>7 DEF Broadcast, queueVars, timerVars, clockVars
  <1>8. ASSUME NEW c \in Callers, Joined(c) PROVE TaskInv'
    BY <1>8 DEF Joined, queueVars, timerVars, clockVars
  <1>9. ASSUME NEW c \in Callers, NotifyExit(c) PROVE TaskInv'
    BY <1>9 DEF NotifyExit, MayCall, queueVars, timerVars, clockVars
  <1>10. ASSUME NEW c \in Callers, NEW x \in Tasks, Post(c, x) PROVE TaskInv'
    <2> DEFINE q == m_task_queue
    <2>1. PICK at \in 1 .. Len(q') :
            /\ q'[at] = x
            /\ \A k \in 1 .. Len(q) : q'[IF k < at THEN k ELSE k + 1] = q[k]
      BY <1>10, PostIs
    <2>2. Len(q) \in Nat /\ Len(q') = Len(q) + 1
      BY <1>10, PostIs, LenProperties DEF TypeOK
    <2>3. x \notin posted /\ posted' = posted \cup {x} /\ begun' = begun /\ begun[x] = 0
      BY <1>10 DEF Post
    <2> DEFINE from(k) == IF k < at THEN k ELSE k - 1
    <2>4. ASSUME NEW k \in 1 .. Len(q'), k # at
          PROVE  from(k) \in 1 .. Len(q) /\ q'[k] = q[from(k)]
      <3>1. from(k) \in 1 .. Len(q) /\ (IF from(k) < at THEN from(k) ELSE from(k) + 1) = k
        BY <2>2, <2>4
      <3> QED
        BY <2>1, <3>1
    <2>5. \A j, k \in 1 .. Len(q') : j # at /\ k # at /\ from(j) = from(k) => j = k
      BY <2>2
    <2>6. \A k \in 1 .. Len(q') : k # at => q'[k] \in posted /\ q'[k] # x /\ begun[q'[k]] = 0
      <3> HIDE DEF from
      <3> QED
        BY <2>3, <2>4
    <2>7. ASSUME NEW j \in 1 .. Len(q'), NEW k \in 1 .. Len(q'), q'[j] = q'[k]
          PROVE  j = k
      <3> HIDE DEF from
      <3>1. CASE j = at \/ k = at
        BY <2>1, <2>6, <2>7, <3>1
      <3>2. CASE j # at /\ k # at
        <4>1. q[from(j)] = q[from(k)]
          BY <2>4, <2>7, <3>2
        <4>2. from(j) = from(k)
          BY <2>4, <3>2, <4>1
        <4> QED
          BY <2>5, <3>2, <4>2
      <3> QED
        BY <3>1, <3>2
    <2>8. \A k \in 1 .. Len(q') : q'[k] \in posted' /\ begun'[q'[k]] = 0
      BY <2>1, <2>3, <2>6
    <2>9. ASSUME NEW k \in 1 .. Len(q) PROVE \E j \in 1 .. Len(q') : q'[j] = q[k]
      <3>1. (IF k < at THEN k ELSE k + 1) \in 1 .. Len(q')
        BY <2>2
      <3> QED
        BY <2>1, <3>1
    <2>10. \A y \in posted' : begun'[y] = 1 \/ \E k \in 1 .. Len(q') : q'[k] = y
      <3> SUFFICES ASSUME NEW y \in posted', begun'[y] # 1
                   PROVE  \E k \in 1 .. Len(q') : q'[k] = y
        OBVIOUS
      <3>1. CASE y = x
        BY <2>1, <3>1
      <3>2. CASE y # x
        <4>1. PICK k \in 1 .. Len(q) : q[k] = y
          BY <2>3, <3>2
        <4> QED
          BY <2>9, <4>1
      <3> QED
        BY <3>1, <3>2
    <2> QED
      BY <2>3, <2>7, <2>8, <2>10
  <1>11. ASSUME NEW c \in Callers, NEW i \in TimerIds, KillTimer(c, i) PROVE TaskInv'
    BY <1>11 DEF KillTimer, MayCall, queueVars, clockVars
  <1>12. ASSUME NEW c \in Callers, NEW i \in TimerIds, NEW e \in Elapse, SetTimer(c, i,
                e)
         PROVE  TaskInv'
    BY <1>12 DEF SetTimer, MayCall, queueVars
  <1>13. ASSUME Clock PROVE TaskInv'
    BY <1>13 DEF Clock, queueVars, timerVars
  <1>14. ASSUME UNCHANGED vars PROVE TaskInv'
    BY <1>14 DEF vars, queueVars, timerVars, clockVars
  <1>15. ASSUME NEW t \in Pool, ReadNow(t) PROVE TaskInv'
    BY <1>15 DEF ReadNow, queueVars, timerVars, clockVars
  <1>16. ASSUME NEW t \in Pool, TimedWait(t) PROVE TaskInv'
    BY <1>16 DEF TimedWait, queueVars, timerVars, clockVars
  <1> QED
    BY AwakeIs, <1>1, <1>2, <1>3, <1>4, <1>5, <1>6, <1>7, <1>8, <1>9, <1>10, <1>11,
       <1>12, <1>13, <1>14, <1>15, <1>16
    DEF Next, Return, ThreadStep

(* One timer for each id, on its grid of periods.                          *)
LEMMA TimerStep ==
    ASSUME ConstantsOK, TypeOK, TimerInv, [Next]_vars
    PROVE  TimerInv'
  <1> USE DEF TimerInv
  <1>1. ASSUME NEW t \in Pool, Leaves(t) PROVE TimerInv'
    BY <1>1 DEF Leaves, Leave, OnFeet, queueVars, timerVars, clockVars
  <1>2. ASSUME NEW t \in Pool, GoesToWait(t) PROVE TimerInv'
    BY <1>2 DEF GoesToWait, Sleep, OnFeet, queueVars, timerVars, clockVars
  <1>3. ASSUME NEW t \in Pool, FiresTimer(t) PROVE TimerInv'
    <2>1. First \in ms_timers /\ First.id \in TimerIds /\ First.start \in Nat
          /\ First.interval \in Nat /\ First \in Timer /\ End(First) \in Nat
      BY <1>3, FirstIsFirst, TimerFields DEF FiresTimer, IsDue
    <2>2. /\ ms_timers' = (ms_timers \ {First}) \cup {Rearmed(First)}
          /\ now' = now /\ latest' = latest /\ armed' = armed
          /\ fired' = [fired EXCEPT ![First.id].times = @ + 1]
          /\ End(First) <= now
      BY <1>3 DEF FiresTimer, IsDue, TakeTimer, clockVars, TypeOK
    <2>3. /\ now \in Nat /\ latest[First.id] \in Nat
          /\ fired \in [TimerIds -> [times : Nat, since : Nat]]
      BY <2>1 DEF TypeOK
    <2>4. /\ Rearmed(First).id = First.id /\ Rearmed(First).interval = First.interval
          /\ Rearmed(First).start = First.start + First.interval
      BY <2>1 DEF Rearmed, Timer
    <2>5. /\ fired'[First.id].times = fired[First.id].times + 1
          /\ fired'[First.id].since = fired[First.id].since
          /\ \A i \in TimerIds \ {First.id} : fired'[i] = fired[i]
      BY <2>1, <2>2, <2>3
    <2>6. Rearmed(First).start <= latest'[First.id]
      BY <2>1, <2>2, <2>3, <2>4 DEF End
    <2>7. Rearmed(First).start = fired'[First.id].since + fired'[First.id].times * First.interval
      <3>1. \A s, n, k, d \in Nat : s = k + n * d => s + d = k + (n + 1) * d
        OBVIOUS
      <3>2. fired[First.id].since \in Nat /\ fired[First.id].times \in Nat
        BY <2>1, <2>3
      <3>3. First.start = fired[First.id].since + fired[First.id].times * First.interval
        BY <2>1
      <3> HIDE DEF TimerInv
      <3>4. First.start + First.interval
              = fired[First.id].since + (fired[First.id].times + 1) * First.interval
        <4>1. First.start \in Nat /\ First.interval \in Nat
          BY <2>1
        <4> DEFINE s == First.start
                   k == fired[First.id].since
                   n == fired[First.id].times
                   d == First.interval
        <4>2. s \in Nat /\ k \in Nat /\ n \in Nat /\ d \in Nat /\ s = k + n * d
          BY <3>2, <3>3, <4>1
        <4> HIDE DEF s, k, n, d
        <4>3. s + d = k + (n + 1) * d
          BY <3>1, <4>2
        <4> QED
          BY <4>3 DEF s, k, n, d
      <3> QED
        BY <2>4, <2>5, <3>4
    <2>8. \A x \in ms_timers \ {First} : x.id \in TimerIds \ {First.id}
      BY <2>1, TimerFields
    <2>9. \A x, y \in ms_timers' : x.id = y.id => x = y
      BY <2>2, <2>4, <2>8
    <2>10. \A i \in TimerIds : i \in armed' <=> \E x \in ms_timers' : x.id = i
      BY <2>1, <2>2, <2>4
    <2>11. \A x \in ms_timers' : /\ x.start = fired'[x.id].since + fired'[x.id].times * x.interval
                                 /\ x.start <= latest'[x.id]
      BY <2>2, <2>4, <2>5, <2>6, <2>7, <2>8
    <2> QED
      BY <2>2, <2>9, <2>10, <2>11
  <1>4. ASSUME NEW t \in Pool, RunsTask(t) PROVE TimerInv'
    BY <1>4 DEF RunsTask, TakeTask, OnFeet, timerVars, clockVars
  <1>5. ASSUME NEW t \in Pool, WakeUp(t) PROVE TimerInv'
    BY <1>5 DEF WakeUp, queueVars, timerVars, clockVars
  <1>6. ASSUME NEW c \in Callers, Signal(c) PROVE TimerInv'
    BY <1>6 DEF Signal, queueVars, timerVars, clockVars
  <1>7. ASSUME NEW c \in Callers, Broadcast(c) PROVE TimerInv'
    BY <1>7 DEF Broadcast, queueVars, timerVars, clockVars
  <1>8. ASSUME NEW c \in Callers, Joined(c) PROVE TimerInv'
    BY <1>8 DEF Joined, queueVars, timerVars, clockVars
  <1>9. ASSUME NEW c \in Callers, NotifyExit(c) PROVE TimerInv'
    BY <1>9 DEF NotifyExit, MayCall, queueVars, timerVars, clockVars
  <1>10. ASSUME NEW c \in Callers, NEW x \in Tasks, Post(c, x) PROVE TimerInv'
    BY <1>10 DEF Post, MayCall, timerVars, clockVars
  <1>11. ASSUME NEW c \in Callers, NEW i \in TimerIds, KillTimer(c, i) PROVE TimerInv'
    <2>1. /\ ms_timers' = {x \in ms_timers : x.id # i} /\ armed' = armed \ {i}
          /\ UNCHANGED <<now, latest, fired>>
      BY <1>11, EraseIs DEF KillTimer, clockVars
    <2> QED
      BY <2>1
  <1>12. ASSUME NEW c \in Callers, NEW i \in TimerIds, NEW e \in Elapse, SetTimer(c, i,
                e)
         PROVE  TimerInv'
    <2> DEFINE new == [id |-> i, start |-> now, interval |-> e]
    <2>1. /\ ms_timers' = {x \in ms_timers : x.id # i} \cup {new}
          /\ armed' = armed \cup {i} /\ now' = now
          /\ fired' = [fired EXCEPT ![i] = [times |-> 0, since |-> now]]
          /\ latest' = [latest EXCEPT ![i] = now]
      BY <1>12, EraseIs DEF SetTimer
    <2>2. /\ now \in Nat /\ e \in Nat /\ latest \in [TimerIds -> Nat]
          /\ fired \in [TimerIds -> [times : Nat, since : Nat]]
      BY DEF TypeOK, ConstantsOK
    <2>3. \A x \in ms_timers : x.id \in TimerIds
      BY TimerFields
    <2>4. \A x, y \in ms_timers' : x.id = y.id => x = y
      BY <2>1
    <2>5. \A j \in TimerIds : j \in armed' <=> \E x \in ms_timers' : x.id = j
      <3> HIDE DEF new
      <3>1. new.id = i
        BY DEF new
      <3> QED
        BY <2>1, <3>1
    <2>6. \A j \in TimerIds : now' <= latest'[j]
      BY <2>1, <2>2
    <2>7. \A x \in ms_timers' : x # new => x \in ms_timers /\ x.id # i
      BY <2>1
    <2>8. /\ new.start = fired'[new.id].since + fired'[new.id].times * new.interval
          /\ new.start <= latest'[new.id]
      BY <2>1, <2>2
    <2>9. \A x \in ms_timers' : /\ x.start = fired'[x.id].since + fired'[x.id].times * x.interval
                                /\ x.start <= latest'[x.id]
      <3> HIDE DEF new
      <3>1. \A j \in TimerIds \ {i} : fired'[j] = fired[j] /\ latest'[j] = latest[j]
        BY <2>1, <2>2
      <3> QED
        BY <2>3, <2>7, <2>8, <3>1
    <2> QED
      BY <2>4, <2>5, <2>6, <2>9
  <1>13. ASSUME Clock PROVE TimerInv'
    <2>1. /\ ms_timers' = ms_timers /\ armed' = armed /\ fired' = fired
          /\ latest' = [i \in TimerIds |-> IF now' > latest[i] THEN now' ELSE latest[i]]
      BY <1>13 DEF Clock, timerVars
    <2>2. now' \in Nat /\ latest \in [TimerIds -> Nat] /\ \A x \in ms_timers : x.id \in TimerIds /\ x.start \in Nat
      BY <1>13, TimerFields DEF Clock, TypeOK, ConstantsOK
    <2>3. \A i \in TimerIds : now' <= latest'[i] /\ latest[i] <= latest'[i]
                              /\ latest[i] \in Nat /\ latest'[i] \in Nat
      BY <2>1, <2>2
    <2>4. \A x \in ms_timers : x.start <= latest'[x.id]
      BY <2>2, <2>3
    <2> QED
      BY <2>1, <2>3, <2>4
  <1>14. ASSUME UNCHANGED vars PROVE TimerInv'
    BY <1>14 DEF vars, queueVars, timerVars, clockVars
  <1>15. ASSUME NEW t \in Pool, ReadNow(t) PROVE TimerInv'
    BY <1>15 DEF ReadNow, queueVars, timerVars, clockVars
  <1>16. ASSUME NEW t \in Pool, TimedWait(t) PROVE TimerInv'
    BY <1>16 DEF TimedWait, queueVars, timerVars, clockVars
  <1> QED
    BY AwakeIs, <1>1, <1>2, <1>3, <1>4, <1>5, <1>6, <1>7, <1>8, <1>9, <1>10, <1>11,
       <1>12, <1>13, <1>14, <1>15, <1>16
    DEF Next, Return, ThreadStep

(* Whoever needs the mutex waits for the one that has it.                  *)
LEMMA HoldStep ==
    ASSUME ConstantsOK, TypeOK, TimerInv, HoldInv, [Next]_vars
    PROVE  HoldInv'
  <1> USE DEF HoldInv, Holding, Goto
  <1>1. ASSUME NEW t \in Pool, Leaves(t) PROVE HoldInv'
    BY <1>1 DEF Leaves, Leave, TypeOK
  <1>2. ASSUME NEW t \in Pool, GoesToWait(t) PROVE HoldInv'
    BY <1>2 DEF GoesToWait, Sleep, TypeOK, queueVars
  <1>3. ASSUME NEW t \in Pool, FiresTimer(t) PROVE HoldInv'
    BY <1>3 DEF FiresTimer, TakeTimer, TypeOK
  <1>4. ASSUME NEW t \in Pool, RunsTask(t) PROVE HoldInv'
    BY <1>4 DEF RunsTask, TakeTask, TypeOK
  <1>5. ASSUME NEW t \in Pool, WakeUp(t) PROVE HoldInv'
    BY <1>5 DEF WakeUp, TypeOK, queueVars, clockVars
  <1>6. ASSUME NEW c \in Callers, Signal(c) PROVE HoldInv'
    <2>1. UNCHANGED <<m_task_queue, st_now, latest>>
      BY <1>6 DEF Signal, queueVars, clockVars, waitVars
    <2>2. \A t \in Pool : pc'[t] \in {"empty", "reading"} => pc'[t] = pc[t]
      BY <1>6 DEF Signal, TypeOK, ConstantsOK
    <2> QED
      BY <2>1, <2>2
  <1>7. ASSUME NEW c \in Callers, Broadcast(c) PROVE HoldInv'
    <2>1. UNCHANGED <<m_task_queue, st_now, latest>>
      BY <1>7 DEF Broadcast, queueVars, clockVars
    <2>2. \A t \in Pool : pc'[t] \in {"empty", "reading"} => pc'[t] = pc[t]
      BY <1>7 DEF Broadcast, TypeOK, ConstantsOK
    <2> QED
      BY <2>1, <2>2
  <1>8. ASSUME NEW c \in Callers, Joined(c) PROVE HoldInv'
    BY <1>8 DEF Joined, TypeOK, ConstantsOK, queueVars, clockVars, waitVars
  <1>9. ASSUME NEW c \in Callers, NotifyExit(c) PROVE HoldInv'
    BY <1>9 DEF NotifyExit, MayCall, TypeOK, ConstantsOK
  <1>10. ASSUME NEW c \in Callers, NEW x \in Tasks, Post(c, x) PROVE HoldInv'
    BY <1>10 DEF Post, MayCall, TypeOK, ConstantsOK
  <1>11. ASSUME NEW c \in Callers, NEW i \in TimerIds, KillTimer(c, i) PROVE HoldInv'
    BY <1>11 DEF KillTimer, MayCall
  <1>12. ASSUME NEW c \in Callers, NEW i \in TimerIds, NEW e \in Elapse, SetTimer(c, i,
                e)
         PROVE  HoldInv'
    BY <1>12 DEF SetTimer, MayCall, TypeOK, ConstantsOK
  <1>13. ASSUME Clock PROVE HoldInv'
    <2>1. UNCHANGED <<pc, st_now, m_task_queue>>
      BY <1>13 DEF Clock, queueVars, waitVars
    <2>2. \A i \in TimerIds : latest[i] <= latest'[i] /\ latest[i] \in Nat /\ latest'[i] \in Nat
      <3>1. now' \in Nat /\ latest \in [TimerIds -> Nat]
        BY <1>13 DEF Clock, TypeOK, ConstantsOK
      <3> QED
        BY <1>13, <3>1 DEF Clock
    <2>3. st_now \in Nat
      BY DEF TypeOK
    <2> QED
      BY <2>1, <2>2, <2>3
  <1>14. ASSUME UNCHANGED vars PROVE HoldInv'
    BY <1>14 DEF vars, queueVars, clockVars, waitVars
  <1>15. ASSUME NEW t \in Pool, ReadNow(t) PROVE HoldInv'
    <2>1. /\ pc' = [pc EXCEPT ![t] = "reading"] /\ pc[t] = "empty" /\ st_now' = now
          /\ UNCHANGED <<m_task_queue, latest>>
      BY <1>15 DEF ReadNow, queueVars, clockVars
    <2>2. Holding' = Holding
      BY <2>1 DEF TypeOK
    <2>3. \A i \in TimerIds : now <= latest[i]
      BY DEF TimerInv
    <2> QED
      BY <2>1, <2>2, <2>3
  <1>16. ASSUME NEW t \in Pool, TimedWait(t) PROVE HoldInv'
    <2>1. /\ pc' = [pc EXCEPT ![t] = "asleep"] /\ pc[t] = "reading"
          /\ UNCHANGED <<m_task_queue, latest>>
      BY <1>16 DEF TimedWait, queueVars, clockVars
    <2>2. Holding' = {}
      BY <2>1 DEF TypeOK
    <2> QED
      BY <2>1, <2>2
  <1> QED
    BY AwakeIs, <1>1, <1>2, <1>3, <1>4, <1>5, <1>6, <1>7, <1>8, <1>9, <1>10, <1>11,
       <1>12, <1>13, <1>14, <1>15, <1>16
    DEF Next, Return, ThreadStep

(* The last to fall asleep has seen every timer.                           *)
LEMMA CoverStep ==
    ASSUME ConstantsOK, TypeOK, TimerInv, HoldInv, CoverInv, [Next]_vars
    PROVE  CoverInv'
  <1> USE DEF Sleepers, Signals, Goto
  <1>1. ASSUME NEW t \in Pool, Leaves(t) PROVE CoverInv'
    BY <1>1 DEF Leaves, Leave, CoverInv, TypeOK
  <1>2. ASSUME NEW t \in Pool, GoesToWait(t) PROVE CoverInv'
    BY <1>2 DEF GoesToWait, Sleep, CoverInv, TypeOK
  <1>3. ASSUME NEW t \in Pool, FiresTimer(t) PROVE CoverInv'
    BY <1>3 DEF FiresTimer, TakeTimer, CoverInv, TypeOK
  <1>4. ASSUME NEW t \in Pool, RunsTask(t) PROVE CoverInv'
    BY <1>4 DEF RunsTask, TakeTask, CoverInv, TypeOK
  <1>5. ASSUME NEW t \in Pool, WakeUp(t) PROVE CoverInv'
    BY <1>5 DEF WakeUp, CoverInv, TypeOK
  <1>6. ASSUME NEW c \in Callers, Signal(c) PROVE CoverInv'
    BY <1>6 DEF Signal, CoverInv, TypeOK, ConstantsOK
  <1>7. ASSUME NEW c \in Callers, Broadcast(c) PROVE CoverInv'
    <2>1. Sleepers' = {}
      BY <1>7 DEF Broadcast, TypeOK, ConstantsOK
    <2> QED
      BY <2>1 DEF CoverInv, ConstantsOK
  <1>8. ASSUME NEW c \in Callers, Joined(c) PROVE CoverInv'
    <2>1. Sleepers' = {}
      BY <1>8 DEF Joined, TypeOK, ConstantsOK
    <2> QED
      BY <2>1 DEF CoverInv, ConstantsOK
  <1>9. ASSUME NEW c \in Callers, NotifyExit(c) PROVE CoverInv'
    <2>1. Sleepers' = Sleepers /\ Signals' = Signals
      BY <1>9 DEF NotifyExit, MayCall, TypeOK, ConstantsOK
    <2>2. UNCHANGED <<ms_timers, deadline, back, latest>>
      BY <1>9 DEF NotifyExit, timerVars, clockVars, waitVars
    <2> QED
      BY <2>1, <2>2 DEF CoverInv, InTime, End
  <1>10. ASSUME NEW c \in Callers, NEW x \in Tasks, Post(c, x) PROVE CoverInv'
    BY <1>10 DEF Post, CoverInv, TypeOK
  <1>11. ASSUME NEW c \in Callers, NEW i \in TimerIds, KillTimer(c, i) PROVE CoverInv'
    <2>1. ms_timers' \subseteq ms_timers /\ UNCHANGED <<pc, deadline, back, latest>>
      BY <1>11, EraseIs DEF KillTimer, clockVars, waitVars
    <2> QED
      BY <2>1 DEF CoverInv, InTime, End
  <1>12. ASSUME NEW c \in Callers, NEW i \in TimerIds, NEW e \in Elapse, SetTimer(c, i,
                e)
         PROVE  CoverInv'
    BY <1>12 DEF SetTimer, CoverInv, TypeOK
  <1>13. ASSUME Clock PROVE CoverInv'
    <2>1. /\ UNCHANGED <<pc, ms_timers, deadline, back>>
          /\ \A x \in ms_timers : latest[x.id] <= latest'[x.id]
                                /\ latest[x.id] \in Nat /\ latest'[x.id] \in Nat
      <3>1. now' \in Nat /\ latest \in [TimerIds -> Nat] /\ \A x \in ms_timers : x.id \in TimerIds
        BY <1>13, TimerFields DEF Clock, TypeOK, ConstantsOK
      <3> QED
        BY <1>13, <3>1 DEF Clock, timerVars, waitVars
    <2>2. ASSUME NEW t \in Pool, NEW x \in ms_timers, InTime(t, x) PROVE InTime(t, x)'
      <3>1. deadline[t] \in Nat
        BY DEF TypeOK
      <3> QED
        BY <2>1, <2>2, <3>1 DEF InTime, End
    <2> QED
      BY <2>1, <2>2 DEF CoverInv
  <1>14. ASSUME UNCHANGED vars PROVE CoverInv'
    BY <1>14 DEF CoverInv, InTime, End, vars, queueVars, timerVars, clockVars, waitVars
  <1>15. ASSUME NEW t \in Pool, ReadNow(t) PROVE CoverInv'
    BY <1>15 DEF ReadNow, CoverInv, TypeOK
  <1>16. ASSUME NEW t \in Pool, TimedWait(t) PROVE CoverInv'
    <2>1. /\ deadline' = [deadline EXCEPT ![t] = st_now + WaitTime]
          /\ back' = [back EXCEPT ![t] = IF now < st_now THEN st_now - now ELSE 0]
          /\ ms_timers' = ms_timers /\ latest' = latest
      BY <1>16 DEF TimedWait, timerVars, clockVars
    <2>2. \A x \in ms_timers : InTime(t, x)'
      <3> SUFFICES ASSUME NEW x \in ms_timers PROVE InTime(t, x)'
        OBVIOUS
      <3>1. /\ deadline'[t] = st_now + WaitTime
            /\ back'[t] = IF now < st_now THEN st_now - now ELSE 0
        BY <2>1 DEF TypeOK
      <3>2. st_now <= latest[x.id]
        BY <1>16, TimerFields DEF HoldInv, TimedWait
      <3>3. st_now \in Nat /\ now \in Nat /\ WaitTime \in Nat /\ End(x) \in Nat
        BY WaitIs, TimerFields DEF TypeOK
      <3>4. now + WaitTime <= End(x) \/ WaitTime = 0
        BY WaitIs
      <3>5. st_now + WaitTime <= End(x) + back'[t] \/ st_now + WaitTime <= latest[x.id]
        BY <3>1, <3>2, <3>3, <3>4
      <3> QED
        BY <2>1, <3>1, <3>5 DEF InTime, End
    <2> QED
      BY <2>1, <2>2 DEF CoverInv
  <1> QED
    BY AwakeIs, <1>1, <1>2, <1>3, <1>4, <1>5, <1>6, <1>7, <1>8, <1>9, <1>10, <1>11,
       <1>12, <1>13, <1>14, <1>15, <1>16
    DEF Next, Return, ThreadStep

(* What NoTaskForgotten counts is finite, and changes one by one.          *)
LEMMA Counts ==
    ASSUME ConstantsOK
    PROVE  /\ \A S \in (SUBSET Pool) \cup (SUBSET Callers) : IsFiniteSet(S) /\ Cardinality(S) \in Nat
           /\ OnTheWay \in SUBSET Pool /\ Signals \in SUBSET Callers
           /\ OnTheWay' \in SUBSET Pool /\ Signals' \in SUBSET Callers
  <1>1. \A S \in (SUBSET Pool) \cup (SUBSET Callers) : IsFiniteSet(S)
    BY FS_Subset DEF ConstantsOK
  <1>2. OnTheWay \in SUBSET Pool /\ Signals \in SUBSET Callers
    BY DEF OnTheWay, Signals
  <1>3. OnTheWay' \in SUBSET Pool /\ Signals' \in SUBSET Callers
    BY DEF OnTheWay, Signals
  <1> QED
    BY <1>1, <1>2, <1>3, FS_CardinalityType

(* How Cardinality changes with one element.                               *)
LEMMA OneMore ==
    ASSUME NEW S, IsFiniteSet(S), NEW x
    PROVE  /\ Cardinality(S) \in Nat /\ Cardinality(S \cup {x}) \in Nat
           /\ Cardinality(S) <= Cardinality(S \cup {x})
           /\ x \notin S => Cardinality(S \cup {x}) = Cardinality(S) + 1
  <1>1. /\ IsFiniteSet(S \cup {x})
        /\ Cardinality(S \cup {x}) = IF x \in S THEN Cardinality(S) ELSE Cardinality(S) + 1
    BY FS_AddElement, Zenon
  <1>2. Cardinality(S) \in Nat /\ Cardinality(S \cup {x}) \in Nat
    BY <1>1, FS_CardinalityType, Zenon
  <1> QED
    BY <1>1, <1>2

LEMMA OneLess ==
    ASSUME NEW S, IsFiniteSet(S), NEW x
    PROVE  /\ Cardinality(S) \in Nat /\ Cardinality(S \ {x}) \in Nat
           /\ Cardinality(S) <= Cardinality(S \ {x}) + 1
  <1>1. /\ IsFiniteSet(S \ {x})
        /\ Cardinality(S \ {x}) = IF x \in S THEN Cardinality(S) - 1 ELSE Cardinality(S)
    BY FS_RemoveElement, Zenon
  <1>2. Cardinality(S) \in Nat /\ Cardinality(S \ {x}) \in Nat
    BY <1>1, FS_CardinalityType, Zenon
  <1> QED
    BY <1>1, <1>2

(* Whoever takes a thread off its way also takes a task off the list, and  *)
(* whoever adds a task brings a signal.                                    *)
LEMMA ForgottenStep ==
    ASSUME ConstantsOK, TypeOK, ExitInv, HoldInv, NoTaskForgotten, [Next]_vars
    PROVE  NoTaskForgotten'
  <1>1. ASSUME NEW t \in Pool, Leaves(t) PROVE NoTaskForgotten'
    BY <1>1 DEF Leaves, NoTaskForgotten
  <1>2. ASSUME NEW t \in Pool, GoesToWait(t) PROVE NoTaskForgotten'
    <2>1. Len(m_task_queue') = 0
      BY <1>2 DEF GoesToWait, Sleep, queueVars
    <2>2. Cardinality(OnTheWay)' \in Nat /\ Cardinality(Signals)' \in Nat
      BY Counts
    <2> QED
      BY <2>1, <2>2 DEF NoTaskForgotten
  <1>3. ASSUME NEW t \in Pool, FiresTimer(t) PROVE NoTaskForgotten'
    <2>1. /\ OnTheWay' = OnTheWay \cup {t} /\ Signals' = Signals /\ Sleepers' = Sleepers
          /\ UNCHANGED <<m_task_queue, m_exit_flag>>
      BY <1>3
      DEF FiresTimer, TakeTimer, OnFeet, Goto, OnTheWay, Signals, Sleepers, TypeOK,
                ConstantsOK, queueVars
    <2>2. Len(m_task_queue) \in Nat
      BY LenProperties DEF TypeOK
    <2> QED
      BY <2>1, <2>2, Counts, OneMore DEF NoTaskForgotten
  <1>4. ASSUME NEW t \in Pool, RunsTask(t) PROVE NoTaskForgotten'
    <2>1. /\ OnTheWay' = OnTheWay \ {t} /\ Signals' = Signals /\ Sleepers' = Sleepers
          /\ m_exit_flag' = m_exit_flag
      BY <1>4 DEF RunsTask, TakeTask, OnFeet, Goto, OnTheWay, Signals, Sleepers, TypeOK,
                ConstantsOK
    <2>2. Len(m_task_queue) \in Nat /\ Len(m_task_queue') = Len(m_task_queue) - 1
      BY <1>4, LenProperties, HeadTailProperties DEF RunsTask, TakeTask, TypeOK
    <2>3. /\ Cardinality(OnTheWay) \in Nat /\ Cardinality(OnTheWay') \in Nat
          /\ Cardinality(OnTheWay) <= Cardinality(OnTheWay') + 1 /\ Cardinality(Signals) \in Nat
      BY <2>1, Counts, OneLess
    <2> QED
      BY <2>1, <2>2, <2>3 DEF NoTaskForgotten
  <1>5. ASSUME NEW t \in Pool, WakeUp(t) PROVE NoTaskForgotten'
    <2>1. /\ OnTheWay' = OnTheWay \cup {t} /\ Signals' = Signals /\ Sleepers' \subseteq Sleepers
          /\ UNCHANGED <<m_task_queue, m_exit_flag>>
      BY <1>5
      DEF WakeUp, Goto, OnTheWay, Signals, Sleepers, TypeOK, ConstantsOK, queueVars
    <2>2. Len(m_task_queue) \in Nat
      BY LenProperties DEF TypeOK
    <2> QED
      BY <2>1, <2>2, Counts, OneMore DEF NoTaskForgotten
  <1>6. ASSUME NEW c \in Callers, Signal(c) PROVE NoTaskForgotten'
    <2>1. Len(m_task_queue) \in Nat /\ UNCHANGED <<m_task_queue, m_exit_flag>>
      BY <1>6, LenProperties DEF TypeOK, Signal, queueVars
    <2>2. CASE Sleepers = {} /\ Goto(c, "idle")
      <3>1. Sleepers' = {}
        BY <2>2 DEF Sleepers, Goto, TypeOK, ConstantsOK
      <3> QED
        BY <3>1 DEF NoTaskForgotten
    <2>3. ASSUME NEW t \in Pool, pc[t] = "asleep", pc' = [pc EXCEPT ![c] = "idle", ![t] = "woken"]
          PROVE  NoTaskForgotten'
      <3>1. /\ OnTheWay' = OnTheWay \cup {t} /\ t \notin OnTheWay /\ t \in Sleepers
            /\ Signals' = Signals \ {c} /\ c \in Signals
        BY <1>6, <2>3 DEF Signal, OnTheWay, Signals, Sleepers, TypeOK, ConstantsOK
      <3>2. /\ Cardinality(OnTheWay) \in Nat
            /\ Cardinality(OnTheWay') = Cardinality(OnTheWay) + 1
        BY <3>1, Counts, OneMore
      <3>3. /\ Cardinality(Signals) \in Nat /\ Cardinality(Signals') \in Nat
            /\ Cardinality(Signals) <= Cardinality(Signals') + 1
        BY <3>1, Counts, OneLess
      <3> QED
        BY <2>1, <3>1, <3>2, <3>3 DEF NoTaskForgotten
    <2> QED
      BY <1>6, <2>2, <2>3 DEF Signal, Sleepers
  <1>7. ASSUME NEW c \in Callers, Broadcast(c) PROVE NoTaskForgotten'
    BY <1>7 DEF Broadcast, ExitInv, NoTaskForgotten
  <1>8. ASSUME NEW c \in Callers, Joined(c) PROVE NoTaskForgotten'
    BY <1>8 DEF Joined, ExitInv, NoTaskForgotten
  <1>9. ASSUME NEW c \in Callers, NotifyExit(c) PROVE NoTaskForgotten'
    BY <1>9 DEF NotifyExit, NoTaskForgotten
  <1>10. ASSUME NEW c \in Callers, NEW x \in Tasks, Post(c, x) PROVE NoTaskForgotten'
    <2>1. /\ OnTheWay' = OnTheWay /\ Sleepers' = Sleepers /\ m_exit_flag' = m_exit_flag
          /\ Signals' = Signals \cup {c} /\ c \notin Signals
      BY <1>10 DEF Post, MayCall, Goto, OnTheWay, Signals, Sleepers, TypeOK, ConstantsOK
    <2>2. Len(m_task_queue) \in Nat /\ Len(m_task_queue') = Len(m_task_queue) + 1
      BY <1>10, PostIs, LenProperties DEF TypeOK
    <2> QED
      BY <2>1, <2>2, Counts, OneMore DEF NoTaskForgotten
  <1>11. ASSUME NEW c \in Callers, NEW i \in TimerIds, KillTimer(c, i)
         PROVE  NoTaskForgotten'
    BY <1>11 DEF KillTimer, queueVars, NoTaskForgotten, Sleepers, OnTheWay, Signals
  <1>12. ASSUME NEW c \in Callers, NEW i \in TimerIds, NEW e \in Elapse, SetTimer(c, i,
                e)
         PROVE  NoTaskForgotten'
    <2>1. /\ OnTheWay' = OnTheWay /\ Sleepers' = Sleepers
          /\ UNCHANGED <<m_task_queue, m_exit_flag>>
          /\ Signals' = Signals \cup {c}
      BY <1>12
      DEF SetTimer, MayCall, Goto, OnTheWay, Signals, Sleepers, TypeOK, ConstantsOK,
          queueVars
    <2>2. Len(m_task_queue) \in Nat
      BY LenProperties DEF TypeOK
    <2> QED
      BY <2>1, <2>2, Counts, OneMore DEF NoTaskForgotten
  <1>13. ASSUME Clock PROVE NoTaskForgotten'
    BY <1>13 DEF Clock, queueVars, NoTaskForgotten, Sleepers, OnTheWay, Signals
  <1>14. ASSUME UNCHANGED vars PROVE NoTaskForgotten'
    BY <1>14 DEF vars, queueVars, NoTaskForgotten, Sleepers, OnTheWay, Signals
  <1>15. ASSUME NEW t \in Pool, ReadNow(t) PROVE NoTaskForgotten'
    <2>1. OnTheWay' = OnTheWay /\ Signals' = Signals /\ Sleepers' = Sleepers
      BY <1>15 DEF ReadNow, Goto, OnTheWay, Signals, Sleepers, TypeOK, ConstantsOK
    <2>2. UNCHANGED <<m_task_queue, m_exit_flag>>
      BY <1>15 DEF ReadNow, queueVars
    <2> QED
      BY <2>1, <2>2 DEF NoTaskForgotten
  <1>16. ASSUME NEW t \in Pool, TimedWait(t) PROVE NoTaskForgotten'
    <2>1. Len(m_task_queue') = 0
      BY <1>16 DEF TimedWait, queueVars, HoldInv, Holding
    <2>2. Cardinality(OnTheWay)' \in Nat /\ Cardinality(Signals)' \in Nat
      BY Counts
    <2> QED
      BY <2>1, <2>2 DEF NoTaskForgotten
  <1> QED
    BY AwakeIs, <1>1, <1>2, <1>3, <1>4, <1>5, <1>6, <1>7, <1>8, <1>9, <1>10, <1>11,
       <1>12, <1>13, <1>14, <1>15, <1>16
    DEF Next, Return, ThreadStep

(* At first there is neither task nor timer.                               *)
LEMMA InitIsFine == ConstantsOK /\ Init => IInv
  <1> SUFFICES ASSUME ConstantsOK, Init PROVE IInv
    OBVIOUS
  <1>1. TypeOK
    <2>1. m_task_queue \in Seq(Tasks)
      BY EmptySeq DEF Init
    <2>2. pc \in [Pool \cup Callers -> PoolPC \cup CallerPC]
      BY DEF Init, PoolPC, CallerPC
    <2>3. (\A t \in Pool : pc[t] \in PoolPC) /\ (\A c \in Callers : pc[c] \in CallerPC)
      BY DEF Init, ConstantsOK, PoolPC, CallerPC
    <2> QED
      BY <2>1, <2>2, <2>3 DEF Init, TypeOK
  <1>4. ExitInv /\ TaskInv
    <2>1. Len(m_task_queue) = 0
      BY EmptySeq DEF Init
    <2> QED
      BY <2>1 DEF Init, ConstantsOK, ExitInv, TaskInv
  <1>2. TimerInv
    BY DEF Init, TimerInv
  <1>3. HoldInv /\ CoverInv /\ NoTaskForgotten
    BY DEF Init, ConstantsOK, HoldInv, Holding, CoverInv, Sleepers, NoTaskForgotten
  <1> QED
    BY <1>1, <1>2, <1>3, <1>4 DEF IInv

(* The parts of the invariant, together, are kept by every step.           *)
LEMMA StepKeeps == ConstantsOK /\ IInv /\ [Next]_vars => IInv'
  BY TypeStep, TaskStep, TimerStep, HoldStep, CoverStep, ForgottenStep DEF IInv

-----------------------------------------------------------------------------
(* The theorems.                                                           *)

(* The assumption on the constants is a state predicate without variables. *)
LEMMA ConstantsStay == ConstantsOK => []ConstantsOK
  <1>1. ConstantsOK => ConstantsOK'
    BY DEF ConstantsOK
  <1> QED
    BY <1>1, PTL

(* The invariant holds throughout.                                         *)
LEMMA Invariance == ConstantsOK /\ Spec => []IInv
  <1>1. ConstantsOK /\ Init => IInv
    BY InitIsFine
  <1>2. ConstantsOK /\ IInv /\ [Next]_vars => IInv'
    BY StepKeeps
  <1> QED
    BY <1>1, <1>2, ConstantsStay, PTL DEF Spec

(* What the invariant says of the tasks: the list holds a task once, and   *)
(* only before it is begun.                                                *)
LEMMA OnceFollows == ASSUME TypeOK, TaskInv PROVE EachTaskOnce
  <1> SUFFICES ASSUME NEW x \in posted
               PROVE  begun[x] + Cardinality({k \in DOMAIN m_task_queue : m_task_queue[k] = x}) = 1
    BY DEF EachTaskOnce
  <1> DEFINE At == {k \in DOMAIN m_task_queue : m_task_queue[k] = x}
  <1>1. DOMAIN m_task_queue = 1 .. Len(m_task_queue)
    BY LenProperties DEF TypeOK
  <1>2. CASE begun[x] = 1
    <2>1. At = {}
      BY <1>1, <1>2 DEF TaskInv
    <2> QED
      BY <1>2, <2>1, FS_EmptySet
  <1>3. CASE begun[x] # 1
    <2>1. PICK k \in 1 .. Len(m_task_queue) : m_task_queue[k] = x
      BY <1>3 DEF TaskInv
    <2>2. At = {k} /\ begun[x] = 0
      BY <1>1, <2>1 DEF TaskInv
    <2>3. Cardinality({k}) = 1
      BY FS_Singleton, Zenon
    <2>4. Cardinality(At) = 1
      BY <2>2, <2>3
    <2> QED
      BY <2>2, <2>4
  <1> QED
    BY <1>2, <1>3

(* What it says of the timers.                                             *)
LEMMA KilledFollows == ASSUME ConstantsOK, TypeOK, TimerInv PROVE KilledIsGone
  <1> SUFFICES ASSUME NEW i \in TimerIds
               PROVE  Cardinality({x \in ms_timers : x.id = i}) = IF i \in armed THEN 1 ELSE 0
    BY DEF KilledIsGone
  <1>1. CASE i \in armed
    <2>1. PICK y \in ms_timers : y.id = i
      BY <1>1 DEF TimerInv
    <2>2. {x \in ms_timers : x.id = i} = {y}
      BY <2>1 DEF TimerInv
    <2>3. Cardinality({y}) = 1
      BY FS_Singleton, Zenon
    <2> QED
      BY <1>1, <2>2, <2>3
  <1>2. CASE i \notin armed
    <2>1. {x \in ms_timers : x.id = i} = {}
      BY <1>2 DEF TimerInv
    <2> QED
      BY <1>2, <2>1, FS_EmptySet
  <1> QED
    BY <1>1, <1>2

(* What InTime says of every timer it says of the first.                   *)
LEMMA CoverFollows ==
    ASSUME ConstantsOK, TypeOK, TimerInv, CoverInv PROVE TimerIsCovered
  BY FirstIsFirst DEF TimerIsCovered, CoverInv, InTime

(* A period starts no later than the latest time shown.                    *)
LEMMA EarlyFollows == ASSUME TimerInv PROVE NoEarlyFiring
  BY DEF TimerInv, NoEarlyFiring

(* The variables keep their types, the sets of posted tasks and armed      *)
(* timers among them (thread-queue.h, timer-queue.h).                      *)
THEOREM TypeCorrect == ConstantsOK /\ Spec => []TypeOK
  <1>1. IInv => TypeOK
    BY DEF IInv
  <1> QED
    BY <1>1, Invariance, PTL

(* Posting signals after it has let go of the mutex, and no wakeup is      *)
(* lost: while a thread sleeps, every task waiting has a thread on its way *)
(* or a signal still to come (thread-queue.h, task-queue.h).               *)
THEOREM NoWakeupLost == ConstantsOK /\ Spec => []NoTaskForgotten
  <1>1. IInv => NoTaskForgotten
    BY DEF IInv
  <1> QED
    BY <1>1, Invariance, PTL

(* A task that was posted waits or has been begun, and that once, however  *)
(* many threads pop (task-queue.h).                                        *)
THEOREM TasksRunOnce == ConstantsOK /\ Spec => []EachTaskOnce
  <1>1. IInv => EachTaskOnce
    BY OnceFollows DEF IInv
  <1> QED
    BY <1>1, Invariance, PTL

(* A pool that is all asleep wakes by the time its first timer is due, or  *)
(* later by no more than the clock was set back between the two readings   *)
(* before the wait; the k-th firing of a timer comes no earlier than k     *)
(* periods after it was set; a killed timer is gone, and one that is set   *)
(* armed once (thread-queue.h, timer-queue.cpp).                           *)
THEOREM TimersAreTrue ==
    ConstantsOK /\ Spec => [](TimerIsCovered /\ NoEarlyFiring /\ KilledIsGone)
  <1>1. ConstantsOK /\ IInv => TimerIsCovered /\ NoEarlyFiring /\ KilledIsGone
    BY CoverFollows, EarlyFollows, KilledFollows DEF IInv
  <1> QED
    BY <1>1, ConstantsStay, Invariance, PTL

=============================================================================
