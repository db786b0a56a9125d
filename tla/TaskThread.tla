----------------------------- MODULE TaskThread -----------------------------
(***************************************************************************)
(* The samples' pool of task threads: TaskThread starts them, ThreadQueue  *)
(* feeds them from one list of tasks (TaskQueue) and one set of periodic   *)
(* timers (TimerQueue).  A thread holds the mutex except in the condition  *)
(* variable's wait and in a callback, so a step of a thread is the code    *)
(* between two of these points; only the two readings of the clock before  *)
(* a wait are steps of their own, for the clock may be set between them,   *)
(* and nobody else gets the mutex meanwhile.  Posting changes the list     *)
(* under the mutex and signals after it has let go of it.  A call made     *)
(* from inside a callback is a caller's call here, made while that         *)
(* callback runs.                                                          *)
(* A definition named ...Faulty is the one after it with a bug seeded.     *)
(***************************************************************************)
EXTENDS Integers, Sequences, FiniteSets

CONSTANTS
    Pool,       \* the threads begin() starts
    Callers,    \* threads that post, set timers and end the pool
    Tasks,      \* the CallBackStructs posted, each once
    TimerIds,   \* the ids of timers, numbers
    Elapse,     \* the periods asked for
    Hour,       \* kWaitInfinite, the longest wait
    MaxTime,    \* bound: the clock stops here
    Jumps       \* whether the clock may be set

ConstantsOK ==
    /\ IsFiniteSet(Pool) /\ Pool # {}       \* begin() starts one thread by default
    /\ IsFiniteSet(Callers) /\ Pool \cap Callers = {}
    /\ TimerIds \subseteq Nat /\ Elapse \subseteq Nat \ {0}
    /\ Hour \in Nat /\ MaxTime \in Nat /\ Jumps \in BOOLEAN

VARIABLES
    m_task_queue,   \* the tasks waiting
    ms_timers,      \* the timers: id, start of the period, interval
    m_exit_flag,
    now,            \* get_tick_count()
    pc,             \* position of pool threads and callers
    st_now,         \* what do_while has read before get_wait_time reads again
    deadline,       \* deadline[t]: when t's timed wait ends, 0 outside it
    back,           \* history: how far the clock went back between t's readings
    posted, begun,  \* history: tasks posted; how often each was begun
    armed, fired,   \* history: ids set and not killed; firings and time of setting
    latest          \* history: latest[i], the latest time shown since i was set

queueVars == <<m_task_queue, posted, begun>>
timerVars == <<ms_timers, armed, fired>>
clockVars == <<now, latest>>
waitVars == <<st_now, deadline, back>>
vars == <<queueVars, timerVars, clockVars, waitVars, m_exit_flag, pc>>

Timer == [id : TimerIds, start : Nat, interval : Elapse]
PoolPC == {"begin", "empty", "reading", "asleep", "woken", "timer", "task", "done"}
CallerPC == {"idle", "signal", "broadcast", "join", "ended"}

TypeOK ==
    /\ m_task_queue \in Seq(Tasks)
    /\ ms_timers \subseteq Timer
    /\ m_exit_flag \in BOOLEAN
    /\ now \in Nat /\ latest \in [TimerIds -> Nat]
    /\ pc \in [Pool \cup Callers -> PoolPC \cup CallerPC]
    /\ \A t \in Pool : pc[t] \in PoolPC
    /\ \A c \in Callers : pc[c] \in CallerPC
    /\ st_now \in Nat /\ deadline \in [Pool -> Nat] /\ back \in [Pool -> Nat]
    /\ posted \subseteq Tasks /\ begun \in [Tasks -> Nat]
    /\ armed \subseteq TimerIds /\ fired \in [TimerIds -> [times : Nat, since : Nat]]

Init ==
    /\ m_task_queue = <<>> /\ ms_timers = {} /\ m_exit_flag = FALSE
    /\ now = 0 /\ latest = [i \in TimerIds |-> 0]
    /\ pc = [t \in Pool \cup Callers |-> IF t \in Pool THEN "begin" ELSE "idle"]
    /\ st_now = 0 /\ deadline = [t \in Pool |-> 0] /\ back = [t \in Pool |-> 0]
    /\ posted = {} /\ begun = [x \in Tasks |-> 0]
    /\ armed = {} /\ fired = [i \in TimerIds |-> [times |-> 0, since |-> 0]]

Goto(t, label) == pc' = [pc EXCEPT ![t] = label]
Holding == {t \in Pool : pc[t] \in {"empty", "reading"}}

-----------------------------------------------------------------------------
(* TimerQueue.                                                             *)

End(x) == x.start + x.interval

(* Timer::operator<                                                        *)
Before(x, y) == End(x) < End(y) \/ (End(x) = End(y) /\ x.id < y.id)

First == CHOOSE x \in ms_timers : \A y \in ms_timers \ {x} : Before(x, y)

IsDue == ms_timers # {} /\ now >= End(First)

WaitTime == IF ms_timers = {} THEN Hour
            ELSE IF now <= End(First) THEN End(First) - now ELSE 0

EraseFaulty(i) == ms_timers
(* The timers without the first with this id.                              *)
Erase(i) ==
    LET same == {x \in ms_timers : x.id = i}
    IN  IF same = {} THEN ms_timers
        ELSE ms_timers \ {CHOOSE x \in same : \A y \in same \ {x} : Before(x, y)}

RearmedFaulty(x) == x
Rearmed(x) == [x EXCEPT !.start = @ + x.interval]

-----------------------------------------------------------------------------
(* ThreadQueue::do_while, in pieces that hold the mutex throughout.        *)

(* No task is there: the thread goes to wait, with the mutex.              *)
Sleep(t) == Goto(t, "empty") /\ UNCHANGED <<queueVars, timerVars, waitVars>>

Leave(t) == Goto(t, "done") /\ UNCHANGED <<queueVars, timerVars, waitVars>>

(* do_one_timer: the timer is armed again before its callback runs.        *)
TakeTimer(t) ==
    /\ ms_timers' = (ms_timers \ {First}) \cup {Rearmed(First)}
    /\ fired' = [fired EXCEPT ![First.id].times = @ + 1]
    /\ Goto(t, "timer")
    /\ UNCHANGED <<queueVars, armed, waitVars>>

TakeTaskFaulty(t) ==
    /\ begun' = [begun EXCEPT ![Head(m_task_queue)] = @ + 1]
    /\ Goto(t, "task")
    /\ UNCHANGED <<m_task_queue, posted, timerVars, waitVars>>
(* do_one_task                                                             *)
TakeTask(t) ==
    /\ m_task_queue' = Tail(m_task_queue)
    /\ begun' = [begun EXCEPT ![Head(m_task_queue)] = @ + 1]
    /\ Goto(t, "task")
    /\ UNCHANGED <<posted, timerVars, waitVars>>

(* From do_one_task to the next point without the mutex.                   *)
TaskOrSleep(t) ==
    IF m_exit_flag THEN Leave(t)
    ELSE IF m_task_queue # <<>> THEN TakeTask(t) ELSE Sleep(t)

(* From the end of the wait.                                               *)
TimerTaskOrSleep(t) ==
    IF m_exit_flag THEN Leave(t)
    ELSE IF IsDue THEN TakeTimer(t) ELSE TaskOrSleep(t)

LoopTopFaulty(t) == IF m_exit_flag THEN Leave(t) ELSE Sleep(t)
(* The top of the loop: wait if there is no task.                          *)
LoopTop(t) ==
    IF m_exit_flag THEN Leave(t)
    ELSE IF m_task_queue = <<>> THEN Sleep(t) ELSE TimerTaskOrSleep(t)

Awake(t) ==
    /\ Holding = {}
    /\ \/ pc[t] \in {"begin", "task"} /\ LoopTop(t)
       \/ pc[t] = "timer" /\ TaskOrSleep(t)
       \/ pc[t] = "woken" /\ TimerTaskOrSleep(t)
    /\ UNCHANGED <<clockVars, m_exit_flag>>

(* The clock is read for the deadline ...                                  *)
ReadNow(t) ==
    /\ pc[t] = "empty" /\ Goto(t, "reading")
    /\ st_now' = now
    /\ UNCHANGED <<queueVars, timerVars, clockVars, deadline, back, m_exit_flag>>

TimedWaitFaulty(t) ==
    /\ pc[t] = "reading" /\ Goto(t, "asleep")
    /\ deadline' = [deadline EXCEPT ![t] = st_now + Hour]
    /\ st_now' = 0
    /\ UNCHANGED <<back, queueVars, timerVars, clockVars, m_exit_flag>>
(* ... and again for the time to the first timer; then the timed wait.     *)
TimedWait(t) ==
    /\ pc[t] = "reading" /\ Goto(t, "asleep")
    /\ deadline' = [deadline EXCEPT ![t] = st_now + WaitTime]
    /\ back' = [back EXCEPT ![t] = IF now < st_now THEN st_now - now ELSE 0]
    /\ st_now' = 0
    /\ UNCHANGED <<queueVars, timerVars, clockVars, m_exit_flag>>

(* The wait times out, or returns for no reason, as it may.                *)
WakeUp(t) ==
    /\ pc[t] = "asleep" /\ Goto(t, "woken")
    /\ deadline' = [deadline EXCEPT ![t] = 0] /\ back' = [back EXCEPT ![t] = 0]
    /\ UNCHANGED <<st_now, queueVars, timerVars, clockVars, m_exit_flag>>
TimesOut(t) == now >= deadline[t] /\ WakeUp(t)

-----------------------------------------------------------------------------
(* The calls.                                                              *)

(* Posting, setting and killing timers and notify_exit take the mutex.     *)
MayCall(c) == pc[c] = "idle" /\ Holding = {}

(* post_task and post_front_task                                           *)
Post(c, x) ==
    /\ MayCall(c) /\ x \notin posted
    /\ m_task_queue' \in {Append(m_task_queue, x), <<x>> \o m_task_queue}
    /\ posted' = posted \cup {x}
    /\ Goto(c, "signal")
    /\ UNCHANGED <<begun, timerVars, clockVars, waitVars, m_exit_flag>>

SetTimer(c, i, e) ==
    /\ MayCall(c)
    /\ ms_timers' = Erase(i) \cup {[id |-> i, start |-> now, interval |-> e]}
    /\ armed' = armed \cup {i}
    /\ fired' = [fired EXCEPT ![i] = [times |-> 0, since |-> now]]
    /\ latest' = [latest EXCEPT ![i] = now]
    /\ Goto(c, "signal")
    /\ UNCHANGED <<queueVars, now, waitVars, m_exit_flag>>

KillTimer(c, i) ==
    /\ MayCall(c) /\ i \in armed
    /\ ms_timers' = Erase(i)
    /\ armed' = armed \ {i}
    /\ UNCHANGED <<queueVars, fired, clockVars, waitVars, m_exit_flag, pc>>

SignalFaulty(c) ==
    /\ pc[c] = "signal" /\ Goto(c, "idle")
    /\ UNCHANGED <<queueVars, timerVars, clockVars, waitVars, m_exit_flag>>
(* pthread_cond_signal, the mutex free: wakes a waiter if there is one.    *)
Signal(c) ==
    LET asleep == {t \in Pool : pc[t] = "asleep"}
    IN  /\ pc[c] = "signal"
        /\ \/ asleep = {} /\ Goto(c, "idle") /\ UNCHANGED <<deadline, back>>
           \/ \E t \in asleep : /\ pc' = [pc EXCEPT ![c] = "idle", ![t] = "woken"]
                                /\ deadline' = [deadline EXCEPT ![t] = 0]
                                /\ back' = [back EXCEPT ![t] = 0]
        /\ UNCHANGED <<st_now, queueVars, timerVars, clockVars, m_exit_flag>>

(* end(): notify_exit, then a join of every thread.                        *)
NotifyExit(c) ==
    /\ MayCall(c) /\ ~m_exit_flag
    /\ m_exit_flag' = TRUE
    /\ Goto(c, "broadcast")
    /\ UNCHANGED <<queueVars, timerVars, clockVars, waitVars>>

BroadcastFaulty(c) ==
    /\ pc[c] = "broadcast" /\ Goto(c, "join")
    /\ UNCHANGED <<queueVars, timerVars, clockVars, waitVars, m_exit_flag>>
Broadcast(c) ==
    /\ pc[c] = "broadcast"
    /\ pc' = [t \in DOMAIN pc |-> IF t = c THEN "join"
                                  ELSE IF pc[t] = "asleep" THEN "woken" ELSE pc[t]]
    /\ deadline' = [t \in Pool |-> 0] /\ back' = [t \in Pool |-> 0]
    /\ UNCHANGED <<st_now, queueVars, timerVars, clockVars, m_exit_flag>>

Joined(c) ==
    /\ pc[c] = "join" /\ \A t \in Pool : pc[t] = "done"
    /\ Goto(c, "ended")
    /\ UNCHANGED <<queueVars, timerVars, clockVars, waitVars, m_exit_flag>>

(* Time goes by, or the clock is set.                                      *)
Clock ==
    /\ now' \in {now + 1} \cup (IF Jumps THEN 0 .. MaxTime ELSE {}) /\ now' <= MaxTime
    /\ latest' = [i \in TimerIds |-> IF now' > latest[i] THEN now' ELSE latest[i]]
    /\ UNCHANGED <<queueVars, timerVars, waitVars, m_exit_flag, pc>>

ThreadStep(t) == Awake(t) \/ ReadNow(t) \/ TimedWait(t)
Return(c) == Signal(c) \/ Broadcast(c) \/ Joined(c)
Next ==
    \/ \E t \in Pool : ThreadStep(t) \/ WakeUp(t)
    \/ \E c \in Callers :
        \/ Return(c) \/ NotifyExit(c)
        \/ \E x \in Tasks : Post(c, x)
        \/ \E i \in TimerIds : KillTimer(c, i) \/ \E e \in Elapse : SetTimer(c, i, e)
    \/ Clock

Spec == Init /\ [][Next]_vars

(* Threads are scheduled, callbacks return and a timed wait ends in time;  *)
(* nothing makes a caller call, and nothing makes a wait end early.        *)
FairSpec == /\ Spec
            /\ \A t \in Pool : WF_vars(ThreadStep(t)) /\ WF_vars(TimesOut(t))
            /\ \A c \in Callers : WF_vars(Return(c))
            /\ WF_vars(Clock)

-----------------------------------------------------------------------------
(* Safety.                                                                 *)

Sleepers == {t \in Pool : pc[t] = "asleep"}
OnTheWay == {t \in Pool : pc[t] \in {"begin", "woken", "timer"}}
Signals == {c \in Callers : pc[c] = "signal"}

(* No lost wakeup: while a thread sleeps, every task waiting has a thread  *)
(* of its own that is on its way to the list, or a signal still to come    *)
(* (thread-queue.h, post_task against do_while).                           *)
NoTaskForgotten ==
    Sleepers # {} /\ ~m_exit_flag =>
        Len(m_task_queue) <= Cardinality(OnTheWay) + Cardinality(Signals)

(* A task posted waits or has been begun once: none runs twice, however    *)
(* many threads pop (thread-queue.h, do_one_task).                         *)
EachTaskOnce ==
    \A x \in posted :
        begun[x] + Cardinality({k \in DOMAIN m_task_queue : m_task_queue[k] = x}) = 1

(* When all threads sleep and no signal is under way, one of them wakes by *)
(* the time the first timer is due, and no later than that by more than    *)
(* the clock went back between do_while's reading of it and the one in     *)
(* get_wait_time: set_timer, the callbacks and the other sleepers come in  *)
(* between as they may (thread-queue.h, timer-queue.cpp).                  *)
TimerIsCovered ==
    Sleepers = Pool /\ Signals = {} /\ ms_timers # {} =>
        \E t \in Pool : \/ deadline[t] <= End(First) + back[t]
                        \/ deadline[t] <= latest[First.id]

(* The k-th firing of a timer does not come before k intervals after it    *)
(* was set, on whatever threads (timer-queue.cpp, peek).                   *)
NoEarlyFiring ==
    \A x \in ms_timers : fired[x.id].since + fired[x.id].times * x.interval <= latest[x.id]

(* A timer that is killed is gone, however often it was set before, and a  *)
(* timer that was set is armed exactly once: set_timer replaces, peek puts *)
(* back what it takes (timer-queue.cpp, erase takes out one timer only).   *)
KilledIsGone ==
    \A i \in TimerIds : Cardinality({x \in ms_timers : x.id = i}) = IF i \in armed THEN 1 ELSE 0

-----------------------------------------------------------------------------
(* Liveness.                                                               *)

(* A task posted is begun, unless the pool is ended.                       *)
TaskRuns == \A x \in Tasks : (x \in posted) ~> (begun[x] > 0 \/ m_exit_flag)

(* A timer that is due fires until it is not, unless the pool is ended.    *)
TimerFires == IsDue ~> (~IsDue \/ m_exit_flag)

(* end() returns.                                                          *)
EndReturns == \A c \in Callers : (pc[c] = "broadcast") ~> (pc[c] = "ended")
=============================================================================
