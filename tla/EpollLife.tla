----------------------------- MODULE EpollLife ------------------------------
(***************************************************************************)
(* Starting and ending the wrapper: MsEpoll::init and end (ms-epoll.cpp),  *)
(* and those of MsUdpEpoll, which have no timeout thread, with every step  *)
(* of init that may fail.  main calls ms_tcp_uninit whatever ms_tcp_init   *)
(* returned, and either may be called again.                               *)
(* The n-th epoll descriptor, its exit event and the threads started with  *)
(* it are n; 0 is -1, or no thread.                                        *)
(* A definition named ...Faulty is the one after it with a bug seeded.     *)
(***************************************************************************)
EXTENDS Naturals, FiniteSets

CONSTANTS
    HasTimer,       \* TRUE: MsEpoll, FALSE: MsUdpEpoll
    MaxInits        \* bound on the calls of init that get an epoll

ConstantsOK == HasTimer \in BOOLEAN /\ MaxInits \in Nat

Try == 1..MaxInits

VARIABLES
    mi_epoll_fd, mi_exit_event, m_pthread_id, m_pthread_timeout, mb_timeout_thread_flag,
    made,           \* how many epoll descriptors have been made
    open,           \* those not closed
    written,        \* the exit events that have been written
    worker,         \* worker[n]: where the n-th worker is
    waits,          \* waits[n]: the epoll descriptor it waits for
    timer,          \* timer[n]: where the n-th timeout thread is
    pc,             \* where the caller of init and end is
    links,          \* whether m_maplink may hold links
    stranded        \* history: a timeout thread could not be created

attrs == <<mi_epoll_fd, mi_exit_event, m_pthread_id, m_pthread_timeout, mb_timeout_thread_flag>>
threads == <<worker, waits, timer>>
vars == <<attrs, made, open, written, threads, pc, links, stranded>>

TypeOK ==
    /\ mi_epoll_fd \in open \cup {0} /\ mi_exit_event \in {0, mi_epoll_fd}
    /\ m_pthread_id \in 0..made /\ m_pthread_timeout \in 0..made
    /\ mb_timeout_thread_flag \in BOOLEAN /\ links \in BOOLEAN /\ stranded \in BOOLEAN
    /\ made \in 0..MaxInits /\ open \subseteq 1..made /\ written \subseteq 1..made
    /\ worker \in [Try -> {"none", "loop", "wait", "exited"}] /\ waits \in [Try -> 0..made]
    /\ timer \in [Try -> {"none", "check", "sleep", "exited"}]
    /\ pc \in {"idle", "event", "worker", "timer",
               "join", "flag", "joinTimer", "close", "free"}

(* MsEpoll::MsEpoll                                                        *)
Init ==
    /\ mi_epoll_fd = 0 /\ mi_exit_event = 0 /\ m_pthread_id = 0 /\ m_pthread_timeout = 0
    /\ mb_timeout_thread_flag = FALSE /\ made = 0 /\ open = {} /\ written = {}
    /\ worker = [n \in Try |-> "none"] /\ waits = [n \in Try |-> 0]
    /\ timer = [n \in Try |-> "none"] /\ pc = "idle" /\ links = FALSE /\ stranded = FALSE

Goto(here, there) == pc = here /\ pc' = there

-----------------------------------------------------------------------------
(* init.                                                                   *)

(* epoll_create; its failure changes nothing.                              *)
CreateEpoll ==
    /\ mi_epoll_fd = 0 /\ made < MaxInits /\ Goto("idle", "event")
    /\ made' = made + 1 /\ mi_epoll_fd' = made' /\ open' = open \cup {made'}
    /\ UNCHANGED <<mi_exit_event, m_pthread_id, m_pthread_timeout, mb_timeout_thread_flag,
                   written, threads, links, stranded>>

CloseBoth == open' = open \ {mi_epoll_fd} /\ mi_epoll_fd' = 0 /\ mi_exit_event' = 0

(* eventfd, and its registration                                           *)
CreateExitEvent ==
    /\ \/ /\ Goto("event", "worker") /\ mi_exit_event' = mi_epoll_fd
          /\ UNCHANGED <<mi_epoll_fd, open>>
       \/ Goto("event", "idle") /\ CloseBoth
    /\ UNCHANGED <<m_pthread_id, m_pthread_timeout, mb_timeout_thread_flag, made, written,
                   threads, links, stranded>>

(* ms_pthread_creat: the n-th thread of a kind is at its first step, or    *)
(* any of the calls that describe and create it has failed and nothing is  *)
(* left.                                                                   *)
MsPthreadCreat(kind, n, first) == {[kind EXCEPT ![n] = first], kind}

(* The table is cleared and the worker created.                            *)
StartWorker ==
    /\ pc = "worker" /\ links' = FALSE
    /\ worker' \in MsPthreadCreat(worker, made, "loop")
    /\ \/ /\ worker' # worker /\ m_pthread_id' = made
          /\ Goto("worker", IF HasTimer THEN "timer" ELSE "idle")
          /\ UNCHANGED <<mi_epoll_fd, mi_exit_event, open>>
       \/ worker' = worker /\ Goto("worker", "idle") /\ CloseBoth /\ UNCHANGED m_pthread_id
    /\ UNCHANGED <<m_pthread_timeout, mb_timeout_thread_flag, made, written, waits, timer, stranded>>

StartTimer ==
    /\ Goto("timer", "idle")
    /\ timer' \in MsPthreadCreat(timer, made, "check")
    /\ \/ /\ timer' # timer /\ m_pthread_timeout' = made /\ mb_timeout_thread_flag' = TRUE
          /\ UNCHANGED <<mi_epoll_fd, mi_exit_event, open, stranded>>
       \/ /\ timer' = timer /\ CloseBoth /\ mb_timeout_thread_flag' = FALSE
          /\ stranded' = TRUE /\ UNCHANGED m_pthread_timeout
    /\ UNCHANGED <<m_pthread_id, made, written, worker, waits, links>>

-----------------------------------------------------------------------------
(* end.                                                                    *)

WriteExitFaulty ==
    /\ Goto("idle", "join") /\ UNCHANGED written
    /\ UNCHANGED <<attrs, made, open, threads, links, stranded>>
WriteExit ==
    /\ Goto("idle", "join")
    /\ written' = written \cup ({mi_exit_event} \ {0})
    /\ UNCHANGED <<attrs, made, open, threads, links, stranded>>
JoinWorkerFaulty ==
    /\ Goto("join", "flag") /\ m_pthread_id' = 0
    /\ UNCHANGED <<mi_epoll_fd, mi_exit_event, m_pthread_timeout, mb_timeout_thread_flag,
                   made, open, written, threads, links, stranded>>
JoinWorker ==
    /\ m_pthread_id # 0 => worker[m_pthread_id] = "exited"
    /\ Goto("join", "flag") /\ m_pthread_id' = 0
    /\ UNCHANGED <<mi_epoll_fd, mi_exit_event, m_pthread_timeout, mb_timeout_thread_flag,
                   made, open, written, threads, links, stranded>>
ClearTimerFlag ==
    /\ Goto("flag", "joinTimer") /\ mb_timeout_thread_flag' = FALSE
    /\ UNCHANGED <<mi_epoll_fd, mi_exit_event, m_pthread_id, m_pthread_timeout,
                   made, open, written, threads, links, stranded>>
JoinTimer ==
    /\ m_pthread_timeout # 0 => timer[m_pthread_timeout] = "exited"
    /\ Goto("joinTimer", "close") /\ m_pthread_timeout' = 0
    /\ UNCHANGED <<mi_epoll_fd, mi_exit_event, m_pthread_id, mb_timeout_thread_flag,
                   made, open, written, threads, links, stranded>>
CloseFaulty ==
    /\ Goto("close", "free") /\ open' = open \ {mi_epoll_fd} /\ mi_exit_event' = 0
    /\ UNCHANGED <<mi_epoll_fd, m_pthread_id, m_pthread_timeout, mb_timeout_thread_flag,
                   made, written, threads, links, stranded>>
Close ==
    /\ Goto("close", "free") /\ CloseBoth
    /\ UNCHANGED <<m_pthread_id, m_pthread_timeout, mb_timeout_thread_flag,
                   made, written, threads, links, stranded>>
(* free_all_link_map, destroy_link_lock                                    *)
FreeAll ==
    /\ Goto("free", "idle") /\ links' = FALSE
    /\ UNCHANGED <<attrs, made, open, written, threads, stranded>>

-----------------------------------------------------------------------------
(* The threads.                                                            *)

(* epoll_wait of the descriptor that the object has now; it fails at once  *)
(* if that is closed, and the worker flushes and tries again.              *)
EnterWait(n) ==
    /\ worker[n] = "loop" /\ mi_epoll_fd # 0
    /\ worker' = [worker EXCEPT ![n] = "wait"] /\ waits' = [waits EXCEPT ![n] = mi_epoll_fd]
    /\ UNCHANGED <<attrs, made, open, written, timer, pc, links, stranded>>
(* A batch of events has been handled; links come and go with them.        *)
Handled(n) ==
    /\ worker[n] = "wait" /\ waits[n] \in open /\ waits[n] \notin written
    /\ worker' = [worker EXCEPT ![n] = "loop"] /\ links' \in BOOLEAN
    /\ UNCHANGED <<attrs, made, open, written, waits, timer, pc, stranded>>
WorkerExits(n) ==
    /\ worker[n] = "wait" /\ waits[n] \in written /\ waits[n] = mi_exit_event
    /\ worker' = [worker EXCEPT ![n] = "exited"]
    /\ UNCHANGED <<attrs, made, open, written, waits, timer, pc, links, stranded>>

(* timeoutThreadProc; a look at the table, then five seconds of sleep      *)
TimerStep(n) ==
    /\ \/ /\ timer[n] = "check"
          /\ timer' = [timer EXCEPT ![n] = IF mb_timeout_thread_flag THEN "sleep" ELSE "exited"]
       \/ timer[n] = "sleep" /\ timer' = [timer EXCEPT ![n] = "check"]
    /\ UNCHANGED <<attrs, made, open, written, worker, waits, pc, links, stranded>>

Start == CreateEpoll \/ CreateExitEvent \/ StartWorker \/ StartTimer
End == JoinWorker \/ ClearTimerFlag \/ JoinTimer \/ Close \/ FreeAll
Next ==
    \/ Start \/ WriteExit \/ End
    \/ \E n \in Try : EnterWait(n) \/ Handled(n) \/ WorkerExits(n) \/ TimerStep(n)

Spec == Init /\ [][Next]_vars
(* The caller goes on, and each thread runs.                               *)
FairSpec ==
    /\ Spec /\ WF_vars(End)
    /\ \A n \in Try : WF_vars(EnterWait(n)) /\ WF_vars(WorkerExits(n)) /\ WF_vars(TimerStep(n))

-----------------------------------------------------------------------------
(* Safety.                                                                 *)

Works(n) == worker[n] \in {"loop", "wait"}
Ticks(n) == timer[n] \in {"check", "sleep"}

(* The threads that run are those the object knows of, so that end can     *)
(* join them: one worker and one timeout thread at most, none when end     *)
(* frees the table they work on.  The exception is a timeout thread that   *)
(* could not be created: init then closes everything under the worker.     *)
ThreadsAreKnown ==
    stranded \/ \A n \in Try : (Works(n) => n = m_pthread_id) /\ (Ticks(n) => n = m_pthread_timeout)
NoneWhenFreed ==
    pc = "free" => \A n \in Try : ~Ticks(n) /\ (stranded \/ ~Works(n))

(* No worker waits for a descriptor that has been closed: nothing could    *)
(* wake it.                                                                *)
WaitsForOpen == stranded \/ \A n \in Try : worker[n] = "wait" => waits[n] \in open

-----------------------------------------------------------------------------
(* Liveness.                                                               *)

(* end returns.  With a worker that init has left behind it does not: it   *)
(* joins a thread that no exit event can reach.                            *)
EndReturns == (pc = "join") ~> (pc = "idle" \/ stranded)
=============================================================================
