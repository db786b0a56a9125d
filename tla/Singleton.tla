----------------------------- MODULE Singleton ------------------------------
(***************************************************************************)
(* CSingletonHandler::Instance and Release (singletonHandler.h), with the  *)
(* mutex as the futex word glibc makes of it: 0 is free, 1 taken, 2 taken  *)
(* with sleepers.  pthread_mutex_init sets it to 0, whoever holds it.      *)
(* "m_pInstance = new T" may store the pointer before the object is built, *)
(* since nothing orders the two for a thread that reads without the lock.  *)
(* An object is a number, 0 is NULL.                                       *)
(* A definition named ...Faulty is the one after it with a bug seeded.     *)
(***************************************************************************)
EXTENDS Naturals, FiniteSets

CONSTANTS
    Thread,         \* the threads
    Main,           \* the one that calls ms_tcp_init and ms_tcp_uninit
    Cold,           \* TRUE: the first calls may come from any threads
    MaxObjects      \* bound on the objects made

ConstantsOK ==
    Main \in Thread /\ IsFiniteSet(Thread) /\ MaxObjects \in Nat \ {0} /\ Cold \in BOOLEAN

VARIABLES
    m_pInstance, m_Lock,
    sleeping,       \* the threads in futex_wait
    made,           \* how many objects have been made
    alive, built,   \* the objects not deleted, those constructed
    pc, releases,   \* per thread: where it is, whether it is in Release
    got,            \* per thread: what Instance returned, or what it builds
    wiped           \* history: the mutex was initialised while a thread slept

vars == <<m_pInstance, m_Lock, sleeping, made, alive, built, pc, releases, got, wiped>>

InsidePC == {"test", "init", "lock", "lockSlow", "asleep", "testAgain", "build", "store",
             "unlock", "return"}

TypeOK ==
    /\ m_pInstance \in alive \cup {0} /\ m_Lock \in 0..2 /\ made \in 0..MaxObjects
    /\ sleeping \subseteq Thread /\ alive \subseteq 1..made /\ built \subseteq 1..made
    /\ pc \in [Thread -> InsidePC \cup {"out", "use"}]
    /\ releases \in [Thread -> BOOLEAN] /\ got \in [Thread -> 0..MaxObjects]
    /\ wiped \in BOOLEAN

Init ==
    /\ m_pInstance = 0 /\ m_Lock = 0 /\ sleeping = {} /\ made = 0
    /\ alive = {} /\ built = {}
    /\ pc = [t \in Thread |-> "out"] /\ releases = [t \in Thread |-> FALSE]
    /\ got = [t \in Thread |-> 0] /\ wiped = FALSE

Goto(t, from, to) == pc[t] = from /\ pc' = [pc EXCEPT ![t] = to]
objects == <<m_pInstance, made, alive, built, got>>
mutex == <<m_Lock, sleeping, wiped>>

(* Who calls when: main.cpp and ms_tcp_init come before every other call,  *)
(* ms_tcp_uninit after.                                                    *)
MayCall(t) ==
    \/ Cold
    \/ t = Main
    \/ m_pInstance # 0 /\ pc[Main] \in {"out", "use"}
MayRelease(t) == t = Main /\ (Cold \/ \A u \in Thread \ {t} : pc[u] = "out")

Inside == {t \in Thread : pc[t] \in InsidePC}
CallInstance(t) ==
    /\ MayCall(t) /\ made + Cardinality(Inside) < MaxObjects /\ Goto(t, "out", "test") /\ releases' = [releases EXCEPT ![t] = FALSE]
    /\ UNCHANGED <<objects, mutex>>
CallRelease(t) ==
    /\ MayRelease(t) /\ Goto(t, "out", "test") /\ releases' = [releases EXCEPT ![t] = TRUE]
    /\ UNCHANGED <<objects, mutex>>

IsWantedFaulty(t) == TRUE
(* The test made twice: Instance goes on when there is no object, Release  *)
(* when there is one.                                                      *)
IsWanted(t) == (m_pInstance # 0) = releases[t]

Test(t) ==
    /\ \/ ~IsWanted(t) /\ Goto(t, "test", "return")
       \/ IsWanted(t) /\ Goto(t, "test", IF releases[t] THEN "lock" ELSE "init")
    /\ UNCHANGED <<objects, mutex, releases>>

(* pthread_mutex_init; Release does not call it.                           *)
InitLock(t) ==
    /\ Goto(t, "init", "lock") /\ m_Lock' = 0
    /\ wiped' = (wiped \/ m_Lock = 2)
    /\ UNCHANGED <<objects, sleeping, releases>>

(* pthread_mutex_lock                                                      *)
Lock(t) ==
    /\ \/ m_Lock = 0 /\ m_Lock' = 1 /\ Goto(t, "lock", "testAgain")
       \/ m_Lock # 0 /\ UNCHANGED m_Lock /\ Goto(t, "lock", "lockSlow")
    /\ UNCHANGED <<objects, sleeping, wiped, releases>>
(* A thread that has slept takes the mutex with the mark of sleepers.      *)
LockSlow(t) ==
    /\ m_Lock' = 2
    /\ \/ m_Lock = 0 /\ Goto(t, "lockSlow", "testAgain") /\ UNCHANGED sleeping
       \/ m_Lock # 0 /\ Goto(t, "lockSlow", "asleep") /\ sleeping' = sleeping \cup {t}
    /\ UNCHANGED <<objects, wiped, releases>>
Wake(t) ==
    /\ t \notin sleeping /\ Goto(t, "asleep", "lockSlow")
    /\ UNCHANGED <<objects, mutex, releases>>

UnlockFaulty(t) ==
    /\ Goto(t, "unlock", "return") /\ UNCHANGED <<objects, mutex, releases>>
(* pthread_mutex_unlock wakes one thread if the word says there are any.   *)
Unlock(t) ==
    /\ Goto(t, "unlock", "return") /\ m_Lock' = 0
    /\ IF m_Lock = 2 /\ sleeping # {} THEN \E u \in sleeping : sleeping' = sleeping \ {u}
       ELSE UNCHANGED sleeping
    /\ UNCHANGED <<objects, wiped, releases>>

TestAgain(t) ==
    /\ ~IsWanted(t) /\ Goto(t, "testAgain", "unlock")
    /\ UNCHANGED <<objects, mutex, releases>>

(* new T, the constructor and the store of the pointer in either order     *)
New(t) ==
    /\ ~releases[t] /\ IsWanted(t)
    /\ made' = made + 1 /\ alive' = alive \cup {made'}
    /\ got' = [got EXCEPT ![t] = made']
    /\ \/ Goto(t, "testAgain", "build") /\ m_pInstance' = made' /\ UNCHANGED built
       \/ Goto(t, "testAgain", "store") /\ built' = built \cup {made'} /\ UNCHANGED m_pInstance
    /\ UNCHANGED <<mutex, releases>>
Build(t) ==
    /\ Goto(t, "build", "unlock") /\ built' = built \cup {got[t]}
    /\ UNCHANGED <<m_pInstance, made, alive, got, mutex, releases>>
Store(t) ==
    /\ Goto(t, "store", "unlock") /\ m_pInstance' = got[t]
    /\ UNCHANGED <<made, alive, built, got, mutex, releases>>

DeleteFaulty(t) ==
    /\ releases[t] /\ IsWanted(t) /\ Goto(t, "testAgain", "unlock")
    /\ alive' = alive \ {m_pInstance}
    /\ UNCHANGED <<m_pInstance, built, made, got, mutex, releases>>
(* delete and reset, in Release                                            *)
Delete(t) ==
    /\ releases[t] /\ IsWanted(t) /\ Goto(t, "testAgain", "unlock")
    /\ alive' = alive \ {m_pInstance} /\ m_pInstance' = 0
    /\ UNCHANGED <<built, made, got, mutex, releases>>

Return(t) ==
    /\ Goto(t, "return", IF releases[t] THEN "out" ELSE "use")
    /\ got' = [got EXCEPT ![t] = m_pInstance]
    /\ UNCHANGED <<m_pInstance, made, alive, built, mutex, releases>>
(* The caller is done with the object.                                     *)
Used(t) ==
    /\ Goto(t, "use", "out") /\ UNCHANGED <<objects, mutex, releases>>

Step(t) ==
    \/ Test(t) \/ InitLock(t) \/ Lock(t) \/ LockSlow(t) \/ Wake(t) \/ TestAgain(t) \/ New(t)
    \/ Build(t) \/ Store(t) \/ Delete(t) \/ Unlock(t) \/ Return(t) \/ Used(t)
Next == \E t \in Thread : CallInstance(t) \/ CallRelease(t) \/ Step(t)

Spec == Init /\ [][Next]_vars
(* A thread that is in a call goes on.                                     *)
FairSpec == Spec /\ \A t \in Thread : WF_vars(Step(t))

-----------------------------------------------------------------------------
(* The comment at Instance (singletonHandler.h:39): the first call checks  *)
(* for concurrency by "DoubleCheckNull", so that there is never a second   *)
(* object (one would be leaked, and the callers would work on two).        *)
OneObject == Cardinality(alive) <= 1

(* What Instance returns is an object that is complete and stays for as    *)
(* long as the caller uses it.                                             *)
UsesWhatIs == \A t \in Thread : pc[t] = "use" => got[t] \in alive \cap built

(* A thread sleeps only while another holds the mutex and the word says    *)
(* that there are sleepers, or while one has been woken and will try: no   *)
(* sleep without end.  Only a first call that initialises the mutex while  *)
(* somebody sleeps breaks this.                                            *)
Holding == {"testAgain", "build", "store", "unlock"}
SleepersAreWoken ==
    sleeping # {} /\ ~wiped =>
        \/ m_Lock = 2 /\ \E t \in Thread : pc[t] \in Holding
        \/ \E t \in Thread \ sleeping : pc[t] \in {"asleep", "lockSlow"}

(* Nobody stays in Instance or Release for ever.                           *)
CallsReturn == \A t \in Thread : pc[t] = "test" ~> pc[t] \in {"use", "out"}
=============================================================================
