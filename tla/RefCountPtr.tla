---------------------------- MODULE RefCountPtr -----------------------------
(***************************************************************************)
(* CRefCountPtr (Guard.h): counted pointers to objects, the pointers of    *)
(* several threads and those in a table.  An object and the counter that   *)
(* comes with it (m_pRef) are one number; 0 is a null pointer.  As in the  *)
(* wrapper, a pointer is used by its owner only and one in the table under *)
(* the table's mutex, here: by one operation at a time.                    *)
(* An operation is split where a counter is read, changed or deleted.      *)
(* A definition named ...Faulty is the one after it with a bug seeded.     *)
(***************************************************************************)
EXTENDS Naturals, FiniteSets

CONSTANTS
    Thread,
    Own,            \* Own[t]: the pointers on t's stack
    Table,          \* the pointers in the table
    MaxObjects      \* bound on the objects made

Ptr == Table \cup UNION {Own[t] : t \in Thread}
ConstantsOK ==
    /\ MaxObjects \in Nat /\ IsFiniteSet(Ptr)
    /\ \A t \in Thread : /\ Own[t] \cap Table = {}
                         /\ \A u \in Thread \ {t} : Own[t] \cap Own[u] = {}

Object == 1..MaxObjects

VARIABLES
    live,           \* the pointers that are constructed and not destroyed
    m_pObj, m_pRef, \* per pointer: its object and its counter, 0 for null
    count,          \* count[o]: *m_pRef
    made,           \* how many objects have been made
    deleted,        \* the objects deleted with their counters
    pc, to, from,   \* per thread: where it is, the pointer it changes, the one it reads
    misused         \* history: a deleted counter was read or deleted

vars == <<live, m_pObj, m_pRef, count, made, deleted, pc, to, from, misused>>

TypeOK ==
    /\ live \subseteq Ptr /\ deleted \subseteq 1..made /\ made \in 0..MaxObjects
    /\ m_pObj \in [Ptr -> 0..made] /\ m_pRef \in [Ptr -> 0..made]
    /\ count \in [Object -> 0..(Cardinality(Ptr) + 1)]
    /\ pc \in [Thread -> {"idle", "test", "sub", "delete", "take", "add"}]
    /\ \A t \in Thread : pc[t] # "idle" => to[t] \in Ptr /\ from[t] \in Ptr
    /\ misused \in BOOLEAN

Init ==
    /\ live = {} /\ m_pObj = [p \in Ptr |-> 0] /\ m_pRef = [p \in Ptr |-> 0]
    /\ count = [o \in Object |-> 0] /\ made = 0 /\ deleted = {} /\ misused = FALSE
    /\ pc = [t \in Thread |-> "idle"]
    /\ to = [t \in Thread |-> CHOOSE p \in Ptr : TRUE] /\ from = to

Goto(t, here, there) == pc[t] = here /\ pc' = [pc EXCEPT ![t] = there]
heap == <<count, made, deleted, misused>>
ptrs == <<live, m_pObj, m_pRef>>

Busy(p) == \E t \in Thread : pc[t] # "idle" /\ p \in {to[t], from[t]}
Usable(t, p) == p \in Own[t] \/ (p \in Table /\ ~Busy(p))
Begin(t, p, q, step) ==
    /\ Usable(t, p) /\ Usable(t, q) /\ ~misused /\ Goto(t, "idle", step)
    /\ to' = [to EXCEPT ![t] = p] /\ from' = [from EXCEPT ![t] = q]

-----------------------------------------------------------------------------
(* The operations.                                                         *)

(* CRefCountPtr(): null                                                    *)
ConstructNull(t, p) ==
    /\ pc[t] = "idle" /\ Usable(t, p) /\ p \notin live /\ live' = live \cup {p}
    /\ m_pObj' = [m_pObj EXCEPT ![p] = 0] /\ m_pRef' = [m_pRef EXCEPT ![p] = 0]
    /\ UNCHANGED <<heap, pc, to, from>>

(* CRefCountPtr, from an object                                            *)
Construct(t, p) ==
    /\ pc[t] = "idle" /\ Usable(t, p) /\ p \notin live /\ live' = live \cup {p}
    /\ made < MaxObjects /\ made' = made + 1
    /\ m_pObj' = [m_pObj EXCEPT ![p] = made'] /\ m_pRef' = [m_pRef EXCEPT ![p] = made']
    /\ count' = [count EXCEPT ![made'] = 1]
    /\ UNCHANGED <<deleted, misused, pc, to, from>>

(* Both copy constructors; the one from another class differs in the type  *)
(* only.                                                                   *)
Copy(t, p, q) ==
    /\ Begin(t, p, q, IF m_pRef[q] = 0 THEN "idle" ELSE "add")
    /\ p \notin live /\ q \in live /\ live' = live \cup {p}
    /\ m_pObj' = [m_pObj EXCEPT ![p] = m_pObj[q]]
    /\ m_pRef' = [m_pRef EXCEPT ![p] = m_pRef[q]]
    /\ UNCHANGED heap

(* operator=, which releases first.  The wrapper assigns null only to null *)
(* and no pointer to itself: the one would leave p with a counter that it  *)
(* has given up, the other would use an object after its deletion.         *)
Assign(t, p, q) ==
    /\ Begin(t, p, q, "test") /\ p \in live /\ q \in live
    /\ p # q /\ (m_pObj[q] # 0 \/ m_pObj[p] = 0)
    /\ UNCHANGED <<ptrs, heap>>

DestroyFaulty(t, p) ==
    /\ Begin(t, p, p, "idle") /\ p \in live /\ live' = live \ {p}
    /\ UNCHANGED <<m_pObj, m_pRef, heap>>
(* The destructor                                                          *)
Destroy(t, p) ==
    /\ Begin(t, p, p, "test") /\ p \in live /\ live' = live \ {p}
    /\ UNCHANGED <<m_pObj, m_pRef, heap>>

-----------------------------------------------------------------------------
(* Their steps, p the pointer the thread works on.                         *)

Destroying(t) == to[t] \notin live
Done(t) == IF Destroying(t) THEN "idle" ELSE "take"
Touch(o) == misused' = (misused \/ o \in deleted)

(* Release, its first line                                                 *)
TestRef(t) ==
    LET o == m_pRef[to[t]] IN
    /\ Goto(t, "test", IF o # 0 /\ count[o] # 0 THEN "sub" ELSE Done(t))
    /\ Touch(o) /\ UNCHANGED <<ptrs, count, made, deleted, to, from>>

SubRefFaulty(t) ==
    LET o == m_pRef[to[t]] IN
    /\ Goto(t, "sub", IF count[o] = 0 THEN "delete" ELSE Done(t)) /\ Touch(o)
    /\ count' = [count EXCEPT ![o] = @ - 1]
    /\ UNCHANGED <<ptrs, made, deleted, to, from>>
(* Release: __sync_sub_and_fetch and its test                              *)
SubRef(t) ==
    LET o == m_pRef[to[t]] IN
    /\ Goto(t, "sub", IF count[o] = 1 THEN "delete" ELSE Done(t)) /\ Touch(o)
    /\ count' = [count EXCEPT ![o] = @ - 1]
    /\ UNCHANGED <<ptrs, made, deleted, to, from>>

(* Release: the last one deletes the object and the counter.               *)
Delete(t) ==
    LET p == to[t] IN
    /\ Goto(t, "delete", Done(t)) /\ Touch(m_pRef[p])
    /\ deleted' = deleted \cup {m_pRef[p]}
    /\ m_pObj' = [m_pObj EXCEPT ![p] = 0] /\ m_pRef' = [m_pRef EXCEPT ![p] = 0]
    /\ UNCHANGED <<live, count, made, to, from>>

TakeFaulty(t) ==
    LET p == to[t] q == from[t] IN
    /\ Goto(t, "take", "idle")
    /\ m_pObj' = [m_pObj EXCEPT ![p] = m_pObj[q]]
    /\ m_pRef' = [m_pRef EXCEPT ![p] = m_pRef[q]]
    /\ UNCHANGED <<live, heap, to, from>>
(* operator=, after the release: m_pRef is taken with an object only.      *)
Take(t) ==
    LET p == to[t] q == from[t] IN
    /\ Goto(t, "take", IF m_pObj[q] = 0 THEN "idle" ELSE "add")
    /\ m_pObj' = [m_pObj EXCEPT ![p] = m_pObj[q]]
    /\ m_pRef' = [m_pRef EXCEPT ![p] = IF m_pObj[q] = 0 THEN @ ELSE m_pRef[q]]
    /\ UNCHANGED <<live, heap, to, from>>

(* __sync_fetch_and_add of operator= and of the copy constructors          *)
AddRef(t) ==
    LET o == m_pRef[to[t]] IN
    /\ Goto(t, "add", "idle") /\ Touch(o) /\ count' = [count EXCEPT ![o] = @ + 1]
    /\ UNCHANGED <<ptrs, made, deleted, to, from>>

Step(t) == TestRef(t) \/ SubRef(t) \/ Delete(t) \/ Take(t) \/ AddRef(t)
Next ==
    \E t \in Thread :
        \/ Step(t)
        \/ \E p \in Ptr : ConstructNull(t, p) \/ Construct(t, p) \/ Destroy(t, p)
        \/ \E p, q \in Ptr : Copy(t, p, q) \/ Assign(t, p, q)

Spec == Init /\ [][Next]_vars

-----------------------------------------------------------------------------
(* Safety.                                                                 *)

(* How often o is held: by the pointers at rest, and by those between the  *)
(* two steps of a change, whose share is already or still in the counter.  *)
InStep(p, S) == \E t \in Thread : to[t] = p /\ pc[t] \in S
Holders(o) == {p \in Ptr : /\ m_pRef[p] = o
                           /\ \/ p \in live /\ ~InStep(p, {"delete", "take", "add"})
                              \/ InStep(p, {"test", "sub"})}

(* "A smart pointer by way of reference counts" (Guard.h:81): the counter  *)
(* says how many pointers hold the object ...                              *)
CountIsTrue == \A o \in 1..made : o \notin deleted => count[o] = Cardinality(Holders(o))

(* ... so that who holds an object finds it there, and no counter is used  *)
(* after it is gone, whatever the threads do with their own copies.        *)
HeldIsThere ==
    /\ ~misused
    /\ \A p \in live : ~Busy(p) /\ m_pObj[p] # 0 => m_pObj[p] \notin deleted

(* An object nobody holds is gone, or is just being deleted.               *)
UnheldIsGone ==
    \A o \in 1..made : o \in deleted \/ \E p \in Ptr : m_pRef[p] = o /\ (p \in live \/ Busy(p))
=============================================================================
