---------------------------- MODULE Descriptors -----------------------------
(***************************************************************************)
(* The descriptors behind TCP links: who takes one, who gives it back, and *)
(* what happens when they run out (tcp-link.cpp, ms-epoll.cpp).  Links are *)
(* the application's own, from ms_tcp_create, or guests, accepted on a     *)
(* listener that is always there.  The descriptor -1 is 0 here.            *)
(* A definition named ...Faulty is the one after it with a bug seeded.     *)
(***************************************************************************)
EXTENDS Naturals, FiniteSets

CONSTANTS
    Own, Guest,     \* the links that may be made, and those that may be accepted
    Fds,            \* the descriptors the process may have
    NameFails       \* TRUE: getsockname may fail after accept

Link == Own \cup Guest
ConstantsOK ==
    /\ Own \cap Guest = {} /\ IsFiniteSet(Guest) /\ 0 \notin Link
    /\ NameFails \in BOOLEAN /\ 0 \notin Fds

VARIABLES
    mi_socket,      \* mi_socket[l]: the link's attribute
    stage,          \* stage[l]: "unmade", "failed", "listed" in m_maplink, or "gone"
    open,           \* the descriptors the kernel has open
    owner,          \* history: owner[f], the link for which f was last made
    connector,      \* connector[l]: where a failing ms_tcp_connect is
    destroyer,      \* destroyer[l]: where link_destroy is
    pending, edge,  \* connections that wait for accept, and whether epoll reports them
    accepting,      \* whether the worker is in on_event_accept
    struck          \* history: <<l, k>>: a call for link l has hit k's descriptor

threads == <<connector, destroyer>>
listener == <<pending, edge, accepting>>
vars == <<mi_socket, stage, open, owner, threads, listener, struck>>

TypeOK ==
    /\ mi_socket \in [Link -> Fds \cup {0}] /\ open \subseteq Fds
    /\ stage \in [Link -> {"unmade", "failed", "listed", "gone"}]
    /\ owner \in [Fds -> Link \cup {0}] /\ \A f \in open : owner[f] # 0
    /\ connector \in [Link -> {"idle", "found", "closed"}]
    /\ destroyer \in [Link -> {"idle", "del", "test", "shut"}]
    /\ pending \in 0..Cardinality(Guest) /\ edge \in BOOLEAN /\ accepting \in BOOLEAN
    /\ struck \subseteq Link \X Link

Init ==
    /\ mi_socket = [l \in Link |-> 0] /\ stage = [l \in Link |-> "unmade"]
    /\ open = {} /\ owner = [f \in Fds |-> 0]
    /\ connector = [l \in Link |-> "idle"] /\ destroyer = [l \in Link |-> "idle"]
    /\ pending = 0 /\ edge = FALSE /\ accepting = FALSE /\ struck = {}

Goto(thread, l, there) == [thread EXCEPT ![l] = there]
Move(l, a, b) == stage[l] = a /\ stage' = Goto(stage, l, b)
Unmade == {l \in Link : stage[l] = "unmade"}

(* The kernel gives a descriptor to a new link.                            *)
Take(l, f) ==
    /\ f \in Fds \ open /\ open' = open \cup {f} /\ owner' = [owner EXCEPT ![f] = l]
    /\ mi_socket' = [mi_socket EXCEPT ![l] = f]
Hit(l) == LET f == mi_socket[l] IN
    struck' = IF f \in open /\ owner[f] # l THEN struck \cup {<<l, owner[f]>>} ELSE struck

-----------------------------------------------------------------------------
(* The application's calls.                                                *)

LinkCreate(l) ==
    /\ l \in Own /\ Move(l, "unmade", "listed") /\ \E f \in Fds : Take(l, f)
    /\ UNCHANGED <<threads, listener, struck>>
BindFailsFaulty(l) ==
    /\ l \in Own /\ Move(l, "unmade", "failed")
    /\ \E f \in Fds \ open : open' = open \cup {f} /\ owner' = [owner EXCEPT ![f] = l]
    /\ UNCHANGED <<mi_socket, threads, listener, struck>>
(* socket or bind fails: the object is deleted, the socket closed.         *)
BindFails(l) ==
    /\ l \in Own /\ Move(l, "unmade", "failed")
    /\ UNCHANGED <<mi_socket, open, owner, threads, listener, struck>>

FindLink(l) ==
    /\ l \in Own /\ stage[l] = "listed"
    /\ connector[l] = "idle" /\ connector' = Goto(connector, l, "found")
    /\ UNCHANGED <<mi_socket, stage, open, owner, destroyer, listener, struck>>
Connected(l) ==
    /\ connector[l] = "found" /\ connector' = Goto(connector, l, "idle")
    /\ UNCHANGED <<mi_socket, stage, open, owner, destroyer, listener, struck>>
(* connect fails at once: the socket is closed, then forgotten.            *)
ConnectFails(l) ==
    /\ connector[l] = "found" /\ connector' = Goto(connector, l, "closed")
    /\ open' = open \ {mi_socket[l]}
    /\ UNCHANGED <<mi_socket, stage, owner, destroyer, listener, struck>>
ResetSocketFaulty(l) ==
    /\ connector[l] = "closed" /\ connector' = Goto(connector, l, "idle")
    /\ UNCHANGED <<mi_socket, stage, open, owner, destroyer, listener, struck>>
ResetSocket(l) ==
    /\ connector[l] = "closed" /\ connector' = Goto(connector, l, "idle")
    /\ mi_socket' = [mi_socket EXCEPT ![l] = 0]
    /\ UNCHANGED <<stage, open, owner, destroyer, listener, struck>>

-----------------------------------------------------------------------------
(* link_destroy, by the application or the timeout thread, and the hang-up *)
(* branch of the worker.  del_link takes the descriptor out of epoll.      *)

Doom(l) ==
    /\ stage[l] = "listed" /\ destroyer[l] = "idle" /\ destroyer' = Goto(destroyer, l, "del")
    /\ UNCHANGED <<mi_socket, stage, open, owner, connector, listener, struck>>
DelLink(l) ==
    /\ destroyer[l] = "del" /\ destroyer' = Goto(destroyer, l, "test")
    /\ \/ Move(l, "listed", "gone") /\ Hit(l)
       \/ stage[l] = "gone" /\ UNCHANGED <<stage, struck>>
    /\ UNCHANGED <<mi_socket, open, owner, connector, listener>>
TestSocket(l) ==
    /\ destroyer[l] = "test"
    /\ destroyer' = Goto(destroyer, l, IF mi_socket[l] = 0 THEN "idle" ELSE "shut")
    /\ UNCHANGED <<mi_socket, stage, open, owner, connector, listener, struck>>
Shutdown(l) ==
    /\ destroyer[l] = "shut" /\ destroyer' = Goto(destroyer, l, "idle")
    /\ Hit(l) /\ mi_socket' = [mi_socket EXCEPT ![l] = 0]
    /\ UNCHANGED <<stage, open, owner, connector, listener>>
HangUp(l) ==
    /\ Move(l, "listed", "gone") /\ ~accepting /\ Hit(l)
    /\ UNCHANGED <<mi_socket, open, owner, threads, listener>>

-----------------------------------------------------------------------------
(* on_event_accept.                                                        *)

(* A guest sends its SYN.                                                  *)
Arrive ==
    /\ pending < Cardinality(Guest \cap Unmade) /\ pending' = pending + 1 /\ edge' = TRUE
    /\ UNCHANGED <<mi_socket, stage, open, owner, threads, accepting, struck>>
OnEventAccept ==
    /\ edge /\ ~accepting /\ edge' = FALSE /\ accepting' = TRUE
    /\ UNCHANGED <<mi_socket, stage, open, owner, threads, pending, struck>>
AcceptFaulty(l) ==
    /\ accepting /\ pending > 0 /\ l \in Guest /\ Move(l, "unmade", "listed")
    /\ \E f \in Fds : Take(l, f)
    /\ pending' = pending - 1 /\ accepting' = FALSE /\ UNCHANGED <<threads, edge, struck>>
Accept(l) ==
    /\ accepting /\ pending > 0 /\ l \in Guest /\ Move(l, "unmade", "listed")
    /\ \E f \in Fds : Take(l, f)
    /\ pending' = pending - 1 /\ UNCHANGED <<threads, edge, accepting, struck>>
AcceptUnnamedFaulty(l) ==
    /\ NameFails /\ accepting /\ pending > 0
    /\ l \in Guest /\ Move(l, "unmade", "failed")
    /\ \E f \in Fds \ open : open' = open \cup {f} /\ owner' = [owner EXCEPT ![f] = l]
    /\ pending' = pending - 1 /\ accepting' = FALSE
    /\ UNCHANGED <<mi_socket, threads, edge, struck>>
(* getsockname fails: the connection is closed, and the loop is left.      *)
AcceptUnnamed(l) ==
    /\ NameFails /\ accepting /\ pending > 0 /\ open # Fds
    /\ l \in Guest /\ Move(l, "unmade", "failed")
    /\ pending' = pending - 1 /\ accepting' = FALSE
    /\ UNCHANGED <<mi_socket, open, owner, threads, edge, struck>>
(* EAGAIN, or EMFILE                                                       *)
AcceptEnds ==
    /\ accepting /\ (pending = 0 \/ open = Fds) /\ accepting' = FALSE
    /\ UNCHANGED <<mi_socket, stage, open, owner, threads, pending, edge, struck>>

Worker == OnEventAccept \/ AcceptEnds \/ \E l \in Guest : Accept(l) \/ AcceptUnnamed(l)
Next ==
    \/ Arrive \/ Worker
    \/ \E l \in Link :
        \/ LinkCreate(l) \/ BindFails(l)
        \/ FindLink(l) \/ Connected(l) \/ ConnectFails(l) \/ ResetSocket(l)
        \/ Doom(l) \/ DelLink(l) \/ TestSocket(l) \/ Shutdown(l) \/ HangUp(l)

Spec == Init /\ [][Next]_vars
FairSpec == Spec /\ WF_vars(Worker)

-----------------------------------------------------------------------------
(* Safety.                                                                 *)

(* A descriptor that is open is the socket of the link it was made for, or *)
(* that link has left the table: a bind, connect or accept that fails      *)
(* leaves none behind, however the calls overlap.                          *)
LeaksAreEnds ==
    \A f \in open : mi_socket[owner[f]] = f \/ stage[owner[f]] = "gone"
(* Each link in the table has a descriptor of its own, or none; the one    *)
(* exception is a link whose failed connect has closed its socket and not  *)
(* yet reset mi_socket, while the kernel gives the number to another.      *)
OwnDescriptor ==
    \A l \in Link : stage[l] = "listed" =>
        mi_socket[l] = 0 \/ (mi_socket[l] \in open /\ owner[mi_socket[l]] = l)
            \/ connector[l] = "closed"
(* What is done for a link, epoll_ctl or shutdown, hits another's socket   *)
(* only in that gap, when the link is destroyed from another thread: never *)
(* for a link that was accepted.                                           *)
GapIsOpen(l) == connector[l] = "closed"
StrikesAreRaced == [][\A pair \in struck' \ struck : GapIsOpen(pair[1])]_vars

(* A link that has been destroyed, because check_link_timeout found it     *)
(* expired for one, has no descriptor open.  Not so: it is only shut down. *)
Ended(l) == stage[l] = "gone" /\ mi_socket[l] = 0
EndedIsClosed == \A f \in open : ~Ended(owner[f])

-----------------------------------------------------------------------------
(* Liveness.                                                               *)

(* When epoll reports the listener, all who have connected are accepted,   *)
(* unless the process has no descriptor left or getsockname fails for one: *)
(* then those behind it wait, for no further edge comes for them.          *)
ReportedIsTaken ==
    edge ~> (pending = 0 \/ open = Fds \/ \E l \in Guest : stage[l] = "failed")
=============================================================================
