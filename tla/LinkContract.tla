---------------------------- MODULE LinkContract ----------------------------
(***************************************************************************)
(* What the TCP wrapper promises about a link to the application, without  *)
(* threads, locks, sockets or epoll: the handle can be found or not, and   *)
(* the callback gets events.  Whoever builds on the wrapper - a table of   *)
(* clients, a protocol - can rely on this and on nothing else: handles are *)
(* not reused, the first event about one announces it, it does not go      *)
(* before that, CLOSED comes only when it can be found no more, and once   *)
(* it has gone one of CLOSED and DISCONNECTED comes.  Nothing is promised  *)
(* about the other events: RECEIVEDATA may follow CLOSED.                  *)
(*                                                                         *)
(* There is one way out: a link that the timeout thread destroys before    *)
(* the application has been told of it (Hurry).  Events about such a link  *)
(* come in any order, and its end may never be reported.                   *)
(***************************************************************************)
EXTENDS Naturals

CONSTANT Links      \* the links there will ever be

VARIABLES
    status,         \* status[l]: "none" before, "live" in the table, "dead" after
    told,           \* told[l]: the kinds of event the callback got about l
    hasty           \* the links destroyed before they were announced

contractVars == <<status, told, hasty>>

Kinds == {"CREATED", "ACCEPTED", "CONNECTED", "RECEIVEDATA", "DISCONNECTED", "CLOSED"}
Announces == {"CREATED", "ACCEPTED"}
Farewells == {"CLOSED", "DISCONNECTED"}

Announced(l) == told[l] \cap Announces # {}

Init == /\ status = [l \in Links |-> "none"]
        /\ told = [l \in Links |-> {}]
        /\ hasty = {}

(* A link enters the table.                                                *)
Publish(l) ==
    /\ status[l] = "none"
    /\ status' = [status EXCEPT ![l] = "live"]
    /\ UNCHANGED <<told, hasty>>

(* The callback gets event e.                                              *)
Deliver(l, e) ==
    /\ status[l] # "none"
    /\ e \in Announces \/ Announced(l) \/ l \in hasty
    /\ e = "CLOSED" => status[l] = "dead" \/ l \in hasty
    /\ told' = [told EXCEPT ![l] = @ \cup {e}]
    /\ UNCHANGED <<status, hasty>>

(* A link leaves the table, for good.                                      *)
Remove(l) ==
    /\ status[l] = "live" /\ Announced(l)
    /\ status' = [status EXCEPT ![l] = "dead"]
    /\ UNCHANGED <<told, hasty>>

(* It is destroyed before it was announced, and may stay in the table.     *)
Hurry(l) ==
    /\ status[l] # "none" /\ ~Announced(l)
    /\ hasty' = hasty \cup {l}
    /\ status' \in {status, [status EXCEPT ![l] = "dead"]}
    /\ UNCHANGED told

Next == \E l \in Links : \/ Publish(l) \/ Remove(l) \/ Hurry(l)
                         \/ \E e \in Kinds : Deliver(l, e)

Spec == Init /\ [][Next]_contractVars

(* The application hears in the end of every link that has gone.           *)
Farewell == \A l \in Links : (status[l] = "dead" /\ l \notin hasty)
                                 ~> (told[l] \cap Farewells # {})
=============================================================================
