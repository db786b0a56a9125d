---------------------------- MODULE AliveTimeout ----------------------------
(***************************************************************************)
(* When an accepted link has expired: mt_last_alive_time, who refreshes    *)
(* it, is_alive and check_link_timeout.  Time is kept as ages, which stop  *)
(* at Limit, so that it may go on for ever: the age of the stamp by the    *)
(* clock, which may be set, and the true ages of what the link did.        *)
(* Listeners and links made by ms_tcp_connect never expire and are not     *)
(* here (mb_need_check_alive, link_TypeListen).                            *)
(* A definition named ...Faulty is the one after it with a bug seeded.     *)
(***************************************************************************)
EXTENDS Integers

CONSTANTS
    Links,          \* the accepted connections
    Limit,          \* ui_check_alive_timeout
    Jumps           \* by how much the clock may be set, once, on or back

ConstantsOK == Limit \in Nat \ {0} /\ Jumps \subseteq -Limit .. Limit

VARIABLES
    table,          \* m_maplink
    stamp,          \* stamp[l]: clock minus mt_last_alive_time
    silent,         \* silent[l]: how long ago the last data came, or the
                    \* accept loop that took the connection began
    looping,        \* the worker is in the loop of on_event_accept
    st_time,        \* clock minus the st_time that it has read before it
    began,          \* how long ago that was
    fresh,          \* the link it has added and not yet given that time
    waiting,        \* the links with data on their list
    mb_send_flag,
    expired,        \* link_list of check_link_timeout, left to destroy
    verdict,        \* history: silent[l] when l was put there
    clock           \* history: "kept", or set "on" or "back"

loopVars == <<looping, st_time, began, fresh>>
vars == <<table, stamp, silent, loopVars, waiting, mb_send_flag, expired, verdict, clock>>
Age == 0 .. Limit

TypeOK ==
    /\ table \subseteq Links /\ expired \subseteq Links /\ waiting \subseteq Links
    /\ stamp \in [Links -> -Limit .. Limit]
    /\ silent \in [Links -> Age] /\ verdict \in [Links -> Age]
    /\ looping \in BOOLEAN /\ st_time \in -Limit .. Limit /\ began \in Age /\ fresh \subseteq Links
    /\ mb_send_flag \in BOOLEAN /\ clock \in {"kept", "on", "back"}

Init ==
    /\ table = {} /\ expired = {} /\ waiting = {} /\ mb_send_flag = FALSE /\ clock = "kept"
    /\ looping = FALSE /\ st_time = 0 /\ began = 0 /\ fresh = {}
    /\ stamp = [l \in Links |-> 0] /\ silent = [l \in Links |-> 0]
    /\ verdict = [l \in Links |-> Limit]

Capped(age) == IF age > Limit THEN Limit ELSE IF age < -Limit THEN -Limit ELSE age
Reset(ages, l) == [ages EXCEPT ![l] = 0]

-----------------------------------------------------------------------------
(* What refreshes the stamp.                                               *)

(* on_event_accept reads the clock once, before its loop.                  *)
OnEventAccept ==
    /\ ~looping /\ looping' = TRUE /\ st_time' = 0 /\ began' = 0
    /\ UNCHANGED <<table, stamp, silent, fresh, waiting, mb_send_flag, expired, verdict, clock>>
(* A connection taken in the loop has the time of its constructor, ...     *)
Accept(l) ==
    /\ looping /\ fresh = {} /\ l \notin table \cup expired
    /\ table' = table \cup {l} /\ fresh' = {l}
    /\ stamp' = Reset(stamp, l) /\ silent' = [silent EXCEPT ![l] = began]
    /\ UNCHANGED <<looping, st_time, began, waiting, mb_send_flag, expired, verdict, clock>>
(* ... and then that from before the loop.                                 *)
UpdateLinkTime(l) ==
    /\ l \in fresh /\ fresh' = {}
    /\ stamp' = [stamp EXCEPT ![l] = st_time]
    /\ UNCHANGED <<table, silent, looping, st_time, began, waiting, mb_send_flag, expired,
                   verdict, clock>>
(* No connection is left.                                                  *)
AcceptEnds ==
    /\ looping /\ fresh = {} /\ looping' = FALSE /\ st_time' = 0 /\ began' = 0
    /\ UNCHANGED <<table, stamp, silent, fresh, waiting, mb_send_flag, expired, verdict, clock>>

OnEventReadFaulty(l) ==
    /\ ~looping /\ l \in table
    /\ silent' = Reset(silent, l)
    /\ UNCHANGED <<table, stamp, loopVars, waiting, mb_send_flag, expired, verdict, clock>>
(* on_event_read                                                           *)
OnEventRead(l) ==
    /\ ~looping /\ l \in table
    /\ stamp' = Reset(stamp, l) /\ silent' = Reset(silent, l)
    /\ UNCHANGED <<table, loopVars, waiting, mb_send_flag, expired, verdict, clock>>

(* link_send with a short write, whose rest is put on the list.  A write   *)
(* of everything returns before the refresh and changes nothing here.      *)
LinkSend(l) ==
    /\ l \in table \ fresh /\ stamp' = Reset(stamp, l)
    /\ waiting' = waiting \cup {l} /\ mb_send_flag' = TRUE
    /\ UNCHANGED <<table, silent, loopVars, expired, verdict, clock>>

(* do_send_buff: every link in the table is refreshed; the lists of some   *)
(* are sent.  With data for a connection that was reset it does not end.   *)
DoSendBuff ==
    /\ ~looping /\ mb_send_flag
    /\ stamp' = [l \in Links |-> IF l \in table THEN 0 ELSE stamp[l]]
    /\ \E sent \in SUBSET (waiting \cap table) : waiting' = waiting \ sent
    /\ mb_send_flag' = (waiting' \cap table # {})
    /\ UNCHANGED <<table, silent, loopVars, expired, verdict, clock>>

-----------------------------------------------------------------------------
(* The timeout thread.                                                     *)

IsAliveFaulty(l) == stamp[l] \in 0 .. Limit - 1
(* is_alive; a stamp in the future is set to the clock.                    *)
IsAlive(l) == stamp[l] < Limit

CheckLinkTimeout ==
    /\ expired = {}
    /\ expired' = {l \in table : ~IsAlive(l)}
    /\ stamp' = [l \in Links |-> IF l \in table /\ stamp[l] < 0 THEN 0 ELSE stamp[l]]
    /\ verdict' = [l \in Links |-> IF l \in expired' THEN silent[l] ELSE Limit]
    /\ UNCHANGED <<table, silent, loopVars, waiting, mb_send_flag, clock>>

LinkDestroyFaulty(l) ==
    /\ l \in expired /\ expired' = {}
    /\ table' = table \ {l} /\ waiting' = waiting \ {l}
    /\ UNCHANGED <<stamp, silent, loopVars, mb_send_flag, verdict, clock>>
(* link_destroy, whatever the link has done since the check                *)
LinkDestroy(l) ==
    /\ l \in expired /\ expired' = expired \ {l}
    /\ table' = table \ {l} /\ waiting' = waiting \ {l}
    /\ verdict' = [verdict EXCEPT ![l] = Limit]
    /\ UNCHANGED <<stamp, silent, loopVars, mb_send_flag, clock>>

Older(ages) == [l \in Links |-> IF l \in table THEN Capped(ages[l] + 1) ELSE 0]
Tick ==
    /\ silent' = Older(silent) /\ stamp' = Older(stamp)
    /\ st_time' = (IF looping THEN Capped(st_time + 1) ELSE 0)
    /\ began' = (IF looping THEN Capped(began + 1) ELSE 0)
    /\ UNCHANGED <<table, looping, fresh, waiting, mb_send_flag, expired, verdict, clock>>

SetClock(d) ==
    /\ clock = "kept" /\ clock' = IF d > 0 THEN "on" ELSE "back"
    /\ stamp' = [l \in Links |-> IF l \in table THEN Capped(stamp[l] + d) ELSE 0]
    /\ st_time' = (IF looping THEN Capped(st_time + d) ELSE 0)
    /\ UNCHANGED <<table, silent, looping, began, fresh, waiting, mb_send_flag, expired, verdict>>

TimerStep == CheckLinkTimeout \/ \E l \in Links : LinkDestroy(l)
Next ==
    \/ \E l \in Links : Accept(l) \/ UpdateLinkTime(l) \/ OnEventRead(l) \/ LinkSend(l)
    \/ OnEventAccept \/ AcceptEnds
    \/ DoSendBuff \/ TimerStep \/ Tick
    \/ \E d \in Jumps : SetClock(d)

Spec == Init /\ [][Next]_vars

(* Time goes by and the timeout thread runs; do_send_buff need not return. *)
FairSpec == /\ Spec /\ WF_vars(Tick)
            /\ WF_vars(CheckLinkTimeout) /\ \A l \in Links : WF_vars(LinkDestroy(l))

-----------------------------------------------------------------------------
(* Safety.                                                                 *)

(* Unless the clock was set forward, a link is found expired only if no    *)
(* data came for Limit, since the loop that accepted it began: no refresh  *)
(* is forgotten on the way (is_alive against on_event_accept and           *)
(* on_event_read), and a clock set back ends no link early.                *)
ExpiredWasSilent == clock = "on" \/ \A l \in expired : verdict[l] = Limit

-----------------------------------------------------------------------------
(* Liveness.                                                               *)

(* The comment at ui_check_alive_timeout (tcp-link.h:76): "delete socket   *)
(* when no recv data after accept 5 min."  It is deleted, if from some     *)
(* time on no link has data to be sent: do_send_buff refreshes them all.   *)
SilentIsDropped ==
    <>[]~mb_send_flag =>
        \A l \in Links : (l \in table /\ silent[l] = Limit) ~> (l \notin table \/ silent[l] < Limit)
=============================================================================
