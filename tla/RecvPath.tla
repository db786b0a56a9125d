------------------------------ MODULE RecvPath ------------------------------
(***************************************************************************)
(* How the bytes of one connection get from the socket to the callback:    *)
(* edge-triggered events, the worker's dispatch and on_event_read with its *)
(* buffer of 10 MB, here of Cap bytes.  The peer sends, ends the stream or *)
(* resets at any moment, between two reads too.  Only the worker acts on   *)
(* the link: destruction by others is TcpLink's subject.                   *)
(* A definition named ...Faulty is the one after it with a bug seeded.     *)
(***************************************************************************)
EXTENDS Integers, Sequences

CONSTANTS
    Bytes,          \* bound: the bytes the peer sends
    Cap,            \* i_recv_buff_size
    LinkTypes,      \* "Connect" (by ms_tcp_connect) and "Accept", or one of them
    Resets          \* whether the peer may reset

ConstantsOK ==
    /\ Bytes \in Nat /\ Cap \in 1..255        \* 10 MB, less than an unsigned may count
    /\ LinkTypes \subseteq {"Connect", "Accept"} /\ Resets \in BOOLEAN

Width == 256        \* ui_size is unsigned, 32 bits wide: here 8

VARIABLES
    sent,           \* the peer has sent bytes 1 .. sent
    ended,          \* what the peer has done since: "no", "fin" or "reset"
    queue,          \* the socket: bytes that have arrived and are not read
    events,         \* epoll: the events ready for the worker
    m_link_type, live,  \* the link: its type, whether it is in the table
    pc,             \* of the worker
    buffer,         \* what on_event_read has read
    i_recv_size,    \* its count of that
    told,           \* history: the END callbacks: ui_size, how many bytes p_RecvData has
    heard,          \* history: the bytes the callback has been given, one after the other
    closed          \* history: why the link is gone: "no", "hangup", "end"

peerVars == <<sent, ended>>
linkVars == <<m_link_type, live, closed>>
readVars == <<buffer, i_recv_size>>
toldVars == <<told, heard>>
vars == <<peerVars, queue, events, linkVars, pc, readVars, toldVars>>

Event == {"IN", "OUT", "RDHUP", "ERR"}

TypeOK ==
    /\ sent \in 0 .. Bytes /\ ended \in {"no", "fin", "reset", "reported"}
    /\ queue \in Seq(1 .. Bytes) /\ buffer \in Seq(1 .. Bytes)
    /\ events \subseteq Event
    /\ m_link_type \in {"Connect", "Connected", "Accept"} /\ live \in BOOLEAN
    /\ pc \in {"wait", "read", "end"}
    /\ i_recv_size \in -1 .. Cap
    /\ told \in Seq([ui_size : 0 .. Width - 1, size : 0 .. Cap]) /\ heard \in Seq(1 .. Bytes)
    /\ closed \in {"no", "hangup", "end"}

(* An accepted link is registered now, with a socket that may be written;  *)
(* one that connects waits for the handshake.                              *)
Init ==
    /\ sent = 0 /\ ended = "no" /\ queue = <<>>
    /\ m_link_type \in LinkTypes
    /\ events = IF m_link_type = "Connect" THEN {} ELSE {"OUT"}
    /\ live = TRUE /\ pc = "wait" /\ buffer = <<>> /\ i_recv_size = 0
    /\ told = <<>> /\ heard = <<>> /\ closed = "no"

-----------------------------------------------------------------------------
(* The peer and the kernel.                                                *)

(* The connection is established: an edge for writing.                     *)
Establish ==
    /\ m_link_type = "Connect" /\ live /\ "OUT" \notin events
    /\ events' = events \cup {"OUT"}
    /\ UNCHANGED <<peerVars, queue, linkVars, pc, readVars, toldVars>>
IsUp == m_link_type # "Connect" \/ "OUT" \in events

Arrives ==
    /\ IsUp /\ ended = "no" /\ sent < Bytes
    /\ sent' = sent + 1 /\ queue' = Append(queue, sent + 1)
    /\ events' = events \cup {"IN"}
    /\ UNCHANGED <<ended, linkVars, pc, readVars, toldVars>>
Fin ==
    /\ IsUp /\ ended = "no" /\ ended' = "fin"
    /\ events' = events \cup {"IN", "RDHUP"}
    /\ UNCHANGED <<sent, queue, linkVars, pc, readVars, toldVars>>
(* With a reset the bytes that were not read are gone.                     *)
Reset ==
    /\ IsUp /\ Resets /\ ended \in {"no", "fin"} /\ ended' = "reset"
    /\ queue' = <<>> /\ events' = events \cup {"IN", "RDHUP", "ERR"}
    /\ UNCHANGED <<sent, linkVars, pc, readVars, toldVars>>

-----------------------------------------------------------------------------
(* The worker.                                                             *)

IsDisconnectedFaulty(ev) == ev \cap {"ERR", "RDHUP", "OUT"} # {}
IsDisconnected(ev) == ev \cap {"ERR", "RDHUP"} # {}

HandleFaulty ==
    /\ pc = "wait" /\ live /\ events # {} /\ events' = {}
    /\ IF IsDisconnected(events)
       THEN live' = FALSE /\ closed' = "hangup" /\ UNCHANGED <<m_link_type, pc, readVars>>
       ELSE IF "OUT" \in events
       THEN m_link_type' = "Connected" /\ UNCHANGED <<live, closed, pc, readVars>>
       ELSE IF "IN" \in events
       THEN pc' = "read" /\ buffer' = <<>> /\ i_recv_size' = 0 /\ UNCHANGED linkVars
       ELSE UNCHANGED <<linkVars, pc, readVars>>
    /\ UNCHANGED <<peerVars, queue, toldVars>>
(* epoll_wait and the dispatch of the event.                               *)
Handle ==
    /\ pc = "wait" /\ live /\ events # {} /\ events' = {}
    /\ IF IsDisconnected(events)
       THEN live' = FALSE /\ closed' = "hangup" /\ UNCHANGED <<m_link_type, pc, readVars>>
       ELSE IF m_link_type = "Connect"
       THEN m_link_type' = "Connected" /\ UNCHANGED <<live, closed, pc, readVars>>
       ELSE IF "IN" \in events
       THEN pc' = "read" /\ buffer' = <<>> /\ i_recv_size' = 0 /\ UNCHANGED linkVars
       ELSE UNCHANGED <<linkVars, pc, readVars>>
    /\ UNCHANGED <<peerVars, queue, toldVars>>

RoomFaulty == Cap + 1 - i_recv_size
Room == Cap - i_recv_size

GotFaulty(n) == IF Len(buffer) < Cap THEN Append(buffer, queue[n]) ELSE buffer
Got(n) == buffer \o SubSeq(queue, 1, n)

ReadSome ==
    /\ pc = "read" /\ Room > 0
    /\ \E n \in 1 .. Len(queue) :
        /\ n <= Room
        /\ buffer' = Got(n) /\ i_recv_size' = i_recv_size + n
        /\ queue' = SubSeq(queue, n + 1, Len(queue))
    /\ UNCHANGED <<peerVars, events, linkVars, pc, toldVars>>
(* EAGAIN                                                                  *)
ReadNothing ==
    /\ pc = "read" /\ Room > 0 /\ queue = <<>> /\ ended = "no"
    /\ pc' = "end"
    /\ UNCHANGED <<peerVars, queue, events, linkVars, readVars, toldVars>>
(* ECONNRESET, reported once: taken for a success of -1 bytes.             *)
ReadReset ==
    /\ pc = "read" /\ Room > 0 /\ ended = "reset"
    /\ ended' = "reported" /\ i_recv_size' = i_recv_size - 1
    /\ UNCHANGED <<sent, queue, events, linkVars, pc, buffer, toldVars>>
AtEndFaulty == Room = 0 \/ queue = <<>>
(* read returns 0: the stream has ended, or the buffer is full.            *)
AtEnd == Room = 0 \/ (queue = <<>> /\ ended \in {"fin", "reported"})
ReadEnd ==
    /\ pc = "read" /\ AtEnd
    /\ live' = FALSE /\ closed' = "end" /\ pc' = "end"
    /\ UNCHANGED <<peerVars, queue, events, m_link_type, readVars, toldVars>>

TellEnd ==
    /\ pc = "end" /\ pc' = "wait"
    /\ told' = Append(told, [ui_size |-> i_recv_size % Width, size |-> Len(buffer)])
    /\ heard' = heard \o buffer
    /\ UNCHANGED <<peerVars, queue, events, linkVars, readVars>>

WorkerStep == Handle \/ ReadSome \/ ReadNothing \/ ReadReset \/ ReadEnd \/ TellEnd
Next == Establish \/ Arrives \/ Fin \/ Reset \/ WorkerStep

Spec == Init /\ [][Next]_vars

(* The worker runs; a connection under way is established.                 *)
FairSpec == Spec /\ WF_vars(WorkerStep) /\ WF_vars(Establish)

-----------------------------------------------------------------------------
(* Safety.                                                                 *)

(* What the callback is given is a prefix of what the peer sent, in order  *)
(* and without repetition: neither the loop nor the event that starts it   *)
(* skips or doubles a byte (on_event_read).                                *)
HeardIsPrefix == \A i \in DOMAIN heard : heard[i] = i

(* Bytes the socket had are lost only with a link whose peer has ended or  *)
(* reset it, or that filled the buffer in one go.                          *)
LossIsExplained ==
    ~live /\ queue # <<>> =>
        \/ ended # "no" /\ closed = "hangup"
        \/ closed = "end" /\ i_recv_size = Cap

(* CLOSED at the end of the stream means that the peer has ended it, or    *)
(* that Cap bytes came in one go, which is taken for the end.              *)
EndIsExplained ==
    closed = "end" => ended \in {"fin", "reset", "reported"} \/ i_recv_size = Cap

(* The header says of ui_size "data buf size" (ms-epoll-tcp.h:34): the     *)
(* callback is told how many bytes p_RecvData has (on_event_read), except  *)
(* when a reset was met, whose -1 is counted: then it is told one less,    *)
(* or, with no data, the largest unsigned.                                 *)
SizeIsBufSize ==
    \A i \in DOMAIN told :
        \/ told[i].ui_size = told[i].size
        \/ ended = "reported" /\ i = Len(told) /\ told[i].ui_size = (told[i].size - 1) % Width

-----------------------------------------------------------------------------
(* Liveness.                                                               *)

(* The callback is called when the IO is complete (ms-epoll-tcp.h:47):     *)
(* bytes that have arrived are read, unless the link goes.  Of a link made *)
(* by ms_tcp_connect that can be said only once its first event has been   *)
(* handled: bytes that came with that one wait for the next bytes.         *)
IsReported == m_link_type = "Accept" \/ (m_link_type = "Connected" /\ "IN" \in events)
ArrivedIsRead == (queue # <<>> /\ IsReported) ~> (queue = <<>> \/ ~live)
=============================================================================
