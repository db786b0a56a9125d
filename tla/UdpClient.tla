----------------------------- MODULE UdpClient ------------------------------
(***************************************************************************)
(* The UDP sample (udp-client-test.cpp, udp-nethandler.h): peers that all  *)
(* run the same program agree on a version and authenticate, over a        *)
(* network that may lose, repeat and reorder.  Of the wrapper only what    *)
(* the sample sees is here: the order in which a link is watched and told  *)
(* of (UdpLink has the rest).  The contents of the answers are in Codec.   *)
(* A definition named ...Faulty is the one after it with a bug seeded.     *)
(***************************************************************************)
EXTENDS Naturals, FiniteSets

CONSTANTS
    Peer,
    Major, Sub,     \* the versions a request may carry; the program sends 1 and 0
    MaxAsks,        \* bound on the requests a peer starts
    Loss, Repeat,   \* what the network may do
    Stops           \* TRUE: a peer may call uninit

ConstantsOK ==
    Loss \in BOOLEAN /\ Repeat \in BOOLEAN /\ Stops \in BOOLEAN /\ MaxAsks \in Nat

None == [type |-> "none"]
Data(type, from, to, value) == [type |-> type, from |-> from, to |-> to, value |-> value]
Message ==
    {Data(k[1], p, q, k[2]) : p \in Peer, q \in Peer,
        k \in ({"VER_NEGO_REQ"} \X (Major \X Sub)) \cup ({"VER_NEGO_RESP"} \X {0, 2})
              \cup ({"LINK_AUTH_REQ", "LINK_AUTH_RESP"} \X {0})}

VARIABLES
    link,           \* link[p]: its state in the wrapper; "fallen" when p has crashed
    mh_link,        \* the peers whose mh_link is their link's handle
    net,            \* the datagrams on their way
    left,           \* left[p]: those that came to its socket and had no edge
    worker,         \* worker[p]: the datagram its worker has read, or None
    asks,           \* asks[p]: how many requests p has started
    sent,           \* history: the datagrams ever sent
    total,          \* history: how many, if none is repeated
    ignored,        \* history: the datagrams read that met no mh_link
    authed          \* history: <<p, q>>, p has got q's answer to its authentication

vars == <<link, mh_link, net, left, worker, asks, sent, total, ignored, authed>>

TypeOK ==
    /\ link \in [Peer -> {"none", "watched", "open", "closing", "closed", "fallen"}]
    /\ mh_link \subseteq Peer
    /\ net \subseteq Message /\ sent \subseteq Message /\ ignored \subseteq Message
    /\ worker \in [Peer -> Message \cup {None}] /\ left \in [Peer -> SUBSET Message]
    /\ asks \in [Peer -> 0..MaxAsks] /\ total \in Nat /\ authed \subseteq Peer \X Peer
    /\ \A p \in mh_link : link[p] \in {"open", "closing", "fallen"}

Init ==
    /\ link = [p \in Peer |-> "none"] /\ mh_link = {} /\ net = {} /\ sent = {} /\ total = 0
    /\ worker = [p \in Peer |-> None] /\ left = [p \in Peer |-> {}] /\ asks = [p \in Peer |-> 0]
    /\ ignored = {} /\ authed = {}

Move(p, a, b) == link[p] = a /\ link' = [link EXCEPT ![p] = b]
traffic == <<net, left, worker, asks, sent, total, ignored, authed>>

(* udp_create: epoll watches the socket before CREATED is delivered, whose *)
(* handler is the first to set mh_link.                                    *)
Watch(p) == Move(p, "none", "watched") /\ UNCHANGED <<mh_link, traffic>>
OnUdpCreated(p) ==
    Move(p, "watched", "open") /\ mh_link' = mh_link \cup {p} /\ UNCHANGED traffic

OnUdpClosedFaulty(p) == Move(p, "closing", "closed") /\ UNCHANGED <<mh_link, traffic>>
(* uninit: the link leaves the table, then CLOSED resets mh_link.          *)
Uninit(p) == Stops /\ Move(p, "open", "closing") /\ UNCHANGED <<mh_link, traffic>>
OnUdpClosed(p) ==
    Move(p, "closing", "closed") /\ mh_link' = mh_link \ {p} /\ UNCHANGED traffic

(* send_packet_to; ms_udp_send_to finds the link or nothing is sent.       *)
Send(p, m) ==
    IF link[p] = "open" THEN net' = net \cup {m} /\ sent' = sent \cup {m}
                             /\ total' = (IF Repeat THEN total ELSE total + 1)
    ELSE UNCHANGED <<net, sent, total>>

(* do_ver_nego_req                                                         *)
DoVerNegoReq(p, q, v) ==
    /\ link[p] = "open" /\ p # q /\ asks[p] < MaxAsks
    /\ asks' = [asks EXCEPT ![p] = @ + 1] /\ Send(p, Data("VER_NEGO_REQ", p, q, v))
    /\ UNCHANGED <<link, mh_link, left, worker, ignored, authed>>

-----------------------------------------------------------------------------
(* The network, and the worker that reads from it.                         *)

Lose(m) ==
    /\ m \in net /\ (Loss \/ link[m.to] \notin {"watched", "open"})
    /\ net' = net \ {m}
    /\ UNCHANGED <<link, mh_link, left, worker, asks, sent, total, ignored, authed>>
(* The worker reads one datagram for each edge, and datagrams that come    *)
(* before the read are one edge: the others wait for the next (WaitingIs-  *)
(* Read of UdpLink).  If the network repeats they may come again anyway.   *)
Reads(p, x) ==
    /\ link[p] \in {"watched", "open"} /\ worker[p] = None
    /\ worker' = [worker EXCEPT ![p] = x]
    /\ UNCHANGED <<link, mh_link, asks, sent, total, ignored, authed>>
Read(p) ==
    \E came \in SUBSET {m \in net : m.to = p} \ {{}} : \E x \in left[p] \cup came :
        /\ Repeat => Cardinality(came) = 1
        /\ Reads(p, x)
        /\ left' = [left EXCEPT ![p] = (@ \cup came) \ {x}]
        /\ net' = net \ came \/ (Repeat /\ UNCHANGED net)
(* A datagram of its own that leaves the send buffer is an edge as well.   *)
ReadLeft(p) ==
    /\ \E m \in sent : m.from = p
    /\ \E x \in left[p] : Reads(p, x) /\ left' = [left EXCEPT ![p] = @ \ {x}]
    /\ UNCHANGED net

(* on_udp_recv_data for a link that is not mh_link                         *)
Ignore(p) ==
    /\ worker[p] # None /\ p \notin mh_link /\ link[p] # "fallen"
    /\ ignored' = ignored \cup {worker[p]} /\ worker' = [worker EXCEPT ![p] = None]
    /\ UNCHANGED <<link, mh_link, net, left, asks, sent, total, authed>>

TakesFaulty(p, type) ==
    /\ worker[p].type = type /\ p \in mh_link /\ link[p] # "fallen" /\ type # "LINK_AUTH_REQ"
    /\ worker' = [worker EXCEPT ![p] = None]
(* The switch of on_udp_recv_data                                          *)
Takes(p, type) ==
    /\ worker[p].type = type /\ p \in mh_link /\ link[p] # "fallen"
    /\ worker' = [worker EXCEPT ![p] = None]
Reply(m, type, value) == Data(type, m.to, m.from, value)

RetFaulty(v) == IF v[1] = 1 THEN 0 ELSE 2
(* on_recv_ver_nego_req: 0 for version 1.0, else 2                         *)
Ret(v) == IF v[1] = 1 /\ v[2] = 0 THEN 0 ELSE 2
OnRecvVerNegoReq(p) ==
    /\ Takes(p, "VER_NEGO_REQ")
    /\ Send(p, Reply(worker[p], "VER_NEGO_RESP", Ret(worker[p].value)))
    /\ UNCHANGED <<link, mh_link, left, asks, ignored, authed>>

OnRecvVerNegoRespFaulty(p) ==
    /\ Takes(p, "VER_NEGO_RESP") /\ Send(p, Reply(worker[p], "LINK_AUTH_REQ", 0))
    /\ UNCHANGED <<link, mh_link, left, asks, ignored, authed>>
(* on_recv_ver_nego_resq: the authentication is asked for when agreed.     *)
OnRecvVerNegoResp(p) ==
    /\ Takes(p, "VER_NEGO_RESP")
    /\ IF worker[p].value = 0 THEN Send(p, Reply(worker[p], "LINK_AUTH_REQ", 0))
       ELSE UNCHANGED <<net, sent, total>>
    /\ UNCHANGED <<link, mh_link, left, asks, ignored, authed>>

OnRecvLinkAuthReqFaulty(p) ==
    /\ Takes(p, "LINK_AUTH_REQ") /\ Send(p, Reply(worker[p], "VER_NEGO_REQ", <<1, 0>>))
    /\ UNCHANGED <<link, mh_link, left, asks, ignored, authed>>
(* on_recv_link_auth_req ends without the return it owes: what the build   *)
(* does after it has answered is to return or to run into other code.      *)
OnRecvLinkAuthReq(p) ==
    /\ Takes(p, "LINK_AUTH_REQ") /\ Send(p, Reply(worker[p], "LINK_AUTH_RESP", 0))
    /\ UNCHANGED link \/ link' = [link EXCEPT ![p] = "fallen"]
    /\ UNCHANGED <<mh_link, left, asks, ignored, authed>>

OnRecvLinkAuthResp(p) ==
    /\ Takes(p, "LINK_AUTH_RESP") /\ authed' = authed \cup {<<p, worker[p].from>>}
    /\ UNCHANGED <<link, mh_link, net, left, asks, sent, total, ignored>>

Handle(p) ==
    \/ Ignore(p) \/ OnRecvVerNegoReq(p) \/ OnRecvVerNegoResp(p)
    \/ OnRecvLinkAuthReq(p) \/ OnRecvLinkAuthResp(p)
Next ==
    \/ \E p \in Peer : \/ Watch(p) \/ OnUdpCreated(p) \/ Uninit(p) \/ OnUdpClosed(p)
                       \/ Read(p) \/ ReadLeft(p) \/ Handle(p)
                       \/ \E q \in Peer, v \in Major \X Sub : DoVerNegoReq(p, q, v)
    \/ \E m \in net : Lose(m)

Spec == Init /\ [][Next]_vars
(* The workers run, and the network delivers; a datagram that was left is  *)
(* read only if an edge comes, which nothing makes sure of.                *)
FairSpec ==
    Spec /\ \A p \in Peer : WF_vars(Read(p)) /\ WF_vars(Handle(p)) /\ WF_vars(OnUdpCreated(p))

-----------------------------------------------------------------------------
(* Safety.                                                                 *)

Agreed(p, q) == /\ \E v \in Major \X Sub : Data("VER_NEGO_REQ", p, q, v) \in sent /\ v = <<1, 0>>
                /\ Data("VER_NEGO_RESP", q, p, 0) \in sent
(* Though no peer remembers anything and datagrams are repeated and        *)
(* reordered: who asks to be authenticated, and who is, has asked the same *)
(* peer for version 1.0 and was answered that it agrees.                   *)
AuthFollowsAgreement ==
    /\ \A m \in sent : m.type = "LINK_AUTH_REQ" => Agreed(m.from, m.to)
    /\ \A pair \in authed : Agreed(pair[1], pair[2])

(* Each request to agree on a version costs four datagrams at most: the    *)
(* peers' answers to each other do not keep each other going.              *)
AllAsks == Cardinality({ask \in Peer \X (1..MaxAsks) : ask[2] <= asks[ask[1]]})
NoStorm == Repeat \/ total <= 4 * AllAsks

-----------------------------------------------------------------------------
(* Liveness.                                                               *)

Gone(p) == link[p] \notin {"watched", "open"}
Missed(p, q) == \E m \in ignored : {m.from, m.to} = {p, q}
(* On a network that loses nothing a request for version 1.0 ends with     *)
(* both authenticated, unless a datagram is left unread for ever, a link   *)
(* is closed, a peer has run into other code, or a datagram came before    *)
(* mh_link was set: nobody asks again.                                     *)
ExchangeEnds ==
    []<>(\A p \in Peer : left[p] = {}) =>
        \A p \in Peer, q \in Peer :
            (Data("VER_NEGO_REQ", p, q, <<1, 0>>) \in net) ~>
                (<<p, q>> \in authed \/ Gone(p) \/ Gone(q) \/ Missed(p, q))
=============================================================================
