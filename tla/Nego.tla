-------------------------------- MODULE Nego --------------------------------
(***************************************************************************)
(* The sample client (Test_Client) against the sample server's handle of   *)
(* it (TestClientHandle): connect, version negotiation, authentication.    *)
(* On the client, main runs process_connect_server while the worker gives  *)
(* the callback its events; the connection may end at any moment, for      *)
(* either side.  The connection is two queues of packets, since Framing    *)
(* and Codec model how they become bytes; of the bytes this much is kept,  *)
(* that a packet may stay on its sender's list (SendBuff) or, if the last  *)
(* read of it was short, in its reader's buffer (Framing).  The version    *)
(* the client asks for is a constant there (1.0), chosen from a set here.  *)
(* A definition named ...Faulty is the one after it with a bug seeded.     *)
(***************************************************************************)
EXTENDS Integers, Sequences

CONSTANTS
    Versions        \* pairs of ui_major_ver and ui_sub_ver asked for

Link == 1           \* the handle tcp_create gives
Invalid == 0        \* INVALID_HTCPLINK

ConstantsOK == Versions \subseteq Nat \X Nat

VARIABLES
    version,        \* what do_ver_nego_req will ask for
    pc,             \* where main is in process_connect_server
    link,           \* the client's link: "none", "live" or "dead"
    path,           \* the connection: "down", "up", "cut" (both ends see it)
    mh_tcpLink,     \* the handle the client holds
    mui_client_id,
    handle,         \* the server has a TestClientHandle of the connection
    toServer, toClient,     \* packets on their way
    unsent,         \* unsent[side]: packets of which a part is on its list
    held,           \* held[side]: packets in mv_recv_buf after a short read
    spins,          \* the sides whose worker does not come back from a flush
    told,           \* history: the farewells the client's callback got
    early,          \* history: CLOSED came before set_link
    refused,        \* history: a packet came for a handle that is not held
    asked           \* history: the requests the server has answered, in order

clientVars == <<pc, link, mh_tcpLink, mui_client_id, told, early, refused>>
bufVars == <<unsent, held, spins>>
netVars == <<path, toServer, toClient, bufVars>>
vars == <<version, clientVars, netVars, handle, asked>>

Packet == [type : {"VER_NEGO_REQ"}, ver : Versions] \cup [type : {"LINK_AUTH_REQ"}]
          \cup [type : {"VER_NEGO_RESP"}, i_ret : {0, 2}] \cup [type : {"LINK_AUTH_RESP"}, id : {1}]
Side == {"client", "server"}
MainPC == {"start", "create", "connect", "fail", "set_link", "nego", "returned"}

TypeOK ==
    /\ version \in Versions
    /\ pc \in MainPC
    /\ link \in {"none", "live", "dead"} /\ path \in {"down", "up", "cut"}
    /\ mh_tcpLink \in {Invalid, Link} /\ mui_client_id \in {0, 1}
    /\ handle \in BOOLEAN
    /\ toServer \in Seq(Packet) /\ toClient \in Seq(Packet)
    /\ unsent \in [Side -> Seq(Packet)] /\ held \in [Side -> Seq(Packet)] /\ spins \subseteq Side
    /\ held["client"] # <<>> => toClient = <<>>
    /\ held["server"] # <<>> => toServer = <<>>
    /\ told \subseteq {"CLOSED", "DISCONNECTED"}
    /\ early \in BOOLEAN /\ refused \in BOOLEAN
    /\ asked \in Seq({<<"VER_NEGO_REQ", 0>>, <<"VER_NEGO_REQ", 2>>, <<"LINK_AUTH_REQ", 0>>})

Init ==
    /\ version \in Versions
    /\ pc = "start" /\ link = "none" /\ path = "down"
    /\ mh_tcpLink = Invalid /\ mui_client_id = 0
    /\ handle = FALSE /\ toServer = <<>> /\ toClient = <<>>
    /\ unsent = [s \in Side |-> <<>>] /\ held = [s \in Side |-> <<>>] /\ spins = {}
    /\ told = {} /\ early = FALSE /\ refused = FALSE /\ asked = <<>>

-----------------------------------------------------------------------------
(* main: Init, process_connect_server                                      *)

(* The old link, if there is one, is destroyed first: in Init there is     *)
(* none.  tcp_create may fail: then INVALID_HTCPLINK is destroyed, in vain.*)
TcpCreate ==
    /\ pc = "start"
    /\ \/ link' = "live" /\ pc' = "connect"
       \/ pc' = "returned" /\ UNCHANGED link
    /\ UNCHANGED <<version, netVars, mh_tcpLink, mui_client_id, told, early, refused, handle, asked>>

TcpConnectFaulty ==
    /\ pc = "connect"
    /\ \/ /\ path' = "up" /\ pc' = "set_link" /\ UNCHANGED <<link, told>>
          /\ toServer' = <<[type |-> "VER_NEGO_REQ", ver |-> version]>>
       \/ /\ told' = told \cup {"DISCONNECTED"} /\ link' = "dead" /\ pc' = "returned"
          /\ UNCHANGED <<path, toServer>>
    /\ UNCHANGED <<version, toClient, bufVars, mh_tcpLink, mui_client_id, early, refused,
                   handle, asked>>
(* ms_tcp_connect: under way (on_tcp_connected asks for addresses, no      *)
(* more), or failed at once: DISCONNECTED, then tcp_destroy, which has no  *)
(* socket to report CLOSED for.                                            *)
TcpConnect ==
    /\ pc = "connect"
    /\ \/ path' = "up" /\ pc' = "set_link" /\ UNCHANGED <<link, told>>
       \/ told' = told \cup {"DISCONNECTED"} /\ link' = "dead" /\ pc' = "returned" /\ UNCHANGED path
    /\ UNCHANGED <<version, toServer, toClient, bufVars, mh_tcpLink, mui_client_id, early,
                   refused, handle, asked>>

SetLinkFaulty ==
    /\ pc = "set_link" /\ pc' = "nego"
    /\ UNCHANGED <<version, netVars, link, mh_tcpLink, mui_client_id, told, early, refused, handle, asked>>
SetLink ==
    /\ pc = "set_link" /\ mh_tcpLink' = Link /\ pc' = "nego"
    /\ UNCHANGED <<version, netVars, link, mui_client_id, told, early, refused, handle, asked>>

(* A packet is written whole, or what is left of it goes to the list.      *)
Buffer(side, p) == unsent' = [unsent EXCEPT ![side] = Append(@, p)]

(* send_packet on the handle get_link returns: lost if it cannot be found. *)
Sent(p) ==
    IF mh_tcpLink = Link /\ link = "live" /\ path = "up"
    THEN \/ toServer' = Append(toServer, p) /\ UNCHANGED unsent
         \/ Buffer("client", p) /\ UNCHANGED toServer
    ELSE UNCHANGED <<toServer, unsent>>

DoVerNegoReq ==
    /\ pc = "nego" /\ pc' = "returned"
    /\ Sent([type |-> "VER_NEGO_REQ", ver |-> version])
    /\ UNCHANGED <<version, path, toClient, held, spins, link, mh_tcpLink, mui_client_id, told,
                   early, refused, handle, asked>>

MainStep == TcpCreate \/ TcpConnect \/ SetLink \/ DoVerNegoReq

-----------------------------------------------------------------------------
(* The client's worker.                                                    *)

HeardFaulty(p) == TRUE
(* on_ver_nego_ack: the handshake goes on only after i_ret 0.              *)
Heard(p) == p.i_ret = 0

ClientRuns == link = "live" /\ "client" \notin spins

(* on_tcp_recv_data: a packet for another handle than the one held is      *)
(* refused; on_ver_nego_ack, on_link_auth_ack.                             *)
OnTcpRecvData ==
    /\ ClientRuns /\ path # "down" /\ toClient # <<>>
    /\ toClient' = Tail(toClient)
    /\ LET p == Head(toClient)
       IN  CASE mh_tcpLink # Link ->
                  refused' = TRUE /\ UNCHANGED <<toServer, unsent, mui_client_id>>
             [] mh_tcpLink = Link /\ p.type = "VER_NEGO_RESP" ->
                  /\ IF Heard(p) THEN Sent([type |-> "LINK_AUTH_REQ"])
                     ELSE UNCHANGED <<toServer, unsent>>
                  /\ UNCHANGED <<refused, mui_client_id>>
             [] mh_tcpLink = Link /\ p.type = "LINK_AUTH_RESP" ->
                  mui_client_id' = p.id /\ UNCHANGED <<refused, toServer, unsent>>
    /\ UNCHANGED <<version, path, held, spins, pc, link, mh_tcpLink, told, early, handle, asked>>

(* Hang-up: DISCONNECTED, in which the client keeps its handle, and the    *)
(* link is gone.  What has arrived and was not read is lost.               *)
OnTcpDisconnected ==
    /\ ClientRuns /\ path = "cut"
    /\ link' = "dead" /\ told' = told \cup {"DISCONNECTED"} /\ toClient' = <<>>
    /\ unsent' = [unsent EXCEPT !["client"] = <<>>]
    /\ UNCHANGED <<version, path, toServer, held, spins, pc, mh_tcpLink, mui_client_id, early, refused, handle, asked>>

OnTcpClosedFaulty ==
    /\ ClientRuns /\ path = "cut" /\ toClient = <<>>
    /\ link' = "dead" /\ told' = told \cup {"CLOSED"}
    /\ early' = (pc = "set_link") /\ unsent' = [unsent EXCEPT !["client"] = <<>>]
    /\ UNCHANGED <<version, path, toServer, toClient, held, spins, pc, mh_tcpLink, mui_client_id, refused, handle, asked>>
(* The end of the stream: CLOSED, in which the client forgets the handle   *)
(* if it is the one it holds.                                              *)
OnTcpClosed ==
    /\ ClientRuns /\ path = "cut" /\ toClient = <<>>
    /\ link' = "dead" /\ told' = told \cup {"CLOSED"}
    /\ mh_tcpLink' = Invalid
    /\ early' = (pc = "set_link") /\ unsent' = [unsent EXCEPT !["client"] = <<>>]
    /\ UNCHANGED <<version, path, toServer, toClient, held, spins, pc, mui_client_id, refused, handle, asked>>

-----------------------------------------------------------------------------
(* The server.                                                             *)

ServerRuns == "server" \notin spins

(* on_tcp_accepted                                                         *)
Accepted ==
    /\ ServerRuns /\ path = "up" /\ ~handle /\ handle' = TRUE
    /\ UNCHANGED <<version, clientVars, netVars, asked>>

RetFaulty(ver) == IF ver[1] = 1 THEN ver[2] ELSE 2
Ret(ver) == IF ver[1] = 1 /\ ver[2] = 0 THEN 0 ELSE 2

Answer(p) ==
    IF path = "up"
    THEN \/ toClient' = Append(toClient, p) /\ UNCHANGED unsent
         \/ Buffer("server", p) /\ UNCHANGED toClient
    ELSE UNCHANGED <<toClient, unsent>>

(* recv_data: on_ver_nego_req, on_link_auth_req and their answers.  The    *)
(* server answers an authentication whatever was negotiated before.        *)
RecvData ==
    /\ ServerRuns /\ handle /\ toServer # <<>>
    /\ LET p == Head(toServer)
       IN  CASE p.type = "VER_NEGO_REQ" ->
                  /\ Answer([type |-> "VER_NEGO_RESP", i_ret |-> Ret(p.ver)])
                  /\ asked' = Append(asked, <<p.type, Ret(p.ver)>>)
             [] p.type = "LINK_AUTH_REQ" ->
                  /\ Answer([type |-> "LINK_AUTH_RESP", id |-> 1])
                  /\ asked' = Append(asked, <<p.type, 0>>)
    /\ toServer' = Tail(toServer)
    /\ UNCHANGED <<version, path, held, spins, clientVars, handle>>

ForgetFaulty ==
    /\ ServerRuns /\ path = "cut" /\ handle /\ toServer' = <<>>
    /\ unsent' = [unsent EXCEPT !["server"] = <<>>]
    /\ UNCHANGED <<version, clientVars, path, toClient, held, spins, handle, asked>>
(* on_tcp_closed or on_tcp_disconnected of the server, link_remove; with   *)
(* the server's link what it has not read is gone, and what it has to send.*)
Forget ==
    /\ ServerRuns /\ path = "cut" /\ handle /\ handle' = FALSE /\ toServer' = <<>>
    /\ unsent' = [unsent EXCEPT !["server"] = <<>>]
    /\ UNCHANGED <<version, clientVars, path, toClient, held, spins, asked>>

-----------------------------------------------------------------------------
(* The bytes.                                                              *)

(* The last read of a packet was shorter than a header, so nothing is cut  *)
(* out of the buffer until more comes, and each side waits for the other.  *)
ShortRead ==
    /\ \/ /\ ClientRuns /\ path # "down" /\ toClient # <<>>
          /\ held' = [held EXCEPT !["client"] = Append(@, Head(toClient))]
          /\ toClient' = Tail(toClient) /\ UNCHANGED toServer
       \/ /\ ServerRuns /\ handle /\ toServer # <<>>
          /\ held' = [held EXCEPT !["server"] = Append(@, Head(toServer))]
          /\ toServer' = Tail(toServer) /\ UNCHANGED toClient
    /\ UNCHANGED <<version, path, unsent, spins, clientVars, handle, asked>>

(* do_send_buff sends what is on the list, if it is called; after a reset  *)
(* it does not come back.                                                  *)
DoSendBuff(side) ==
    /\ unsent[side] # <<>> /\ side \notin spins
    /\ \/ /\ path = "up" /\ unsent' = [unsent EXCEPT ![side] = Tail(@)]
          /\ IF side = "client" THEN toServer' = Append(toServer, Head(unsent[side])) /\ UNCHANGED toClient
             ELSE toClient' = Append(toClient, Head(unsent[side])) /\ UNCHANGED toServer
          /\ UNCHANGED spins
       \/ path = "cut" /\ spins' = spins \cup {side} /\ UNCHANGED <<unsent, toServer, toClient>>
    /\ UNCHANGED <<version, path, held, clientVars, handle, asked>>

(* The peer, the timeout thread or the network ends the connection.        *)
Cut ==
    /\ path = "up" /\ path' = "cut"
    /\ UNCHANGED <<version, clientVars, toServer, toClient, bufVars, handle, asked>>

ClientStep == OnTcpRecvData \/ OnTcpClosed \/ OnTcpDisconnected
ServerStep == Accepted \/ RecvData \/ Forget
ByteStep == ShortRead \/ \E side \in Side : DoSendBuff(side)
Next == MainStep \/ ClientStep \/ ServerStep \/ ByteStep \/ Cut

Spec == Init /\ [][Next]_vars

(* main and both workers run; nothing makes the connection end, nor the    *)
(* flush come: the edge that calls for it may have been used up.           *)
FairSpec == Spec /\ WF_vars(MainStep) /\ WF_vars(ClientStep) /\ WF_vars(ServerStep)

-----------------------------------------------------------------------------
(* Safety.                                                                 *)

(* A client that has an id asked for a version the server agreed to, and   *)
(* then for its authentication, each once: the order is the client's       *)
(* alone, since the server answers both at any time (test-client.cpp,      *)
(* on_ver_nego_ack; test-client-handle.cpp, recv_data).                    *)
AuthFollowsAgreement ==
    mui_client_id # 0 =>
        version = <<1, 0>> /\ asked = <<<<"VER_NEGO_REQ", 0>>, <<"LINK_AUTH_REQ", 0>>>>

(* The client holds the handle of a link that is gone only after a         *)
(* DISCONNECTED, or if CLOSED came between ms_tcp_connect and set_link     *)
(* (test-client.cpp, on_tcp_closed, on_tcp_disconnected, set_link).        *)
StaleHandleExplained ==
    mh_tcpLink = Link /\ link = "dead" => "DISCONNECTED" \in told \/ early

(* No answer comes before the client holds its handle: the check of the    *)
(* handle refuses nothing on the one connection there is (set_link before  *)
(* do_ver_nego_req against on_tcp_recv_data).                              *)
AnswersAreHeard == ~refused

-----------------------------------------------------------------------------
(* Liveness.                                                               *)

Stuck == \E side \in Side : unsent[side] # <<>> \/ held[side] # <<>>

(* A client that has connected gets its id, or is refused its version, or  *)
(* the connection ends: unless a packet stays for ever on its sender's     *)
(* list or in its reader's buffer (process_connect_server, on_ver_nego_ack *)
(* and recv_data, each waiting for the other).                             *)
HandshakeEnds ==
    []<>~Stuck =>
        ((pc = "nego") ~> (mui_client_id = 1 \/ path = "cut" \/ Ret(version) # 0))

(* A connection that ends is known to have ended by both, but a side that  *)
(* was about to flush (send_reset of SendBuff).                            *)
BothNotice ==
    (path = "cut") ~> /\ link = "dead" \/ "client" \in spins
                      /\ ~handle \/ "server" \in spins
=============================================================================
